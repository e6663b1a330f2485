---------------------------- MODULE FactsProofs ----------------------------
(***************************************************************************)
(* What facts are made of, and what a validation makes of them, for any    *)
(* tables, callers, directories and bounds, as FactsContract states it.    *)
(*                                                                         *)
(* A table puts rows in the tree of the nodes, each at its path. A tree    *)
(* is clear of a table if nothing stands where its rows write; what a row  *)
(* then puts is still there after the last row (Holds) unless a later row  *)
(* has its path. Two tables are separate if no row of one writes on the    *)
(* way to, at or below a row of the other: all seven are, so that each     *)
(* finds the tree clear, and the facts say what the seven tables say.      *)
(*                                                                         *)
(* For a validation every cell that differs has to be reported, under the  *)
(* key where the tree of the validated snapshot ends: it is, since the     *)
(* maps of the facts are at the same paths whatever the tables (MapAt),    *)
(* no map of the facts is empty but those of the neighbors (Grown), and a  *)
(* file holds the facts with the elements as maps (IsStored).              *)
(*                                                                         *)
(* Of the calls two things are needed: that what a call asked about is in  *)
(* its history (InScope), which has one network and one snapshot as long   *)
(* as nobody changes them, and what was computed from the answers          *)
(* (Outcome).                                                              *)
(***************************************************************************)
EXTENDS FactsContract, NatRecursion, SequenceTheorems, TLAPS
LOCAL INSTANCE SequencesExt

------------------------------------------------------------------------------
(* PATHS AND WHAT IS PUT THERE                                              *)

(* A path is on the way to another if it is the beginning of it.            *)
LEMMA WayIs ==
  ASSUME NEW K, NEW q \in Seq(K), NEW p
  PROVE  p \in Way(q) <=> /\ p \in Seq(K) /\ Len(p) \in 1..Len(q)
                          /\ \A i \in 1..Len(p) : p[i] = q[i]
  <1>1. Len(q) \in Nat /\ \A i \in 1..Len(q) : q[i] \in K
    BY LenProperties, ElementOfSeq
  <1>2. ASSUME NEW k \in 1..Len(q)
        PROVE  /\ SubSeq(q, 1, k) \in Seq(K) /\ Len(SubSeq(q, 1, k)) = k
               /\ \A i \in 1..k : SubSeq(q, 1, k)[i] = q[i]
    <2>1. \A i \in 1..k : q[i] \in K
      BY <1>1
    <2>2. /\ SubSeq(q, 1, k) \in Seq(K)
          /\ Len(SubSeq(q, 1, k)) = IF 1 <= k THEN k - 1 + 1 ELSE 0
          /\ \A i \in 1..(k - 1 + 1) : SubSeq(q, 1, k)[i] = q[1 + i - 1]
      BY <1>1, <2>1, SubSeqProperties
    <2>3. k \in Nat /\ k - 1 + 1 = k /\ \A i \in 1..k : 1 + i - 1 = i
      BY <1>1
    <2> QED
      BY <2>2, <2>3
  <1>3. ASSUME p \in Seq(K), Len(p) \in 1..Len(q), \A i \in 1..Len(p) : p[i] = q[i]
        PROVE  p = SubSeq(q, 1, Len(p))
    BY <1>2, <1>3, SeqEqual
  <1> QED
    BY <1>2, <1>3 DEF Way

(* Being on the way is transitive.                                          *)
LEMMA WayOfWay ==
  ASSUME NEW K, NEW q \in Seq(K), NEW p \in Way(q), NEW r \in Way(p)
  PROVE  r \in Way(q)
  <1>1. p \in Seq(K) /\ Len(p) \in 1..Len(q) /\ \A i \in 1..Len(p) : p[i] = q[i]
    BY WayIs
  <1>2. r \in Seq(K) /\ Len(r) \in 1..Len(p) /\ \A i \in 1..Len(r) : r[i] = p[i]
    BY <1>1, WayIs
  <1>3. Len(q) \in Nat
    BY LenProperties
  <1> QED
    BY <1>1, <1>2, <1>3, WayIs

(* What is below a path.                                                    *)
LEMMA BelowIs ==
  ASSUME NEW K, NEW p \in Seq(K), p # <<>>, NEW c \in Seq(K)
  PROVE  /\ p \o c \in Seq(K) /\ Len(p \o c) = Len(p) + Len(c)
         /\ Len(p) \in Nat \ {0} /\ Len(c) \in Nat /\ (c # <<>> => Len(c) # 0)
         /\ \A i \in 1..Len(p) : (p \o c)[i] = p[i]
         /\ \A i \in 1..Len(c) : (p \o c)[Len(p) + i] = c[i]
         /\ p \in Way(p \o c) /\ p \in Way(p)
         /\ SubSeq(p \o c, Len(p) + 1, Len(p \o c)) = c
  <1>1. /\ p \o c \in Seq(K) /\ Len(p \o c) = Len(p) + Len(c)
        /\ \A i \in 1..(Len(p) + Len(c)) : (p \o c)[i] = IF i <= Len(p) THEN p[i] ELSE c[i - Len(p)]
    BY ConcatProperties
  <1>2. Len(p) \in Nat \ {0} /\ Len(c) \in Nat /\ (c # <<>> => Len(c) # 0)
    BY EmptySeq, LenProperties
  <1>3. \A i \in 1..Len(p) : (p \o c)[i] = p[i]
    BY <1>1, <1>2
  <1>4. \A i \in 1..Len(c) : (p \o c)[Len(p) + i] = c[i]
    BY <1>1, <1>2
  <1>5. p \in Way(p \o c) /\ p \in Way(p)
    <2>1. Len(p) \in 1..Len(p \o c) /\ Len(p) \in 1..Len(p)
      BY <1>1, <1>2
    <2>2. p \in Way(p \o c) <=> /\ p \in Seq(K) /\ Len(p) \in 1..Len(p \o c)
                                /\ \A i \in 1..Len(p) : p[i] = (p \o c)[i]
      <3> DEFINE t == p \o c
      <3>1. t \in Seq(K)
        BY <1>1
      <3> HIDE DEF t
      <3>2. p \in Way(t) <=> /\ p \in Seq(K) /\ Len(p) \in 1..Len(t)
                             /\ \A i \in 1..Len(p) : p[i] = t[i]
        BY <3>1, WayIs
      <3> QED
        BY <3>2 DEF t
    <2>3. p \in Way(p) <=> /\ p \in Seq(K) /\ Len(p) \in 1..Len(p)
                           /\ \A i \in 1..Len(p) : p[i] = p[i]
      BY WayIs
    <2> QED
      BY <1>3, <2>1, <2>2, <2>3
  <1>6. SubSeq(p \o c, Len(p) + 1, Len(p \o c)) = c
    <2> DEFINE a == Len(p) + 1
               b == Len(p) + Len(c)
               s == SubSeq(p \o c, a, b)
    <2>1. a \in Int /\ b \in Int /\ \A i \in a..b : (p \o c)[i] \in K
      BY <1>1, <1>2, ElementOfSeq
    <2>2. /\ s \in Seq(K) /\ Len(s) = IF a <= b THEN b - a + 1 ELSE 0
          /\ \A i \in 1..(b - a + 1) : s[i] = (p \o c)[a + i - 1]
      <3> DEFINE t == p \o c
      <3>1. a \in Int /\ b \in Int /\ \A i \in a..b : t[i] \in K
        BY <2>1
      <3> HIDE DEF a, b, t
      <3>2. /\ SubSeq(t, a, b) \in Seq(K)
            /\ Len(SubSeq(t, a, b)) = IF a <= b THEN b - a + 1 ELSE 0
            /\ \A i \in 1..(b - a + 1) : SubSeq(t, a, b)[i] = t[a + i - 1]
        BY <3>1, SubSeqProperties
      <3> QED
        BY <3>2 DEF t
    <2>3. Len(s) = Len(c) /\ b - a + 1 = Len(c) /\ \A i \in 1..Len(c) : a + i - 1 = Len(p) + i
      BY <1>2, <2>2
    <2>4. \A i \in 1..Len(c) : s[i] = c[i]
      BY <1>4, <2>2, <2>3
    <2> QED
      BY <1>1, <2>2, <2>3, <2>4, SeqEqual
  <1> QED
    BY <1>1, <1>2, <1>3, <1>4, <1>5, <1>6

(* Paths of one length are on the way to the same only if they are equal.   *)
LEMMA Apart ==
  ASSUME NEW K, NEW p \in Seq(K), NEW q \in Seq(K), Len(p) = Len(q), q # <<>>
  PROVE  /\ p \in Way(q) => p = q
         /\ \A c \in Seq(K) : p \in Way(q \o c) => p = q
         /\ \A c, d \in Seq(K) : p \o c = q \o d => p = q /\ c = d
  <1>1. ASSUME \A i \in 1..Len(p) : p[i] = q[i] PROVE p = q
    BY <1>1, SeqEqual
  <1>2. p \in Way(q) => p = q
    BY <1>1, WayIs
  <1>3. ASSUME NEW c \in Seq(K), p \in Way(q \o c) PROVE p = q
    <2>1. \A i \in 1..Len(q) : (q \o c)[i] = q[i]
      BY BelowIs
    <2>2. q \o c \in Seq(K)
      BY BelowIs
    <2>3. \A i \in 1..Len(p) : p[i] = (q \o c)[i]
      <3> DEFINE t == q \o c
      <3>1. t \in Seq(K) /\ p \in Way(t)
        BY <1>3, <2>2
      <3> HIDE DEF t
      <3>2. \A i \in 1..Len(p) : p[i] = t[i]
        BY <3>1, WayIs
      <3> QED
        BY <3>2 DEF t
    <2> QED
      BY <1>1, <2>1, <2>3
  <1>4. ASSUME NEW c \in Seq(K), NEW d \in Seq(K), p \o c = q \o d PROVE p = q /\ c = d
    <2>1. p # <<>>
      BY EmptySeq, LenProperties
    <2>2. p = q
      BY <1>1, <1>4, <2>1, BelowIs
    <2>3. SubSeq(p \o c, Len(p) + 1, Len(p \o c)) = c
      BY <2>1, BelowIs
    <2>4. SubSeq(q \o d, Len(q) + 1, Len(q \o d)) = d
      BY BelowIs
    <2> QED
      BY <1>4, <2>2, <2>3, <2>4
  <1> QED
    BY <1>2, <1>3, <1>4

(* What Put puts.                                                           *)
Below(path, cells) == {path \o c : c \in DOMAIN cells}
Kept(tree, path) == {p \in DOMAIN tree : path \notin Way(p)}
IsPut(T, tree, path, cells) ==
  /\ DOMAIN T = Kept(tree, path) \cup Way(path) \cup Below(path, cells)
  /\ \A p \in Way(path) : T[p] = Branch
  /\ \A c \in DOMAIN cells : T[path \o c] = cells[c]
  /\ \A p \in DOMAIN tree : path \notin Way(p) /\ p \notin Way(path) => T[p] = tree[p]

(* What stood at the path and below it is gone, and the rest is kept.       *)
LEMMA PutIs ==
  ASSUME NEW K, NEW tree, NEW path \in Seq(K), path # <<>>,
         NEW cells, DOMAIN cells \subseteq Seq(K) \ {<<>>}
  PROVE  IsPut(Put(tree, path, cells), tree, path, cells)
  <1> DEFINE T == Put(tree, path, cells)
             kept == {p \in DOMAIN tree : path \notin Way(p)}
             below == {path \o c : c \in DOMAIN cells}
             D == kept \cup Way(path) \cup below
             e(p) == IF p \in Way(path) THEN Branch
                     ELSE IF p \in below THEN cells[SubSeq(p, Len(path) + 1, Len(p))]
                     ELSE tree[p]
  <1>1. T = [p \in D |-> e(p)]
    BY Zenon DEF Put
  <1> HIDE DEF T
  <1>2. \A c \in DOMAIN cells : /\ path \in Way(path \o c) /\ path \o c \in Seq(K)
                                /\ Len(path \o c) > Len(path)
                                /\ SubSeq(path \o c, Len(path) + 1, Len(path \o c)) = c
    BY BelowIs
  <1>3. ASSUME NEW c \in DOMAIN cells, path \o c \in Way(path) PROVE FALSE
    <2>1. Len(path \o c) > Len(path)
      BY <1>2
    <2>2. Len(path) \in Nat /\ Len(path \o c) \in 1..Len(path)
      BY <1>3, WayIs, LenProperties
    <2> QED
      BY <2>1, <2>2
  <1>4. \A p \in D : T[p] = e(p)
    <2> HIDE DEF D, e
    <2> QED
      BY <1>1
  <1>5. DOMAIN T = D
    <2> HIDE DEF D, e
    <2> QED
      BY <1>1
  <1>6. \A p \in kept : p \notin below
    BY <1>2
  <1>7. ASSUME NEW p \in Way(path) PROVE T[p] = Branch
    BY <1>4
  <1>8. ASSUME NEW c \in DOMAIN cells PROVE T[path \o c] = cells[c]
    <2>1. path \o c \in below /\ path \o c \in D
      OBVIOUS
    <2> QED
      BY <1>2, <1>3, <1>4, <2>1
  <1>9. ASSUME NEW p \in DOMAIN tree, path \notin Way(p), p \notin Way(path) PROVE T[p] = tree[p]
    <2>1. p \in kept
      BY <1>9
    <2> QED
      BY <1>4, <1>6, <1>9, <2>1
  <1> QED
    BY <1>5, <1>7, <1>8, <1>9 DEF IsPut, Kept, Below, T

------------------------------------------------------------------------------
(* THE ROWS OF ONE TABLE                                                    *)

Under(patch) == Below(patch.at, patch.cells)

(* The rows of a table set maps at paths of one length, with cells below.   *)
Patches(ps, L, K) ==
  /\ Len(ps) \in Nat /\ DOMAIN ps = 1..Len(ps) /\ L \in Nat \ {0}
  /\ \A k \in DOMAIN ps : ps[k].on => /\ ps[k].at \in Seq(K) /\ Len(ps[k].at) = L
                                      /\ DOMAIN ps[k].cells \subseteq Seq(K) \ {<<>>}

(* Nothing stands where they write, and what is on the way is a map.        *)
Clear(tree, ps, K) ==
  /\ DOMAIN tree \subseteq Seq(K)
  /\ \A k \in DOMAIN ps : ps[k].on =>
        \A p \in DOMAIN tree : /\ ps[k].at \notin Way(p)
                               /\ p \in Way(ps[k].at) => tree[p] = Branch

(* Of the first n rows, those that no later one replaces.                   *)
LastRows(ps, n) ==
  {k \in 1..n : ps[k].on /\ \A j \in (k + 1)..n : ps[j].on => ps[j].at # ps[k].at}

(* T is the tree, and what these rows say.                                  *)
Holds(T, tree, ps, n) ==
  /\ DOMAIN T = DOMAIN tree \cup UNION {Way(ps[k].at) \cup Under(ps[k]) : k \in LastRows(ps, n)}
  /\ \A p \in DOMAIN tree : T[p] = tree[p]
  /\ \A k \in LastRows(ps, n) : \A p \in Way(ps[k].at) : T[p] = Branch
  /\ \A k \in LastRows(ps, n) : \A c \in DOMAIN ps[k].cells : T[ps[k].at \o c] = ps[k].cells[c]

Applied(T, patch) == IF ~patch.on THEN T ELSE Put(T, patch.at, patch.cells)

(* A row that is skipped replaces none.                                     *)
LEMMA LastSkips ==
  ASSUME NEW ps, NEW n \in Nat, ~ps[n + 1].on
  PROVE  LastRows(ps, n + 1) = LastRows(ps, n)
  <1>1. ASSUME NEW k \in 1..n PROVE (k + 1)..(n + 1) = ((k + 1)..n) \cup {n + 1}
    OBVIOUS
  <1>2. 1..(n + 1) = (1..n) \cup {n + 1}
    OBVIOUS
  <1> QED
    BY <1>1, <1>2 DEF LastRows

(* A row that is not skipped replaces those before it with the same path.   *)
LEMMA LastTakes ==
  ASSUME NEW ps, NEW n \in Nat, ps[n + 1].on
  PROVE  LastRows(ps, n + 1) = {k \in LastRows(ps, n) : ps[k].at # ps[n + 1].at} \cup {n + 1}
  <1>1. ASSUME NEW k \in 1..n PROVE (k + 1)..(n + 1) = ((k + 1)..n) \cup {n + 1}
    OBVIOUS
  <1>2. 1..(n + 1) = (1..n) \cup {n + 1} /\ (n + 2)..(n + 1) = {} /\ n + 1 + 1 = n + 2
    OBVIOUS
  <1>3. ASSUME NEW k \in 1..n
        PROVE  k \in LastRows(ps, n + 1) <=> k \in LastRows(ps, n) /\ ps[k].at # ps[n + 1].at
    BY <1>1, <1>2, <1>3 DEF LastRows
  <1>4. n + 1 \in LastRows(ps, n + 1) /\ n + 1 \notin 1..n
    BY <1>2 DEF LastRows
  <1>5. LastRows(ps, n) \subseteq 1..n /\ LastRows(ps, n + 1) \subseteq (1..n) \cup {n + 1}
    BY <1>2 DEF LastRows
  <1> QED
    BY <1>3, <1>4, <1>5

(* One more row.                                                            *)
LEMMA PatchStep ==
  ASSUME NEW K, NEW L, NEW ps, Patches(ps, L, K), NEW tree, Clear(tree, ps, K),
         NEW n \in Nat, n + 1 \in DOMAIN ps, NEW T, Holds(T, tree, ps, n)
  PROVE  Holds(Applied(T, ps[n + 1]), tree, ps, n + 1)
  <1>1. CASE ~ps[n + 1].on
    BY <1>1, LastSkips DEF Holds, Applied
  <1>2. CASE ps[n + 1].on
    <2> DEFINE at == ps[n + 1].at
               cells == ps[n + 1].cells
               U == Put(T, at, cells)
               old == LastRows(ps, n)
               left == {k \in old : ps[k].at # at}
    <2>1. at \in Seq(K) /\ Len(at) = L /\ DOMAIN cells \subseteq Seq(K) \ {<<>>} /\ at # <<>>
      BY <1>2, EmptySeq DEF Patches
    <2>2. ASSUME NEW k \in old
          PROVE  /\ k \in DOMAIN ps /\ ps[k].on /\ ps[k].at \in Seq(K) /\ Len(ps[k].at) = L
                 /\ DOMAIN ps[k].cells \subseteq Seq(K) \ {<<>>} /\ ps[k].at # <<>>
      <3>1. k \in DOMAIN ps /\ ps[k].on
        BY DEF LastRows, Patches
      <3> QED
        BY <3>1, EmptySeq DEF Patches
    <2>3. LastRows(ps, n + 1) = left \cup {n + 1}
      BY <1>2, LastTakes
    <2>4. /\ DOMAIN U = {p \in DOMAIN T : at \notin Way(p)} \cup Way(at) \cup Under(ps[n + 1])
          /\ \A p \in Way(at) : U[p] = Branch
          /\ \A c \in DOMAIN cells : U[at \o c] = cells[c]
          /\ \A p \in DOMAIN T : at \notin Way(p) /\ p \notin Way(at) => U[p] = T[p]
      <3>1. IsPut(U, T, at, cells)
        BY <2>1, PutIs, Zenon
      <3> QED
        BY <3>1, Zenon DEF IsPut, Under, Kept
    <2>5. \A p \in DOMAIN tree : at \notin Way(p) /\ (p \in Way(at) => tree[p] = Branch)
      BY <1>2 DEF Clear
    (* The maps on the way to an older row.                                 *)
    <2>6. ASSUME NEW k \in old, NEW p \in Way(ps[k].at)
          PROVE  /\ at \in Way(p) => ps[k].at = at
                 /\ ps[k].at = at => p \in Way(at)
      <3>1. ASSUME at \in Way(p) PROVE ps[k].at = at
        <4>1. at \in Way(ps[k].at)
          BY <2>2, <3>1, WayOfWay
        <4> QED
          BY <2>1, <2>2, <4>1, Apart
      <3> QED
        BY <3>1
    (* Its cells.                                                           *)
    <2>7. ASSUME NEW k \in old, NEW c \in DOMAIN ps[k].cells
          PROVE  /\ at \in Way(ps[k].at \o c) <=> ps[k].at = at
                 /\ ps[k].at \o c \notin Way(at)
      <3>1. ASSUME at \in Way(ps[k].at \o c) PROVE ps[k].at = at
        BY <2>1, <2>2, <3>1, Apart
      <3>2. /\ ps[k].at \in Way(ps[k].at \o c) /\ Len(ps[k].at \o c) = L + Len(c)
            /\ Len(c) # 0 /\ Len(c) \in Nat /\ L \in Nat
        <4> DEFINE p == ps[k].at
        <4>1. p \in Seq(K) /\ p # <<>> /\ Len(p) = L /\ c \in Seq(K) /\ c # <<>>
          BY <2>2
        <4> HIDE DEF p
        <4>2. /\ p \in Way(p \o c) /\ Len(p \o c) = Len(p) + Len(c)
              /\ Len(p) \in Nat /\ Len(c) \in Nat /\ Len(c) # 0
          BY <4>1, BelowIs
        <4> QED
          BY <4>1, <4>2 DEF p
      <3>3. ASSUME ps[k].at \o c \in Way(at) PROVE FALSE
        <4>1. Len(ps[k].at \o c) \in 1..L
          BY <2>1, <3>3, WayIs
        <4> QED
          BY <3>2, <4>1
      <3> QED
        BY <3>1, <3>2, <3>3
    <2>8. DOMAIN T = DOMAIN tree \cup UNION {Way(ps[k].at) \cup Under(ps[k]) : k \in old}
      BY DEF Holds
    <2>9. DOMAIN U = DOMAIN tree
                       \cup UNION {Way(ps[k].at) \cup Under(ps[k]) : k \in left \cup {n + 1}}
      <3>1. ASSUME NEW p \in DOMAIN U
            PROVE  p \in DOMAIN tree
                          \cup UNION {Way(ps[k].at) \cup Under(ps[k]) : k \in left \cup {n + 1}}
        <4>1. CASE p \in DOMAIN tree
          BY <4>1
        <4>2. CASE p \in Way(at) \cup Under(ps[n + 1])
          BY <4>2
        <4>3. ASSUME NEW k \in old, p \in Way(ps[k].at), at \notin Way(p)
              PROVE  p \in Way(at) \/ k \in left
          BY <2>6, <4>3
        <4>4. ASSUME NEW k \in old, p \in Under(ps[k]), at \notin Way(p)
              PROVE  k \in left
          BY <2>7, <4>4 DEF Under, Below
        <4> QED
          BY <2>4, <2>8, <4>1, <4>2, <4>3, <4>4
      <3>2. ASSUME NEW p \in DOMAIN tree PROVE p \in DOMAIN U
        BY <2>4, <2>5, <2>8
      <3>3. ASSUME NEW k \in left, NEW p \in Way(ps[k].at) \cup Under(ps[k])
            PROVE  p \in DOMAIN U
        <4>1. at \notin Way(p)
          BY <2>6, <2>7 DEF Under, Below
        <4> QED
          BY <2>4, <2>8, <4>1
      <3>4. Way(at) \cup Under(ps[n + 1]) \subseteq DOMAIN U
        BY <2>4
      <3> QED
        BY <3>1, <3>2, <3>3, <3>4
    <2>10. ASSUME NEW p \in DOMAIN tree PROVE U[p] = tree[p]
      <3>1. T[p] = tree[p] /\ p \in DOMAIN T
        BY <2>8 DEF Holds
      <3> QED
        BY <2>4, <2>5, <3>1
    <2>11. ASSUME NEW k \in left, NEW p \in Way(ps[k].at) PROVE U[p] = Branch
      <3>1. T[p] = Branch /\ p \in DOMAIN T /\ at \notin Way(p)
        BY <2>6, <2>8 DEF Holds
      <3> QED
        BY <2>4, <3>1
    <2>12. ASSUME NEW k \in left, NEW c \in DOMAIN ps[k].cells
           PROVE  U[ps[k].at \o c] = ps[k].cells[c]
      <3>1. T[ps[k].at \o c] = ps[k].cells[c]
        BY DEF Holds
      <3>2. ps[k].at \o c \in DOMAIN T
        <4>1. ps[k].at \o c \in Under(ps[k]) /\ k \in old
          BY DEF Under, Below
        <4> QED
          BY <2>8, <4>1
      <3>3. at \notin Way(ps[k].at \o c) /\ ps[k].at \o c \notin Way(at)
        BY <2>7
      <3> QED
        BY <2>4, <3>1, <3>2, <3>3
    <2>13. Applied(T, ps[n + 1]) = U
      BY <1>2 DEF Applied
    <2> HIDE DEF U, left, old
    <2>14. Holds(U, tree, ps, n + 1)
      BY <2>3, <2>4, <2>9, <2>10, <2>11, <2>12 DEF Holds
    <2> QED
      BY <2>13, <2>14
  <1> QED
    BY <1>1, <1>2

(* The recursive function of Patched exists: it applies row after row.      *)
LEMMA PatchedIsRecursive ==
  ASSUME NEW tree, NEW ps, Len(ps) \in Nat
  PROVE  \E f : /\ f[0] = tree /\ Patched(tree, ps) = f[Len(ps)]
                /\ \A k \in 1..Len(ps) : f[k] = Applied(f[k - 1], ps[k])
  <1> DEFINE Body(f, n) == [k \in 0..n |->
                              IF k = 0 THEN tree
                              ELSE IF ~ps[k].on THEN f[k - 1]
                              ELSE Put(f[k - 1], ps[k].at, ps[k].cells)]
             S == {n \in Nat : \E f : f = Body(f, n)}
             after == CHOOSE f : f = Body(f, Len(ps))
  <1>1. ASSUME NEW n \in Nat, NEW f, f = Body(f, n)
        PROVE  f[0] = tree /\ \A k \in 1..n : f[k] = Applied(f[k - 1], ps[k])
    <2>1. \A k \in 0..n : f[k] = Body(f, n)[k]
      BY <1>1, Zenon
    <2>2. 0 \in 0..n /\ \A k \in 1..n : k \in 0..n /\ k # 0
      OBVIOUS
    <2> QED
      BY <2>1, <2>2 DEF Applied
  <1>2. 0 \in S
    <2>1. [k \in 0..0 |-> tree] = Body([k \in 0..0 |-> tree], 0)
      <3>1. \A k \in 0..0 : k = 0
        OBVIOUS
      <3> QED
        BY <3>1
    <2> QED
      BY <2>1
  <1>3. ASSUME NEW n \in Nat, n \in S PROVE n + 1 \in S
    <2>1. PICK f : f = Body(f, n)
      BY <1>3
    <2>2. \A k \in 0..n : f[k] = IF k = 0 THEN tree
                                 ELSE IF ~ps[k].on THEN f[k - 1]
                                 ELSE Put(f[k - 1], ps[k].at, ps[k].cells)
      BY <2>1, Zenon
    <2> DEFINE e(k, h) == IF k = 0 THEN tree
                          ELSE IF ~ps[k].on THEN h[k - 1]
                          ELSE Put(h[k - 1], ps[k].at, ps[k].cells)
               g == [k \in 0..(n + 1) |-> IF k = n + 1 THEN e(n + 1, f) ELSE f[k]]
    <2>3. \A k \in 0..n : k \in 0..(n + 1) /\ k # n + 1
      OBVIOUS
    <2>4. \A k \in 0..(n + 1) : k = n + 1 \/ k \in 0..n
      OBVIOUS
    <2>5. \A k \in 0..(n + 1) : k # 0 => k - 1 \in 0..n
      OBVIOUS
    <2>6. \A k \in 0..n : g[k] = f[k]
      <3> HIDE DEF e
      <3> QED
        BY <2>3
    <2>7. ASSUME NEW k \in 0..(n + 1) PROVE g[k] = e(k, g)
      <3>1. k # 0 => g[k - 1] = f[k - 1]
        BY <2>5, <2>6
      <3>2. e(k, g) = e(k, f)
        <4> HIDE DEF g
        <4> QED
          BY <3>1
      <3>3. CASE k = n + 1
        <4>1. g[k] = e(n + 1, f)
          <5> HIDE DEF e
          <5> QED
            BY <3>3
        <4> QED
          BY <3>2, <3>3, <4>1
      <3>4. CASE k \in 0..n
        <4>1. g[k] = e(k, f)
          BY <2>2, <2>6, <3>4
        <4> QED
          BY <3>2, <4>1
      <3> QED
        BY <2>4, <3>3, <3>4
    <2>8. g = [k \in 0..(n + 1) |-> g[k]]
      <3> HIDE DEF e
      <3> QED
        OBVIOUS
    <2>9. g = Body(g, n + 1)
      <3> HIDE DEF g
      <3> QED
        BY <2>7, <2>8, Zenon
    <2> HIDE DEF g
    <2> QED
      BY <2>9
  <1>4. Nat \subseteq S
    <2> HIDE DEF S
    <2> QED
      BY <1>2, <1>3, Induction
  <1>5. after = Body(after, Len(ps))
    <2>1. \E f : f = Body(f, Len(ps))
      BY <1>4
    <2> HIDE DEF Body
    <2> QED
      BY <2>1
  <1>6. Patched(tree, ps) = after[Len(ps)]
    BY Zenon DEF Patched
  <1> HIDE DEF after
  <1> QED
    BY <1>1, <1>5, <1>6

(* What the rows of a table make of a tree that is clear of them.           *)
LEMMA PatchedIs ==
  ASSUME NEW K, NEW L, NEW ps, Patches(ps, L, K), NEW tree, Clear(tree, ps, K)
  PROVE  Holds(Patched(tree, ps), tree, ps, Len(ps))
  <1>1. PICK f : /\ f[0] = tree /\ Patched(tree, ps) = f[Len(ps)]
                 /\ \A k \in 1..Len(ps) : f[k] = Applied(f[k - 1], ps[k])
    BY PatchedIsRecursive DEF Patches
  <1> DEFINE S == {n \in Nat : n <= Len(ps) => Holds(f[n], tree, ps, n)}
  <1>2. 0 \in S
    <2>1. LastRows(ps, 0) = {}
      BY DEF LastRows
    <2> QED
      BY <1>1, <2>1 DEF Holds
  <1>3. ASSUME NEW n \in Nat, n \in S PROVE n + 1 \in S
    <2> SUFFICES ASSUME n + 1 <= Len(ps) PROVE Holds(f[n + 1], tree, ps, n + 1)
      OBVIOUS
    <2>1. n <= Len(ps) /\ n + 1 \in 1..Len(ps) /\ n + 1 - 1 = n /\ n + 1 \in DOMAIN ps
      BY DEF Patches
    <2>2. Holds(f[n], tree, ps, n)
      BY <1>3, <2>1
    <2>3. f[n + 1] = Applied(f[n], ps[n + 1])
      BY <1>1, <2>1
    <2> QED
      BY <2>1, <2>2, <2>3, PatchStep
  <1>4. Nat \subseteq S
    <2> HIDE DEF S
    <2> QED
      BY <1>2, <1>3, Induction
  <1> QED
    BY <1>1, <1>4 DEF Patches

------------------------------------------------------------------------------
(* WHAT IS WRITTEN, AND TABLES THAT DO NOT DISTURB EACH OTHER               *)

(* What stands in a tree, and what the rows of a table write there.         *)
Lines(tree) == {<<p, tree[p]>> : p \in {q \in DOMAIN tree : tree[q] # Branch}}
Leaves(cells) == {c \in DOMAIN cells : cells[c] # Branch}
Writes(patch) == {<<patch.at \o c, patch.cells[c]>> : c \in Leaves(patch.cells)}
Written(ps) == UNION {Writes(ps[k]) : k \in LastRows(ps, Len(ps))}

(* The lines of a tree are its cells that are not maps.                     *)
LEMMA LinesOf ==
  ASSUME NEW tree, NEW x
  PROVE  x \in Lines(tree) <=> \E p \in DOMAIN tree : tree[p] # Branch /\ x = <<p, tree[p]>>
  BY DEF Lines

(* A table that is put in a clear tree adds the lines that it writes.       *)
LEMMA LinesHeld ==
  ASSUME NEW T, NEW tree, NEW ps, Holds(T, tree, ps, Len(ps))
  PROVE  Lines(T) = Lines(tree) \cup Written(ps)
  <1> DEFINE last == LastRows(ps, Len(ps))
  <1>1. DOMAIN T = DOMAIN tree \cup UNION {Way(ps[k].at) \cup Under(ps[k]) : k \in last}
    BY DEF Holds
  <1>2. \A p \in DOMAIN tree : T[p] = tree[p]
    BY DEF Holds
  <1>3. \A k \in last : \A p \in Way(ps[k].at) : T[p] = Branch
    BY DEF Holds
  <1>4. \A k \in last : \A c \in DOMAIN ps[k].cells : T[ps[k].at \o c] = ps[k].cells[c]
    BY DEF Holds
  <1>5. \A k : \A p : p \in Under(ps[k]) <=> \E c \in DOMAIN ps[k].cells : p = ps[k].at \o c
    BY DEF Under, Below
  <1> HIDE DEF last
  <1>6. ASSUME NEW x \in Lines(T) PROVE x \in Lines(tree) \cup Written(ps)
    <2>1. PICK p \in DOMAIN T : T[p] # Branch /\ x = <<p, T[p]>>
      BY LinesOf
    <2>2. CASE p \in DOMAIN tree
      BY <1>2, <2>1, <2>2, LinesOf
    <2>3. ASSUME NEW k \in last, p \in Under(ps[k]) PROVE x \in Written(ps)
      <3>1. PICK c \in DOMAIN ps[k].cells : p = ps[k].at \o c
        BY <1>5, <2>3
      <3>2. T[p] = ps[k].cells[c] /\ c \in Leaves(ps[k].cells)
        BY <1>4, <2>1, <3>1 DEF Leaves
      <3>3. x \in Writes(ps[k])
        BY <2>1, <3>1, <3>2 DEF Writes
      <3> QED
        BY <3>3 DEF Written, last
    <2> QED
      BY <1>1, <1>3, <2>1, <2>2, <2>3
  <1>7. ASSUME NEW x \in Lines(tree) PROVE x \in Lines(T)
    BY <1>1, <1>2, LinesOf
  <1>8. ASSUME NEW x \in Written(ps) PROVE x \in Lines(T)
    <2>1. PICK k \in last : x \in Writes(ps[k])
      BY DEF Written, last
    <2>2. PICK c \in DOMAIN ps[k].cells :
             ps[k].cells[c] # Branch /\ x = <<ps[k].at \o c, ps[k].cells[c]>>
      BY <2>1 DEF Writes, Leaves
    <2>3. ps[k].at \o c \in Under(ps[k])
      BY <1>5
    <2>4. ps[k].at \o c \in DOMAIN T
      BY <1>1, <2>3
    <2> QED
      BY <1>4, <2>2, <2>4, LinesOf
  <1> QED
    BY <1>6, <1>7, <1>8

(* The rows of one table neither write where those of a later one do, nor   *)
(* anything but maps on the way to there.                                   *)
Separate(ps, qs) ==
  \A k \in DOMAIN ps, l \in DOMAIN qs : ps[k].on /\ qs[l].on =>
      /\ qs[l].at \notin Way(ps[k].at)
      /\ \A c \in DOMAIN ps[k].cells :
            /\ qs[l].at \notin Way(ps[k].at \o c)
            /\ ps[k].at \o c \in Way(qs[l].at) => ps[k].cells[c] = Branch

(* A row that none replaces is not skipped, and is put as its table has it. *)
LEMMA LastIsOn ==
  ASSUME NEW K, NEW L, NEW ps, Patches(ps, L, K), NEW k \in LastRows(ps, Len(ps))
  PROVE  /\ k \in DOMAIN ps /\ ps[k].on /\ ps[k].at \in Seq(K) /\ Len(ps[k].at) = L
         /\ DOMAIN ps[k].cells \subseteq Seq(K) \ {<<>>} /\ ps[k].at # <<>>
  <1>1. k \in DOMAIN ps /\ ps[k].on
    BY DEF LastRows, Patches
  <1> QED
    BY <1>1, EmptySeq DEF Patches

(* A tree that is clear of a table stays so after one separate from it.     *)
LEMMA StaysClear ==
  ASSUME NEW K, NEW L, NEW ps, Patches(ps, L, K), NEW M, NEW qs, Patches(qs, M, K),
         NEW tree, Clear(tree, qs, K), NEW T, Holds(T, tree, ps, Len(ps)),
         Separate(ps, qs)
  PROVE  Clear(T, qs, K)
  <1> DEFINE last == LastRows(ps, Len(ps))
  <1>1. DOMAIN T = DOMAIN tree \cup UNION {Way(ps[k].at) \cup Under(ps[k]) : k \in last}
    BY DEF Holds
  <1>2. \A k : \A p : p \in Under(ps[k]) <=> \E c \in DOMAIN ps[k].cells : p = ps[k].at \o c
    BY DEF Under, Below
  <1>3. ASSUME NEW k \in last
        PROVE  /\ k \in DOMAIN ps /\ ps[k].on /\ ps[k].at \in Seq(K)
               /\ DOMAIN ps[k].cells \subseteq Seq(K) \ {<<>>} /\ ps[k].at # <<>>
    BY LastIsOn
  <1>4. ASSUME NEW k \in last, NEW p \in Way(ps[k].at)
        PROVE  /\ p \in Seq(K) /\ T[p] = Branch
               /\ \A l \in DOMAIN qs : qs[l].on => qs[l].at \notin Way(p)
    <2>1. p \in Seq(K)
      BY <1>3, WayIs
    <2>2. T[p] = Branch
      BY DEF Holds
    <2>3. ASSUME NEW l \in DOMAIN qs, qs[l].on, qs[l].at \in Way(p) PROVE FALSE
      <3>1. qs[l].at \in Way(ps[k].at)
        BY <1>3, <2>3, WayOfWay
      <3> QED
        BY <1>3, <2>3, <3>1 DEF Separate
    <2> QED
      BY <2>1, <2>2, <2>3
  <1>5. ASSUME NEW k \in last, NEW p \in Under(ps[k])
        PROVE  /\ p \in Seq(K)
               /\ \A l \in DOMAIN qs : qs[l].on =>
                     qs[l].at \notin Way(p) /\ (p \in Way(qs[l].at) => T[p] = Branch)
    <2>1. PICK c \in DOMAIN ps[k].cells : p = ps[k].at \o c
      BY <1>2
    <2>2. p \in Seq(K)
      BY <1>3, <2>1, BelowIs
    <2>3. T[p] = ps[k].cells[c]
      BY <2>1 DEF Holds
    <2> QED
      BY <1>3, <2>1, <2>2, <2>3 DEF Separate
  <1>6. ASSUME NEW p \in DOMAIN tree
        PROVE  /\ p \in Seq(K) /\ T[p] = tree[p]
               /\ \A l \in DOMAIN qs : qs[l].on =>
                     qs[l].at \notin Way(p) /\ (p \in Way(qs[l].at) => tree[p] = Branch)
    BY DEF Clear, Holds
  <1> HIDE DEF last
  <1>7. ASSUME NEW p \in DOMAIN T
        PROVE  /\ p \in Seq(K)
               /\ \A l \in DOMAIN qs : qs[l].on =>
                     qs[l].at \notin Way(p) /\ (p \in Way(qs[l].at) => T[p] = Branch)
    BY <1>1, <1>4, <1>5, <1>6
  <1> QED
    BY <1>7 DEF Clear

(* The empty tree is clear of every table.                                  *)
LEMMA ClearAtFirst ==
  ASSUME NEW K, NEW ps
  PROVE  Clear(EmptyMap, ps, K)
  BY DEF Clear, EmptyMap

(* Two paths that differ in a common step are not on the way to each other. *)
LEMMA OtherName ==
  ASSUME NEW K, NEW q \in Seq(K), NEW r \in Seq(K), NEW m \in 1..Len(q), m \in 1..Len(r),
         r[m] # q[m]
  PROVE  q \notin Way(r) /\ r \notin Way(q)
  <1>1. q \notin Way(r)
    BY WayIs
  <1>2. r \notin Way(q)
    BY WayIs
  <1> QED
    BY <1>1, <1>2

(* Tables that write at different depths, or in different maps of a node.   *)
LEMMA SeparateByName ==
  ASSUME NEW K, NEW L, NEW ps, Patches(ps, L, K), NEW M, NEW qs, Patches(qs, M, K),
         NEW m \in Nat, L < m, m <= M,
         \A k \in DOMAIN ps : ps[k].on =>
            \A c \in DOMAIN ps[k].cells, l \in DOMAIN qs : qs[l].on =>
               \/ /\ m - L <= Len(c) /\ c[m - L] # qs[l].at[m]
               \/ /\ Len(c) < M - L /\ ps[k].cells[c] = Branch
  PROVE  Separate(ps, qs)
  <1> SUFFICES ASSUME NEW k \in DOMAIN ps, NEW l \in DOMAIN qs, ps[k].on, qs[l].on
               PROVE  /\ qs[l].at \notin Way(ps[k].at)
                      /\ \A c \in DOMAIN ps[k].cells :
                            /\ qs[l].at \notin Way(ps[k].at \o c)
                            /\ ps[k].at \o c \in Way(qs[l].at) => ps[k].cells[c] = Branch
    BY DEF Separate
  <1> DEFINE p == ps[k].at
             q == qs[l].at
             cells == ps[k].cells
  <1>1. /\ p \in Seq(K) /\ Len(p) = L /\ L \in Nat \ {0}
        /\ q \in Seq(K) /\ Len(q) = M /\ M \in Nat \ {0}
        /\ DOMAIN cells \subseteq Seq(K) \ {<<>>}
    BY DEF Patches
  <1>2. p # <<>>
    BY <1>1, EmptySeq
  <1>3. \A c \in DOMAIN cells : \/ m - L <= Len(c) /\ c[m - L] # q[m]
                                \/ Len(c) < M - L /\ cells[c] = Branch
    OBVIOUS
  <1> HIDE DEF p, q, cells
  <1>4. q \notin Way(p)
    BY <1>1, WayIs
  <1>5. ASSUME NEW c \in DOMAIN cells
        PROVE  q \notin Way(p \o c) /\ (p \o c \in Way(q) => cells[c] = Branch)
    <2> DEFINE r == p \o c
    <2>1. /\ r \in Seq(K) /\ Len(r) = L + Len(c) /\ Len(c) \in Nat
          /\ \A i \in 1..Len(c) : r[L + i] = c[i]
      <3>1. c \in Seq(K) /\ c # <<>>
        BY <1>1
      <3>2. /\ r \in Seq(K) /\ Len(r) = Len(p) + Len(c) /\ Len(c) \in Nat
            /\ \A i \in 1..Len(c) : r[Len(p) + i] = c[i]
        <4>1. p \in Seq(K)
          BY <1>1
        <4>2. r \in Seq(K) /\ Len(r) = Len(p) + Len(c) /\ Len(c) \in Nat
          BY <1>2, <3>1, <4>1, BelowIs
        <4>3. \A i \in 1..Len(c) : r[Len(p) + i] = c[i]
          BY <1>2, <3>1, <4>1, BelowIs
        <4> QED
          BY <4>2, <4>3
      <3> QED
        BY <1>1, <3>2
    <2> HIDE DEF r
    <2>2. CASE m - L <= Len(c) /\ c[m - L] # q[m]
      <3>1. m - L \in 1..Len(c) /\ L + (m - L) = m /\ m \in 1..Len(r) /\ m \in 1..Len(q)
        BY <1>1, <2>1, <2>2
      <3>2. r[m] # q[m]
        BY <2>1, <2>2, <3>1
      <3>3. r \in Seq(K) /\ q \in Seq(K)
        BY <1>1, <2>1
      <3>4. q \notin Way(r) /\ r \notin Way(q)
        BY <3>1, <3>2, <3>3, OtherName
      <3> QED
        BY <3>4 DEF r
    <2>3. CASE Len(c) < M - L /\ cells[c] = Branch
      <3>1. Len(q) \notin 1..Len(r)
        BY <1>1, <2>1, <2>3
      <3>2. q \notin Way(r)
        BY <2>1, <3>1, WayIs
      <3> QED
        BY <2>3, <3>2 DEF r
    <2> QED
      BY <1>3, <2>2, <2>3
  <1> QED
    BY <1>4, <1>5 DEF p, q, cells

(* Tables that write in different maps of a node are separate.              *)
LEMMA SeparateMaps ==
  ASSUME NEW K, NEW L, NEW ps, Patches(ps, L, K), NEW M, NEW qs, Patches(qs, M, K),
         2 <= L, 2 <= M,
         \A k \in DOMAIN ps, l \in DOMAIN qs :
            ps[k].on /\ qs[l].on => ps[k].at[2] # qs[l].at[2]
  PROVE  Separate(ps, qs)
  <1> SUFFICES ASSUME NEW k \in DOMAIN ps, NEW l \in DOMAIN qs, ps[k].on, qs[l].on
               PROVE  /\ qs[l].at \notin Way(ps[k].at)
                      /\ \A c \in DOMAIN ps[k].cells :
                            /\ qs[l].at \notin Way(ps[k].at \o c)
                            /\ ps[k].at \o c \in Way(qs[l].at) => ps[k].cells[c] = Branch
    BY DEF Separate
  <1> DEFINE p == ps[k].at
             q == qs[l].at
             cells == ps[k].cells
  <1>1. /\ p \in Seq(K) /\ Len(p) = L /\ L \in Nat \ {0}
        /\ q \in Seq(K) /\ Len(q) = M /\ M \in Nat \ {0}
        /\ DOMAIN cells \subseteq Seq(K) \ {<<>>} /\ p[2] # q[2]
    BY DEF Patches
  <1>2. p # <<>>
    BY <1>1, EmptySeq
  <1> HIDE DEF p, q, cells
  <1>3. 2 \in 1..L /\ 2 \in 1..M
    BY <1>1
  <1>4. q \notin Way(p)
    BY <1>1, <1>3, WayIs
  <1>5. ASSUME NEW c \in DOMAIN cells
        PROVE  q \notin Way(p \o c) /\ p \o c \notin Way(q)
    <2> DEFINE r == p \o c
    <2>1. /\ r \in Seq(K) /\ Len(r) = L + Len(c) /\ Len(c) \in Nat
          /\ \A i \in 1..L : r[i] = p[i]
      BY <1>1, <1>2, BelowIs
    <2> HIDE DEF r
    <2>2. r[2] # q[2] /\ 2 \in 1..Len(r)
      BY <1>1, <1>3, <2>1
    <2>3. q \notin Way(r) /\ r \notin Way(q)
      BY <1>1, <1>3, <2>1, <2>2, OtherName
    <2> QED
      BY <2>3 DEF r
  <1> QED
    BY <1>4, <1>5 DEF p, q, cells

------------------------------------------------------------------------------
(* THE ROWS OF EACH TABLE                                                   *)

(* Maps in which every path has the maps on the way to it.                  *)
Whole(cells) ==
  \A d \in DOMAIN cells : \A c \in Way(d) :
     c \in DOMAIN cells /\ (c # d => cells[c] = Branch)

Conv(v) == IF v.kind = "wrapper" THEN List(v.items) ELSE v

(* The cells of a row, as its table tells them.                             *)
Told(cells) == {<<c, Conv(cells[c])>> : c \in Leaves(cells)}
ToldBy(i, row) == {<<place[2], Shown(i, Lookup(row, place[1]))>> : place \in Places(i, row)}

Depth(i) == CASE i = 1 -> 1 [] i = 2 -> 3 [] i = 3 -> 2 [] i = 4 -> 4 [] i = 5 -> 4
              [] i = 6 -> 6 [] i = 7 -> 8

(* The patch of a row is what the contract makes of the row.                *)
Faithful(patch, t, i, row, K) ==
  /\ patch.on <=> Counts(t, i, row)
  /\ patch.on => /\ patch.at = Key(i, row) /\ patch.at \in Seq(K) /\ Len(patch.at) = Depth(i)
                 /\ DOMAIN patch.cells \subseteq Seq(K) \ {<<>>} /\ Whole(patch.cells)
                 /\ Told(patch.cells) = ToldBy(i, row)

Names == {"Interfaces", "BGP", "Neighbors", "OSPF", "Processes", "Areas", "VRF",
          "Reference_Bandwidth", "Router_ID", "Area_Type"}
            \cup DOMAIN OSPFColumns \cup Headings
KeysOf(row) ==
  DOMAIN row \cup {NodeOf(row), HostOf(row), PortOf(row), Column(row, "Remote_IP"),
                   Column(row, "Process_ID"), Column(row, "Area"),
                   Column(row, "OSPF_Area_Name")}

(* The cells of a row, one for each column.                                 *)
LEMMA CellsAre ==
  ASSUME NEW row, NEW columns
  PROVE  /\ DOMAIN Cells(row, columns) = {<<c>> : c \in columns}
         /\ \A c \in columns : Cells(row, columns)[<<c>>] = Lookup(row, c)
  BY DEF Cells

(* Paths of one step.                                                       *)
LEMMA OneStep ==
  ASSUME NEW K, NEW c \in K
  PROVE  <<c>> \in Seq(K) \ {<<>>} /\ Len(<<c>>) = 1 /\ Way(<<c>>) = {<<c>>}
  <1>1. <<c>> \in Seq(K) /\ <<c>> # <<>> /\ Len(<<c>>) = 1
    OBVIOUS
  <1> DEFINE q == <<c>>
  <1>2. q \in Seq(K) /\ Len(q) = 1
    BY <1>1
  <1> HIDE DEF q
  <1>3. ASSUME NEW p \in Way(q) PROVE p = q
    <2>1. p \in Seq(K) /\ Len(p) \in 1..Len(q) /\ \A i \in 1..Len(p) : p[i] = q[i]
      BY <1>2, WayIs
    <2>2. Len(p) = 1
      BY <1>2, <2>1
    <2> QED
      BY <1>2, <2>1, <2>2, SeqEqual
  <1>4. q \in Way(q)
    BY <1>2, WayIs, SMTT(20)
  <1>5. Way(q) = {q}
    BY <1>3, <1>4
  <1> QED
    BY <1>1, <1>5 DEF q

(* Cells of one level.                                                      *)
LEMMA FlatCells ==
  ASSUME NEW K, NEW columns, columns \subseteq K, NEW cells,
         DOMAIN cells = {<<c>> : c \in columns}
  PROVE  DOMAIN cells \subseteq Seq(K) \ {<<>>} /\ Whole(cells)
  <1>1. \A c \in columns : <<c>> \in Seq(K) \ {<<>>} /\ Way(<<c>>) = {<<c>>}
    BY OneStep
  <1> QED
    BY <1>1 DEF Whole

(* A row with cells of one level tells them as the contract says.           *)
LEMMA FlatTold ==
  ASSUME NEW i, NEW row, NEW columns, NEW cells, DOMAIN cells = {<<c>> : c \in columns},
         \A c \in columns : cells[<<c>>] = Lookup(row, c) /\ Lookup(row, c) # Branch,
         Places(i, row) = {<<c, <<c>>>> : c \in columns}, i # 1
  PROVE  Told(cells) = ToldBy(i, row)
  <1>1. \A v : Shown(i, v) = Conv(v)
    BY DEF Shown, Conv
  <1>2. Leaves(cells) = DOMAIN cells
    BY DEF Leaves
  <1>3. Told(cells) = {<<<<c>>, Conv(Lookup(row, c))>> : c \in columns}
    BY <1>2 DEF Told
  <1>4. ToldBy(i, row) = {<<<<c>>, Conv(Lookup(row, c))>> : c \in columns}
    <2> DEFINE f(place) == <<place[2], Shown(i, Lookup(row, place[1]))>>
    <2>1. \A c \in columns : f(<<c, <<c>>>>) = <<<<c>>, Conv(Lookup(row, c))>>
      BY <1>1
    <2>2. ToldBy(i, row) = {f(place) : place \in Places(i, row)}
      BY DEF ToldBy
    <2> HIDE DEF f
    <2>3. ToldBy(i, row) = {f(<<c, <<c>>>>) : c \in columns}
      BY <2>2
    <2> QED
      BY <2>1, <2>3
  <1> QED
    BY <1>3, <1>4

(* No cell of a consistent table is a map.                                  *)
LEMMA NoCellIsMap ==
  ASSUME NEW i, NEW rows, WellFormed(i, rows), NEW k \in DOMAIN rows, NEW c
  PROVE  Lookup(rows[k], c) # Branch
  BY DEF WellFormed, Lookup, Nil, Branch

(* Interfaces.                                                              *)
LEMMA InterfaceIs ==
  ASSUME NEW t, WellFormed(2, t[2]), NEW k \in DOMAIN t[2], NEW nodes,
         <<HostOf(t[2][k])>> \in DOMAIN nodes <=> Listed(t, HostOf(t[2][k])),
         NEW K, Names \subseteq K, KeysOf(t[2][k]) \subseteq K
  PROVE  Faithful(InterfacePatch(nodes, t[2][k]), t, 2, t[2][k], K)
  <1> DEFINE row == t[2][k]
             patch == InterfacePatch(nodes, row)
             columns == DOMAIN row \ {"Interface"}
  <1>1. patch.on <=> Counts(t, 2, row)
    BY DEF InterfacePatch, Patch, Skipped, Counts
  <1>2. ASSUME patch.on
        PROVE  patch.at = <<HostOf(row), "Interfaces", PortOf(row)>>
               /\ patch.cells = Cells(row, columns)
    BY <1>2 DEF InterfacePatch, Patch, Skipped, Record
  <1>3. Key(2, row) = <<HostOf(row), "Interfaces", PortOf(row)>>
    BY DEF Key
  <1>4. HostOf(row) \in K /\ "Interfaces" \in K /\ PortOf(row) \in K /\ columns \subseteq K
    BY DEF Names, KeysOf
  <1>5. Places(2, row) = {<<c, <<c>>>> : c \in columns}
    BY DEF Places
  <1>6. \A c : Lookup(row, c) # Branch
    BY NoCellIsMap
  <1> HIDE DEF row, patch, columns
  <1>7. Key(2, row) \in Seq(K) /\ Len(Key(2, row)) = Depth(2)
    <2>1. Depth(2) = 3
      BY DEF Depth
    <2>2. <<HostOf(row), "Interfaces", PortOf(row)>> \in Seq(K)
      BY <1>4
    <2>3. Len(<<HostOf(row), "Interfaces", PortOf(row)>>) = 3
      OBVIOUS
    <2> QED
      BY <1>3, <2>1, <2>2, <2>3
  <1>8. ASSUME NEW cells, cells = Cells(row, columns)
        PROVE  /\ DOMAIN cells \subseteq Seq(K) \ {<<>>} /\ Whole(cells)
               /\ Told(cells) = ToldBy(2, row)
    <2>1. DOMAIN cells = {<<c>> : c \in columns} /\ \A c \in columns : cells[<<c>>] = Lookup(row, c)
      BY <1>8, CellsAre
    <2>2. DOMAIN cells \subseteq Seq(K) \ {<<>>} /\ Whole(cells)
      BY <1>4, <2>1, FlatCells
    <2>3. Told(cells) = ToldBy(2, row)
      BY <1>5, <1>6, <2>1, FlatTold
    <2> QED
      BY <2>2, <2>3
  <1> QED
    BY <1>1, <1>2, <1>3, <1>7, <1>8 DEF Faithful, row, patch

(* A path of six steps.                                                     *)
LEMMA FourAndTwo ==
  ASSUME NEW a, NEW b, NEW c, NEW d, NEW e, NEW f
  PROVE  <<a, b, c, d>> \o <<e, f>> = <<a, b, c, d, e, f>>
  <1> DEFINE K == {a, b, c, d, e, f}
             s == <<a, b, c, d>> \o <<e, f>>
             t == <<a, b, c, d, e, f>>
  <1>1. <<a, b, c, d>> \in Seq(K) /\ <<e, f>> \in Seq(K) /\ t \in Seq(K)
    OBVIOUS
  <1>2. s \in Seq(K) /\ Len(s) = 6
    BY <1>1, ConcatProperties
  <1>3. \A i \in 1..6 : s[i] = t[i]
    BY <1>1, ConcatProperties
  <1>4. Len(t) = 6
    OBVIOUS
  <1> HIDE DEF s, t, K
  <1>5. s = t
    BY <1>1, <1>2, <1>3, <1>4, SeqEqual
  <1> QED
    BY <1>5 DEF s, t

(* A path of eight steps.                                                   *)
LEMMA FourAndFour ==
  ASSUME NEW a, NEW b, NEW c, NEW d, NEW e, NEW f, NEW g, NEW h
  PROVE  <<a, b, c, d>> \o <<e, f, g, h>> = <<a, b, c, d, e, f, g, h>>
  <1> DEFINE K == {a, b, c, d, e, f, g, h}
             s == <<a, b, c, d>> \o <<e, f, g, h>>
             t == <<a, b, c, d, e, f, g, h>>
  <1>1. <<a, b, c, d>> \in Seq(K) /\ <<e, f, g, h>> \in Seq(K) /\ t \in Seq(K)
    OBVIOUS
  <1>2. s \in Seq(K) /\ Len(s) = 8
    BY <1>1, ConcatProperties
  <1>3. \A i \in 1..8 : s[i] = t[i]
    BY <1>1, ConcatProperties
  <1>4. Len(t) = 8
    OBVIOUS
  <1> HIDE DEF s, t, K
  <1>5. s = t
    BY <1>1, <1>2, <1>3, <1>4, SeqEqual
  <1> QED
    BY <1>5 DEF s, t

(* BGP peers, each under its remote address.                                *)
LEMMA PeerIs ==
  ASSUME NEW t, WellFormed(4, t[4]), NEW k \in DOMAIN t[4],
         NEW K, Names \subseteq K, KeysOf(t[4][k]) \subseteq K
  PROVE  Faithful(BGPPeerPatch(t[4][k]), t, 4, t[4][k], K)
  <1> DEFINE row == t[4][k]
             patch == BGPPeerPatch(row)
             columns == DOMAIN row \ {"Node"}
             key == <<NodeOf(row), "BGP", "Neighbors", Column(row, "Remote_IP")>>
  <1>1. patch.on /\ patch.at = key /\ patch.cells = Cells(row, columns)
    BY DEF BGPPeerPatch, Patch, Record, Column
  <1>2. Key(4, row) = key /\ Counts(t, 4, row)
    BY DEF Key, Column, NodeOf, Counts
  <1>3. NodeOf(row) \in K /\ "BGP" \in K /\ "Neighbors" \in K /\ Column(row, "Remote_IP") \in K
        /\ columns \subseteq K
    BY DEF Names, KeysOf
  <1>4. Places(4, row) = {<<c, <<c>>>> : c \in columns}
    BY DEF Places
  <1>5. \A c : Lookup(row, c) # Branch
    BY NoCellIsMap
  <1>6. key \in Seq(K) /\ Len(key) = Depth(4)
    <2>1. Depth(4) = 4
      BY DEF Depth
    <2>2. key \in Seq(K)
      BY <1>3
    <2>3. Len(key) = 4
      OBVIOUS
    <2> QED
      BY <2>1, <2>2, <2>3
  <1> HIDE DEF row, patch, columns, key
  <1>7. ASSUME NEW cells, cells = Cells(row, columns)
        PROVE  /\ DOMAIN cells \subseteq Seq(K) \ {<<>>} /\ Whole(cells)
               /\ Told(cells) = ToldBy(4, row)
    <2>1. DOMAIN cells = {<<c>> : c \in columns} /\ \A c \in columns : cells[<<c>>] = Lookup(row, c)
      BY <1>7, CellsAre
    <2>2. DOMAIN cells \subseteq Seq(K) \ {<<>>} /\ Whole(cells)
      BY <1>3, <2>1, FlatCells
    <2>3. Told(cells) = ToldBy(4, row)
      <3>1. \A c \in columns : cells[<<c>>] = Lookup(row, c) /\ Lookup(row, c) # Branch
        BY <1>5, <2>1
      <3>2. 4 # 1
        OBVIOUS
      <3> QED
        BY <1>4, <2>1, <3>1, <3>2, FlatTold
    <2> QED
      BY <2>2, <2>3
  <1> QED
    BY <1>1, <1>2, <1>6, <1>7 DEF Faithful, row, patch

(* OSPF processes.                                                          *)
LEMMA OSPFProcessIs ==
  ASSUME NEW t, WellFormed(5, t[5]), NEW k \in DOMAIN t[5],
         NEW K, Names \subseteq K, KeysOf(t[5][k]) \subseteq K
  PROVE  Faithful(OSPFProcessPatch(t[5][k]), t, 5, t[5][k], K)
  <1> DEFINE row == t[5][k]
             patch == OSPFProcessPatch(row)
             columns == {"VRF", "Reference_Bandwidth", "Router_ID"}
             key == <<NodeOf(row), "OSPF", "Processes", Column(row, "Process_ID")>>
  <1>1. patch.on /\ patch.at = key /\ patch.cells = Cells(row, columns)
    BY DEF OSPFProcessPatch, Process, Patch, Column
  <1>2. Key(5, row) = key /\ Counts(t, 5, row)
    BY DEF Key, Column, NodeOf, Counts
  <1>3. NodeOf(row) \in K /\ "OSPF" \in K /\ "Processes" \in K /\ Column(row, "Process_ID") \in K
        /\ columns \subseteq K
    BY DEF Names, KeysOf
  <1>4. Places(5, row) = {<<c, <<c>>>> : c \in columns}
    BY DEF Places
  <1>5. \A c : Lookup(row, c) # Branch
    BY NoCellIsMap
  <1>6. key \in Seq(K) /\ Len(key) = Depth(5)
    <2>1. Depth(5) = 4
      BY DEF Depth
    <2>2. key \in Seq(K)
      BY <1>3
    <2>3. Len(key) = 4
      OBVIOUS
    <2> QED
      BY <2>1, <2>2, <2>3
  <1> HIDE DEF row, patch, columns, key
  <1>7. ASSUME NEW cells, cells = Cells(row, columns)
        PROVE  /\ DOMAIN cells \subseteq Seq(K) \ {<<>>} /\ Whole(cells)
               /\ Told(cells) = ToldBy(5, row)
    <2>1. DOMAIN cells = {<<c>> : c \in columns} /\ \A c \in columns : cells[<<c>>] = Lookup(row, c)
      BY <1>7, CellsAre
    <2>2. DOMAIN cells \subseteq Seq(K) \ {<<>>} /\ Whole(cells)
      BY <1>3, <2>1, FlatCells
    <2>3. Told(cells) = ToldBy(5, row)
      <3>1. \A c \in columns : cells[<<c>>] = Lookup(row, c) /\ Lookup(row, c) # Branch
        BY <1>5, <2>1
      <3>2. 5 # 1
        OBVIOUS
      <3> QED
        BY <1>4, <2>1, <3>1, <3>2, FlatTold
    <2> QED
      BY <2>2, <2>3
  <1> QED
    BY <1>1, <1>2, <1>6, <1>7 DEF Faithful, row, patch

(* OSPF areas.                                                              *)
LEMMA AreaIs ==
  ASSUME NEW t, WellFormed(6, t[6]), NEW k \in DOMAIN t[6],
         NEW K, Names \subseteq K, KeysOf(t[6][k]) \subseteq K
  PROVE  Faithful(OSPFAreaPatch(t[6][k]), t, 6, t[6][k], K)
  <1> DEFINE row == t[6][k]
             patch == OSPFAreaPatch(row)
             columns == {"Area_Type"}
             key == <<NodeOf(row), "OSPF", "Processes", Column(row, "Process_ID"),
                      "Areas", Column(row, "Area")>>
  <1>1. patch.on /\ patch.at = key /\ patch.cells = Cells(row, columns)
    <2>1. Process(NodeOf(row), row) \o <<"Areas", Column(row, "Area")>> = key
      BY FourAndTwo DEF Process, Column
    <2> QED
      BY <2>1 DEF OSPFAreaPatch, Patch, Column
  <1>2. Key(6, row) = key /\ Counts(t, 6, row)
    BY DEF Key, Column, NodeOf, Counts
  <1>3. NodeOf(row) \in K /\ "OSPF" \in K /\ "Processes" \in K /\ Column(row, "Process_ID") \in K
        /\ "Areas" \in K /\ Column(row, "Area") \in K /\ columns \subseteq K
    BY DEF Names, KeysOf
  <1>4. Places(6, row) = {<<c, <<c>>>> : c \in columns}
    BY DEF Places
  <1>5. \A c : Lookup(row, c) # Branch
    BY NoCellIsMap
  <1>6. key \in Seq(K) /\ Len(key) = Depth(6)
    <2>1. Depth(6) = 6
      BY DEF Depth
    <2>2. key \in Seq(K)
      BY <1>3
    <2>3. Len(key) = 6
      OBVIOUS
    <2> QED
      BY <2>1, <2>2, <2>3
  <1> HIDE DEF row, patch, columns, key
  <1>7. ASSUME NEW cells, cells = Cells(row, columns)
        PROVE  /\ DOMAIN cells \subseteq Seq(K) \ {<<>>} /\ Whole(cells)
               /\ Told(cells) = ToldBy(6, row)
    <2>1. DOMAIN cells = {<<c>> : c \in columns} /\ \A c \in columns : cells[<<c>>] = Lookup(row, c)
      BY <1>7, CellsAre
    <2>2. DOMAIN cells \subseteq Seq(K) \ {<<>>} /\ Whole(cells)
      BY <1>3, <2>1, FlatCells
    <2>3. Told(cells) = ToldBy(6, row)
      <3>1. \A c \in columns : cells[<<c>>] = Lookup(row, c) /\ Lookup(row, c) # Branch
        BY <1>5, <2>1
      <3>2. 6 # 1
        OBVIOUS
      <3> QED
        BY <1>4, <2>1, <3>1, <3>2, FlatTold
    <2> QED
      BY <2>2, <2>3
  <1> QED
    BY <1>1, <1>2, <1>6, <1>7 DEF Faithful, row, patch

(* OSPF interfaces, at a path of eight steps.                               *)
LEMMA OSPFInterfaceIs ==
  ASSUME NEW t, WellFormed(7, t[7]), NEW k \in DOMAIN t[7],
         NEW K, Names \subseteq K, KeysOf(t[7][k]) \subseteq K
  PROVE  Faithful(OSPFInterfacePatch(t[7][k]), t, 7, t[7][k], K)
  <1> DEFINE row == t[7][k]
             patch == OSPFInterfacePatch(row)
             columns == DOMAIN OSPFColumns
             key == <<HostOf(row), "OSPF", "Processes", Column(row, "Process_ID"),
                      "Areas", Column(row, "OSPF_Area_Name"), "Interfaces", PortOf(row)>>
             cells == [p \in {<<c>> : c \in columns} |-> Lookup(row, OSPFColumns[p[1]])]
  <1>1. patch.on <=> Counts(t, 7, row)
    BY DEF OSPFInterfacePatch, Patch, Skipped, Counts
  <1>2. ASSUME patch.on PROVE patch.at = key /\ patch.cells = cells
    <2>1. Process(HostOf(row), row)
             \o <<"Areas", Column(row, "OSPF_Area_Name"), "Interfaces", PortOf(row)>> = key
      BY FourAndFour DEF Process, Column
    <2>2. HasInterface(row)
      BY <1>2 DEF OSPFInterfacePatch, Skipped
    <2>3. patch = Patch(key, cells)
      BY <2>1, <2>2 DEF OSPFInterfacePatch, Column
    <2> QED
      BY <2>3 DEF Patch
  <1>3. Key(7, row) = key
    BY DEF Key
  <1>4. HostOf(row) \in K /\ "OSPF" \in K /\ "Processes" \in K /\ Column(row, "Process_ID") \in K
        /\ "Areas" \in K /\ Column(row, "OSPF_Area_Name") \in K
        /\ "Interfaces" \in K /\ PortOf(row) \in K /\ columns \subseteq K
    BY DEF Names, KeysOf
  <1>5. \A c : Lookup(row, c) # Branch
    BY NoCellIsMap
  <1>6. key \in Seq(K) /\ Len(key) = Depth(7)
    <2>1. Depth(7) = 8
      BY DEF Depth
    <2>2. key \in Seq(K)
      BY <1>4
    <2>3. Len(key) = 8
      OBVIOUS
    <2> QED
      BY <2>1, <2>2, <2>3
  <1>7. DOMAIN cells = {<<c>> : c \in columns}
        /\ \A c \in columns : cells[<<c>>] = Lookup(row, OSPFColumns[c])
    BY Zenon
  <1>8. Places(7, row) = {<<OSPFColumns[c], <<c>>>> : c \in columns}
    <2>1. Places(7, row) = {<<d, <<OSPFNames[d]>>>> : d \in DOMAIN OSPFNames}
      BY DEF Places
    <2>2. \A d \in DOMAIN OSPFNames :
             OSPFNames[d] \in columns /\ OSPFColumns[OSPFNames[d]] = d
      BY DEF OSPFNames, OSPFColumns
    <2>3. \A c \in columns : OSPFColumns[c] \in DOMAIN OSPFNames /\ OSPFNames[OSPFColumns[c]] = c
      BY DEF OSPFNames, OSPFColumns
    <2> HIDE DEF columns
    <2>4. ASSUME NEW x
          PROVE  x \in {<<d, <<OSPFNames[d]>>>> : d \in DOMAIN OSPFNames}
                    <=> x \in {<<OSPFColumns[c], <<c>>>> : c \in columns}
      BY <2>2, <2>3
    <2> QED
      BY <2>1, <2>4
  <1> HIDE DEF row, patch, columns, key, cells
  <1>9. DOMAIN cells \subseteq Seq(K) \ {<<>>} /\ Whole(cells)
    BY <1>4, <1>7, FlatCells
  <1>10. Told(cells) = ToldBy(7, row)
    <2>1. \A v : Shown(7, v) = Conv(v)
      BY DEF Shown, Conv
    <2>2. Leaves(cells) = {<<c>> : c \in columns}
      BY <1>5, <1>7 DEF Leaves
    <2>3. Told(cells) = {<<<<c>>, Conv(Lookup(row, OSPFColumns[c]))>> : c \in columns}
      BY <1>7, <2>2 DEF Told
    <2> DEFINE f(place) == <<place[2], Shown(7, Lookup(row, place[1]))>>
    <2>4. \A c \in columns :
             f(<<OSPFColumns[c], <<c>>>>) = <<<<c>>, Conv(Lookup(row, OSPFColumns[c]))>>
      BY <2>1
    <2>5. ToldBy(7, row) = {f(place) : place \in Places(7, row)}
      BY DEF ToldBy
    <2> HIDE DEF f
    <2>6. ToldBy(7, row) = {f(<<OSPFColumns[c], <<c>>>>) : c \in columns}
      BY <1>8, <2>5
    <2> QED
      BY <2>3, <2>4, <2>6
  <1> QED
    BY <1>1, <1>2, <1>3, <1>6, <1>9, <1>10 DEF Faithful, row, patch

(* BGP processes, which are put with an empty map for their neighbors.      *)
LEMMA BGPProcessIs ==
  ASSUME NEW t, WellFormed(3, t[3]), NEW k \in DOMAIN t[3],
         NEW K, Names \subseteq K, KeysOf(t[3][k]) \subseteq K
  PROVE  Faithful(BGPProcessPatch(t[3][k]), t, 3, t[3][k], K)
  <1> DEFINE row == t[3][k]
             patch == BGPProcessPatch(row)
             columns == DOMAIN row \ {"Node"}
             key == <<NodeOf(row), "BGP">>
             record == Cells(row, columns)
             cells == [p \in DOMAIN record \cup {<<"Neighbors">>} |->
                          IF p = <<"Neighbors">> THEN Branch ELSE record[p]]
  <1>1. patch.on /\ patch.at = key /\ patch.cells = cells
    BY DEF BGPProcessPatch, Patch, Record
  <1>2. Key(3, row) = key /\ Counts(t, 3, row)
    BY DEF Key, Column, NodeOf, Counts
  <1>3. NodeOf(row) \in K /\ "BGP" \in K /\ "Neighbors" \in K /\ columns \subseteq K
    BY DEF Names, KeysOf
  <1>4. Places(3, row) = {<<c, <<c>>>> : c \in columns}
    BY DEF Places
  <1>5. \A c : Lookup(row, c) # Branch
    BY NoCellIsMap
  <1>6. key \in Seq(K) /\ Len(key) = Depth(3)
    <2>1. Depth(3) = 2
      BY DEF Depth
    <2>2. key \in Seq(K)
      BY <1>3
    <2>3. Len(key) = 2
      OBVIOUS
    <2> QED
      BY <2>1, <2>2, <2>3
  <1>7. "Neighbors" \notin columns
    BY DEF WellFormed
  <1>8. /\ DOMAIN record = {<<c>> : c \in columns}
        /\ \A c \in columns : record[<<c>>] = Lookup(row, c)
    BY CellsAre
  <1> HIDE DEF row, patch, columns, key, record
  <1>9. /\ DOMAIN cells = {<<c>> : c \in columns \cup {"Neighbors"}}
        /\ cells[<<"Neighbors">>] = Branch
        /\ \A c \in columns : cells[<<c>>] = Lookup(row, c)
    <2>1. \A c \in columns : <<c>> # <<"Neighbors">>
      BY <1>7
    <2>2. DOMAIN cells = DOMAIN record \cup {<<"Neighbors">>}
      OBVIOUS
    <2>3. \A p \in DOMAIN record \cup {<<"Neighbors">>} :
             cells[p] = IF p = <<"Neighbors">> THEN Branch ELSE record[p]
      OBVIOUS
    <2> HIDE DEF cells
    <2>4. cells[<<"Neighbors">>] = Branch
      BY <2>3
    <2>5. ASSUME NEW c \in columns PROVE cells[<<c>>] = Lookup(row, c)
      <3>1. <<c>> \in DOMAIN record
        BY <1>8
      <3> QED
        BY <1>8, <2>1, <2>3, <3>1
    <2>6. DOMAIN cells = {<<c>> : c \in columns \cup {"Neighbors"}}
      BY <1>8, <2>2
    <2> QED
      BY <2>4, <2>5, <2>6
  <1> HIDE DEF cells
  <1>10. DOMAIN cells \subseteq Seq(K) \ {<<>>} /\ Whole(cells)
    <2>1. columns \cup {"Neighbors"} \subseteq K
      BY <1>3
    <2> QED
      BY <1>9, <2>1, FlatCells
  <1>11. Told(cells) = ToldBy(3, row)
    <2>1. Leaves(cells) = DOMAIN record
      BY <1>5, <1>7, <1>8, <1>9 DEF Leaves
    <2>2. Told(cells) = Told(record)
      <3>1. \A c \in DOMAIN record : record[c] = cells[c]
        BY <1>8, <1>9
      <3>2. Leaves(record) = DOMAIN record
        BY <1>5, <1>8 DEF Leaves
      <3> QED
        BY <2>1, <3>1, <3>2 DEF Told
    <2>3. \A c \in columns : record[<<c>>] = Lookup(row, c) /\ Lookup(row, c) # Branch
      BY <1>5, <1>8
    <2>4. 3 # 1
      OBVIOUS
    <2>5. Told(record) = ToldBy(3, row)
      BY <1>4, <1>8, <2>3, <2>4, FlatTold
    <2> QED
      BY <2>2, <2>5
  <1> QED
    BY <1>1, <1>2, <1>6, <1>10, <1>11 DEF Faithful, row, patch

(* Properties of nodes, some of which are put under a heading.              *)
Reorg == NodePropertiesReorg

(* Paths of two steps.                                                      *)
LEMMA TwoSteps ==
  ASSUME NEW K, NEW c \in K, NEW d \in K
  PROVE  /\ <<c, d>> \in Seq(K) \ {<<>>}
         /\ Way(<<c, d>>) = {<<c>>, <<c, d>>}
  <1> DEFINE q == <<c, d>>
             r == <<c>>
  <1>1. /\ q \in Seq(K) /\ Len(q) = 2 /\ q # <<>> /\ q[1] = c
        /\ r \in Seq(K) /\ Len(r) = 1 /\ r[1] = c
    OBVIOUS
  <1> HIDE DEF q, r
  <1>2. ASSUME NEW p \in Way(q) PROVE p = q \/ p = r
    <2>1. p \in Seq(K) /\ Len(p) \in 1..Len(q) /\ \A i \in 1..Len(p) : p[i] = q[i]
      BY <1>1, WayIs
    <2>2. CASE Len(p) = 1
      BY <1>1, <2>1, <2>2, SeqEqual
    <2>3. CASE Len(p) = 2
      BY <1>1, <2>1, <2>3, SeqEqual
    <2> QED
      BY <1>1, <2>1, <2>2, <2>3
  <1>3. q \in Way(q)
    BY <1>1, WayIs
  <1>4. r \in Way(q)
    <2>1. Len(r) \in 1..Len(q) /\ \A i \in 1..Len(r) : r[i] = q[i]
      BY <1>1
    <2> QED
      BY <1>1, <2>1, WayIs
  <1>5. Way(q) = {r, q}
    BY <1>2, <1>3, <1>4
  <1> QED
    BY <1>1, <1>5 DEF q, r

(* Reorganizing keeps every property, under its heading if it has one.      *)
LEMMA ReorgDictIs ==
  ASSUME NEW columns, NEW old, DOMAIN old = {<<c>> : c \in columns},
         columns \cap Headings = {}
  PROVE  /\ DOMAIN ReorgDict(old) =
               {Heading(c) : c \in columns}
                  \cup {<<Reorg[c]>> : c \in columns \cap DOMAIN Reorg}
         /\ \A c \in columns : ReorgDict(old)[Heading(c)] = old[<<c>>]
         /\ \A c \in columns \cap DOMAIN Reorg : ReorgDict(old)[<<Reorg[c]>>] = Branch
  <1> DEFINE moved == {c \in DOMAIN old : c[1] \in DOMAIN NodePropertiesReorg}
             parents == {<<NodePropertiesReorg[c[1]]>> : c \in moved}
             places == {<<NodePropertiesReorg[c[1]], c[1]>> : c \in moved}
             D == parents \cup places \cup (DOMAIN old \ moved)
             new == ReorgDict(old)
  <1>1. new = [p \in D |-> IF p \in parents THEN Branch ELSE old[<<p[Len(p)]>>]]
    BY Zenon DEF ReorgDict
  <1>2. moved = {<<c>> : c \in columns \cap DOMAIN Reorg}
    BY DEF Reorg
  <1>3. DOMAIN old \ moved = {<<c>> : c \in columns \ DOMAIN Reorg}
    BY <1>2
  <1>4. parents = {<<Reorg[c]>> : c \in columns \cap DOMAIN Reorg}
    <2> DEFINE f(x) == <<Reorg[x[1]]>>
    <2>1. parents = {f(x) : x \in moved}
      BY DEF Reorg
    <2>2. \A c \in columns : f(<<c>>) = <<Reorg[c]>>
      OBVIOUS
    <2> HIDE DEF moved, f
    <2>3. {f(x) : x \in moved} = {f(<<c>>) : c \in columns \cap DOMAIN Reorg}
      BY <1>2
    <2> QED
      BY <2>1, <2>2, <2>3
  <1>5. places = {<<Reorg[c], c>> : c \in columns \cap DOMAIN Reorg}
    <2> DEFINE f(x) == <<Reorg[x[1]], x[1]>>
    <2>1. places = {f(x) : x \in moved}
      BY DEF Reorg
    <2>2. \A c \in columns : f(<<c>>) = <<Reorg[c], c>>
      OBVIOUS
    <2> HIDE DEF moved, f
    <2>3. {f(x) : x \in moved} = {f(<<c>>) : c \in columns \cap DOMAIN Reorg}
      BY <1>2
    <2> QED
      BY <2>1, <2>2, <2>3
  <1>6. /\ \A c \in columns \cap DOMAIN Reorg : Heading(c) = <<Reorg[c], c>>
        /\ \A c \in columns \ DOMAIN Reorg : Heading(c) = <<c>>
        /\ \A c \in DOMAIN Reorg : Reorg[c] \in Headings
    BY DEF Heading, Reorg, Headings
  <1>7. DOMAIN new = D /\ \A p \in D : new[p] = IF p \in parents THEN Branch ELSE old[<<p[Len(p)]>>]
    <2> HIDE DEF D, parents, new
    <2> QED
      BY <1>1
  <1>8. D = {Heading(c) : c \in columns} \cup {<<Reorg[c]>> : c \in columns \cap DOMAIN Reorg}
    <2> HIDE DEF moved, parents, places
    <2> QED
      BY <1>3, <1>4, <1>5, <1>6
  <1> HIDE DEF moved, parents, places, D, new
  <1>9. ASSUME NEW c \in columns PROVE new[Heading(c)] = old[<<c>>]
    <2>1. Heading(c) \in D
      BY <1>8
    <2>2. CASE c \in DOMAIN Reorg
      <3>1. Heading(c) = <<Reorg[c], c>>
        BY <1>6, <2>2
      <3>2. Heading(c)[Len(Heading(c))] = c /\ Len(Heading(c)) = 2
        BY <3>1
      <3>3. \A d : Heading(c) # <<d>>
        BY <3>1
      <3>4. Heading(c) \notin parents
        BY <1>4, <3>3
      <3> QED
        BY <1>7, <2>1, <3>2, <3>4
    <2>3. CASE c \notin DOMAIN Reorg
      <3>1. Heading(c) = <<c>>
        BY <1>6, <2>3
      <3>2. Heading(c)[Len(Heading(c))] = c
        BY <3>1
      <3>3. Heading(c) \notin parents
        BY <1>4, <1>6, <3>1
      <3> QED
        BY <1>7, <2>1, <3>2, <3>3
    <2> QED
      BY <2>2, <2>3
  <1>10. ASSUME NEW c \in columns \cap DOMAIN Reorg PROVE new[<<Reorg[c]>>] = Branch
    BY <1>4, <1>7, <1>8
  <1> QED
    BY <1>7, <1>8, <1>9, <1>10 DEF new

(* Nodes; none of their cells has the name of a map of a later table.       *)
LEMMA NodeIs ==
  ASSUME NEW t, WellFormed(1, t[1]), NEW k \in DOMAIN t[1],
         NEW K, Names \subseteq K, KeysOf(t[1][k]) \subseteq K
  PROVE  /\ Faithful(NodePatch(t[1][k]), t, 1, t[1][k], K)
         /\ \A c \in DOMAIN NodePatch(t[1][k]).cells :
               Len(c) \in Nat \ {0} /\ c[1] \notin {"Interfaces", "BGP", "OSPF"}
  <1> DEFINE row == t[1][k]
             patch == NodePatch(row)
             columns == DOMAIN row \ {"Node", "Interfaces"}
             key == <<NodeOf(row)>>
             record == Cells(row, columns)
             old == [p \in DOMAIN record |-> WithoutConstructed(record[p])]
             cells == ReorgDict(old)
  <1>1. patch.on /\ patch.at = key /\ patch.cells = cells
    BY DEF NodePatch, Patch, Record
  <1>2. Key(1, row) = key /\ Counts(t, 1, row)
    BY DEF Key, Column, NodeOf, Counts
  <1>3. NodeOf(row) \in K /\ columns \subseteq K /\ Headings \subseteq K
    BY DEF Names, KeysOf
  <1>4. Places(1, row) = {<<c, Heading(c)>> : c \in columns}
    BY DEF Places
  <1>5. \A c : Lookup(row, c) # Branch
    BY NoCellIsMap
  <1>6. key \in Seq(K) /\ Len(key) = Depth(1)
    <2>1. Depth(1) = 1
      BY DEF Depth
    <2>2. key \in Seq(K)
      BY <1>3
    <2>3. Len(key) = 1
      OBVIOUS
    <2> QED
      BY <2>1, <2>2, <2>3
  <1>7. columns \cap Headings = {} /\ \A c \in columns : c \notin {"Interfaces", "BGP", "OSPF"}
    BY DEF WellFormed
  <1>8. /\ DOMAIN record = {<<c>> : c \in columns}
        /\ \A c \in columns : record[<<c>>] = Lookup(row, c)
    BY CellsAre
  <1>9. /\ DOMAIN old = {<<c>> : c \in columns}
        /\ \A c \in columns : old[<<c>>] = WithoutConstructed(Lookup(row, c))
    <2> HIDE DEF record, columns
    <2> QED
      BY <1>8
  <1>10. /\ \A c \in columns \cap DOMAIN Reorg : Heading(c) = <<Reorg[c], c>>
         /\ \A c \in columns \ DOMAIN Reorg : Heading(c) = <<c>>
         /\ \A c \in DOMAIN Reorg : Reorg[c] \in Headings
    BY DEF Heading, Reorg, Headings
  <1>11. \A x \in {"Interfaces", "BGP", "OSPF"} : x \notin Headings
    BY DEF Headings, NodePropertiesReorg
  <1> HIDE DEF row, patch, columns, key, record, old
  <1>12. /\ DOMAIN cells = {Heading(c) : c \in columns}
                             \cup {<<Reorg[c]>> : c \in columns \cap DOMAIN Reorg}
         /\ \A c \in columns : cells[Heading(c)] = WithoutConstructed(Lookup(row, c))
         /\ \A c \in columns \cap DOMAIN Reorg : cells[<<Reorg[c]>>] = Branch
    <2>1. /\ DOMAIN cells = {Heading(c) : c \in columns}
                               \cup {<<Reorg[c]>> : c \in columns \cap DOMAIN Reorg}
          /\ \A c \in columns : cells[Heading(c)] = old[<<c>>]
          /\ \A c \in columns \cap DOMAIN Reorg : cells[<<Reorg[c]>>] = Branch
      BY <1>7, <1>9, ReorgDictIs, Zenon
    <2> HIDE DEF cells
    <2> QED
      BY <1>9, <2>1
  <1> HIDE DEF cells
  <1>13. ASSUME NEW c \in columns
         PROVE  /\ Heading(c) \in Seq(K) \ {<<>>}
                /\ Heading(c)[1] \notin {"Interfaces", "BGP", "OSPF"}
                /\ \A d \in Way(Heading(c)) :
                      d \in DOMAIN cells /\ (d # Heading(c) => cells[d] = Branch)
    <2>1. CASE c \in DOMAIN Reorg
      <3>1. Heading(c) = <<Reorg[c], c>> /\ Reorg[c] \in Headings
        BY <1>10, <2>1
      <3>2. Way(Heading(c)) = {<<Reorg[c]>>, Heading(c)} /\ Heading(c) \in Seq(K) \ {<<>>}
        <4>1. Reorg[c] \in K /\ c \in K
          BY <1>3, <3>1
        <4>2. /\ <<Reorg[c], c>> \in Seq(K) \ {<<>>}
              /\ Way(<<Reorg[c], c>>) = {<<Reorg[c]>>, <<Reorg[c], c>>}
          BY <4>1, TwoSteps
        <4> QED
          BY <3>1, <4>2
      <3>3. Heading(c)[1] = Reorg[c]
        BY <3>1
      <3> QED
        BY <1>11, <1>12, <2>1, <3>1, <3>2, <3>3
    <2>2. CASE c \notin DOMAIN Reorg
      <3>1. Heading(c) = <<c>>
        BY <1>10, <2>2
      <3>2. Way(Heading(c)) = {Heading(c)} /\ Heading(c) \in Seq(K) \ {<<>>}
        <4>1. <<c>> \in Seq(K) \ {<<>>} /\ Way(<<c>>) = {<<c>>}
          BY <1>3, OneStep
        <4> QED
          BY <3>1, <4>1
      <3>3. Heading(c)[1] = c
        BY <3>1
      <3> QED
        BY <1>7, <1>12, <3>2, <3>3
    <2> QED
      BY <2>1, <2>2
  <1>14. ASSUME NEW c \in columns \cap DOMAIN Reorg
         PROVE  /\ <<Reorg[c]>> \in Seq(K) \ {<<>>}
                /\ <<Reorg[c]>>[1] \notin {"Interfaces", "BGP", "OSPF"}
                /\ Way(<<Reorg[c]>>) = {<<Reorg[c]>>}
    <2>1. Reorg[c] \in K /\ Reorg[c] \in Headings
      BY <1>3, <1>10
    <2>2. <<Reorg[c]>> \in Seq(K) \ {<<>>} /\ Way(<<Reorg[c]>>) = {<<Reorg[c]>>}
      BY <2>1, OneStep
    <2> QED
      BY <1>11, <2>1, <2>2
  <1>15. /\ DOMAIN cells \subseteq Seq(K) \ {<<>>}
         /\ \A d \in DOMAIN cells : d[1] \notin {"Interfaces", "BGP", "OSPF"}
    BY <1>12, <1>13, <1>14
  <1>16. Whole(cells)
    BY <1>12, <1>13, <1>14 DEF Whole
  <1>17. \A d \in DOMAIN cells : Len(d) \in Nat \ {0}
    BY <1>15, EmptySeq
  <1>18. Told(cells) = ToldBy(1, row)
    <2>1. ASSUME NEW v PROVE Conv(WithoutConstructed(v)) = Shown(1, v)
      BY DEF Conv, WithoutConstructed, Shown, Wrapper, List
    <2>2. ASSUME NEW v, v # Branch PROVE WithoutConstructed(v) # Branch
      BY <2>2 DEF WithoutConstructed, Wrapper, Branch
    <2>3. Leaves(cells) = {Heading(c) : c \in columns}
      BY <1>5, <1>12, <2>2 DEF Leaves
    <2>4. Told(cells) = {<<Heading(c), Conv(cells[Heading(c)])>> : c \in columns}
      BY <2>3 DEF Told
    <2>5. \A c \in columns : Conv(cells[Heading(c)]) = Shown(1, Lookup(row, c))
      BY <1>12, <2>1
    <2> DEFINE f(place) == <<place[2], Shown(1, Lookup(row, place[1]))>>
    <2>6. \A c \in columns :
             f(<<c, Heading(c)>>) = <<Heading(c), Shown(1, Lookup(row, c))>>
      OBVIOUS
    <2>7. ToldBy(1, row) = {f(place) : place \in Places(1, row)}
      BY DEF ToldBy
    <2> HIDE DEF f
    <2>8. ToldBy(1, row) = {f(<<c, Heading(c)>>) : c \in columns}
      BY <1>4, <2>7
    <2> QED
      BY <2>4, <2>5, <2>6, <2>8, ZenonT(30)
  <1> QED
    BY <1>1, <1>2, <1>6, <1>15, <1>16, <1>17, <1>18 DEF Faithful, row, patch

------------------------------------------------------------------------------
(* THE SEVEN TABLES                                                         *)

(* A table with the patches of its rows.                                    *)
Table(ps, t, i, K) ==
  /\ WellFormed(i, t[i]) /\ Len(ps) = Len(t[i]) /\ DOMAIN ps = DOMAIN t[i]
  /\ \A k \in DOMAIN ps : Faithful(ps[k], t, i, t[i][k], K)

(* As many patches as rows.                                                 *)
LEMMA TableIs ==
  ASSUME NEW t, NEW i, WellFormed(i, t[i]), NEW ps,
         ps = [k \in DOMAIN t[i] |-> ps[k]]
  PROVE  Len(ps) = Len(t[i]) /\ DOMAIN ps = DOMAIN t[i]
  <1>1. Len(t[i]) \in Nat /\ DOMAIN t[i] = 1..Len(t[i])
    BY DEF WellFormed
  <1>2. DOMAIN ps = 1..Len(t[i])
    BY <1>1
  <1> QED
    BY <1>1, <1>2

(* How deep the rows of each table are put.                                 *)
LEMMA DepthIs ==
  /\ \A i \in 1..7 : Depth(i) \in Nat \ {0}
  /\ Depth(1) = 1 /\ Depth(2) = 3 /\ Depth(3) = 2 /\ Depth(4) = 4 /\ Depth(5) = 4
  /\ Depth(6) = 6 /\ Depth(7) = 8
  <1>1. /\ Depth(1) = 1 /\ Depth(2) = 3 /\ Depth(3) = 2 /\ Depth(4) = 4 /\ Depth(5) = 4
        /\ Depth(6) = 6 /\ Depth(7) = 8
    BY DEF Depth
  <1>2. 1..7 = {1, 2, 3, 4, 5, 6, 7}
    OBVIOUS
  <1> QED
    BY <1>1, <1>2

(* The rows of a table are put at paths of one length.                      *)
LEMMA TablePatches ==
  ASSUME NEW t, NEW i \in 1..7, NEW ps, NEW K, Table(ps, t, i, K)
  PROVE  Patches(ps, Depth(i), K)
  <1>1. Len(ps) \in Nat /\ DOMAIN ps = 1..Len(ps)
    BY DEF Table, WellFormed
  <1>2. Depth(i) \in Nat \ {0}
    BY DepthIs
  <1>3. ASSUME NEW k \in DOMAIN ps, ps[k].on
        PROVE  /\ ps[k].at \in Seq(K) /\ Len(ps[k].at) = Depth(i)
               /\ DOMAIN ps[k].cells \subseteq Seq(K) \ {<<>>}
    BY <1>3 DEF Table, Faithful
  <1> QED
    BY <1>1, <1>2, <1>3 DEF Patches

(* Nothing but what the table says is written, and all of it.               *)
Converted(lines) == {<<line[1], Conv(line[2])>> : line \in lines}

(* What a table writes is, converted, what the contract says of it.         *)
LEMMA TableSays ==
  ASSUME NEW t, NEW i, NEW ps, NEW K, Table(ps, t, i, K)
  PROVE  Converted(Written(ps)) = SaidBy(t, i)
  <1> DEFINE rows == t[i]
             standing == {k \in DOMAIN rows : Counts(t, i, rows[k]) /\ ~Superseded(t, i, k)}
             last == LastRows(ps, Len(ps))
  <1>1. /\ DOMAIN ps = DOMAIN rows /\ Len(ps) = Len(rows)
        /\ Len(rows) \in Nat /\ DOMAIN rows = 1..Len(rows)
    BY DEF Table, WellFormed
  <1>2. \A k \in DOMAIN rows :
           /\ ps[k].on <=> Counts(t, i, rows[k])
           /\ ps[k].on => /\ ps[k].at = Key(i, rows[k])
                          /\ Told(ps[k].cells) = ToldBy(i, rows[k])
    BY DEF Table, Faithful
  <1>3. last = standing
    <2>1. ASSUME NEW k \in DOMAIN rows, ps[k].on
          PROVE  (\A j \in (k + 1)..Len(ps) : ps[j].on => ps[j].at # ps[k].at)
                    <=> ~Superseded(t, i, k)
      <3>1. \A j : j \in (k + 1)..Len(ps) <=> j \in DOMAIN rows /\ j > k
        BY <1>1
      <3> QED
        BY <1>2, <2>1, <3>1 DEF Superseded
    <2> QED
      BY <1>1, <1>2, <2>1 DEF LastRows
  <1>4. ASSUME NEW k \in standing
        PROVE  Converted(Writes(ps[k])) =
                  {<<Key(i, rows[k]) \o place[2], Shown(i, Lookup(rows[k], place[1]))>> :
                      place \in Places(i, rows[k])}
    <2> DEFINE at == Key(i, rows[k])
               cells == ps[k].cells
    <2>1. ps[k].at = at /\ Told(cells) = ToldBy(i, rows[k])
      BY <1>2
    <2>2. \A w : w \in Writes(ps[k]) <=> \E c \in Leaves(cells) : w = <<at \o c, cells[c]>>
      BY <2>1 DEF Writes
    <2>3. \A y : y \in Told(cells) <=> \E c \in Leaves(cells) : y = <<c, Conv(cells[c])>>
      BY DEF Told
    <2>4. \A y : y \in ToldBy(i, rows[k]) <=>
             \E place \in Places(i, rows[k]) : y = <<place[2], Shown(i, Lookup(rows[k], place[1]))>>
      BY DEF ToldBy
    <2> SUFFICES ASSUME NEW x
                 PROVE  x \in Converted(Writes(ps[k])) <=>
                           \E place \in Places(i, rows[k]) :
                              x = <<at \o place[2], Shown(i, Lookup(rows[k], place[1]))>>
      OBVIOUS
    <2> HIDE DEF at, cells, rows
    <2>5. x \in Converted(Writes(ps[k])) <=>
             \E w \in Writes(ps[k]) : x = <<w[1], Conv(w[2])>>
      BY DEF Converted
    <2>6. x \in Converted(Writes(ps[k])) <=>
             \E c \in Leaves(cells) : x = <<at \o c, Conv(cells[c])>>
      <3>1. ASSUME NEW w \in Writes(ps[k]), x = <<w[1], Conv(w[2])>>
            PROVE  \E c \in Leaves(cells) : x = <<at \o c, Conv(cells[c])>>
        <4>1. PICK c \in Leaves(cells) : w = <<at \o c, cells[c]>>
          BY <2>2
        <4>2. w[1] = at \o c /\ w[2] = cells[c]
          BY <4>1
        <4> QED
          BY <3>1, <4>2
      <3>2. ASSUME NEW c \in Leaves(cells), x = <<at \o c, Conv(cells[c])>>
            PROVE  \E w \in Writes(ps[k]) : x = <<w[1], Conv(w[2])>>
        <4> DEFINE w == <<at \o c, cells[c]>>
        <4>1. w \in Writes(ps[k]) /\ w[1] = at \o c /\ w[2] = cells[c]
          BY <2>2
        <4> QED
          BY <3>2, <4>1
      <3> QED
        BY <2>5, <3>1, <3>2
    <2>7. (\E c \in Leaves(cells) : x = <<at \o c, Conv(cells[c])>>) <=>
             \E y \in Told(cells) : x = <<at \o y[1], y[2]>>
      <3>1. ASSUME NEW c \in Leaves(cells), x = <<at \o c, Conv(cells[c])>>
            PROVE  \E y \in Told(cells) : x = <<at \o y[1], y[2]>>
        <4> DEFINE y == <<c, Conv(cells[c])>>
        <4>1. y \in Told(cells) /\ y[1] = c /\ y[2] = Conv(cells[c])
          BY <2>3
        <4> QED
          BY <3>1, <4>1
      <3>2. ASSUME NEW y \in Told(cells), x = <<at \o y[1], y[2]>>
            PROVE  \E c \in Leaves(cells) : x = <<at \o c, Conv(cells[c])>>
        <4>1. PICK c \in Leaves(cells) : y = <<c, Conv(cells[c])>>
          BY <2>3
        <4>2. y[1] = c /\ y[2] = Conv(cells[c])
          BY <4>1
        <4> QED
          BY <3>2, <4>2
      <3> QED
        BY <3>1, <3>2
    <2>8. (\E place \in Places(i, rows[k]) :
              x = <<at \o place[2], Shown(i, Lookup(rows[k], place[1]))>>) <=>
             \E y \in ToldBy(i, rows[k]) : x = <<at \o y[1], y[2]>>
      <3> DEFINE v(place) == Shown(i, Lookup(rows[k], place[1]))
      <3> HIDE DEF v
      <3>1. ASSUME NEW place \in Places(i, rows[k]), x = <<at \o place[2], v(place)>>
            PROVE  \E y \in ToldBy(i, rows[k]) : x = <<at \o y[1], y[2]>>
        <4> DEFINE y == <<place[2], v(place)>>
        <4>1. y \in ToldBy(i, rows[k]) /\ y[1] = place[2] /\ y[2] = v(place)
          BY <2>4 DEF v
        <4> QED
          BY <3>1, <4>1
      <3>2. ASSUME NEW y \in ToldBy(i, rows[k]), x = <<at \o y[1], y[2]>>
            PROVE  \E place \in Places(i, rows[k]) : x = <<at \o place[2], v(place)>>
        <4>1. PICK place \in Places(i, rows[k]) : y = <<place[2], v(place)>>
          BY <2>4 DEF v
        <4>2. y[1] = place[2] /\ y[2] = v(place)
          BY <4>1
        <4> QED
          BY <3>2, <4>2
      <3> QED
        BY <3>1, <3>2 DEF v
    <2> QED
      BY <2>1, <2>6, <2>7, <2>8
  <1>5. \A x : x \in Converted(Written(ps)) <=> \E k \in last : x \in Converted(Writes(ps[k]))
    BY DEF Converted, Written
  <1>6. \A x : x \in SaidBy(t, i) <=>
           \E k \in standing :
              x \in {<<Key(i, rows[k]) \o place[2], Shown(i, Lookup(rows[k], place[1]))>> :
                        place \in Places(i, rows[k])}
    BY DEF SaidBy
  <1> HIDE DEF standing, last, rows
  <1>7. ASSUME NEW x PROVE x \in Converted(Written(ps)) <=> x \in SaidBy(t, i)
    <2>1. \A k \in standing :
             x \in Converted(Writes(ps[k])) <=>
             x \in {<<Key(i, rows[k]) \o place[2], Shown(i, Lookup(rows[k], place[1]))>> :
                       place \in Places(i, rows[k])}
      BY <1>4
    <2> QED
      BY <1>3, <1>5, <1>6, <2>1
  <1> QED
    BY <1>7

(* The names of the maps on the way to the rows of each table.              *)
LEMMA KeyNames ==
  ASSUME NEW row
  PROVE  /\ Key(2, row)[2] = "Interfaces" /\ Key(3, row)[2] = "BGP" /\ Key(4, row)[2] = "BGP"
         /\ Key(5, row)[2] = "OSPF" /\ Key(6, row)[2] = "OSPF" /\ Key(7, row)[2] = "OSPF"
         /\ Key(4, row)[3] = "Neighbors"
         /\ Key(6, row)[5] = "Areas" /\ Key(7, row)[5] = "Areas" /\ Key(7, row)[7] = "Interfaces"
  BY DEF Key

(* The patch of a row of each table, the patches of a table, and the tree   *)
(* after it.                                                                *)
RowPatch(t, i, row) ==
  CASE i = 1 -> NodePatch(row)
    [] i = 2 -> InterfacePatch(ProcessNodes(t[1]), row)
    [] i = 3 -> BGPProcessPatch(row)
    [] i = 4 -> BGPPeerPatch(row)
    [] i = 5 -> OSPFProcessPatch(row)
    [] i = 6 -> OSPFAreaPatch(row)
    [] i = 7 -> OSPFInterfacePatch(row)
PatchesOf(t, i) == [k \in DOMAIN t[i] |-> RowPatch(t, i, t[i][k])]
WithOSPF(t) == ProcessOSPFProcesses(ProcessBGPPeers(WithProcesses(t), t[4]), t[5])
TreeOf(t, i) ==
  CASE i = 0 -> EmptyMap
    [] i = 1 -> ProcessNodes(t[1])
    [] i = 2 -> WithInterfaces(t)
    [] i = 3 -> WithProcesses(t)
    [] i = 4 -> ProcessBGPPeers(WithProcesses(t), t[4])
    [] i = 5 -> WithOSPF(t)
    [] i = 6 -> ProcessOSPFAreas(WithOSPF(t), t[6])
    [] i = 7 -> ProcessOSPFInterfaces(ProcessOSPFAreas(WithOSPF(t), t[6]), t[7])

Consistent(t) == \A i \in 1..7 : WellFormed(i, t[i])
AllKeys(t) == Names \cup UNION {UNION {KeysOf(t[i][k]) : k \in DOMAIN t[i]} : i \in 1..7}

(* Each tree is the one before with the rows of one more table.             *)
LEMMA TreeSteps ==
  ASSUME NEW t, NEW n \in 1..7
  PROVE  TreeOf(t, n) = Patched(TreeOf(t, n - 1), PatchesOf(t, n))
  <1>1. CASE n = 1
    <2>1. TreeOf(t, 1) = ProcessNodes(t[1]) /\ TreeOf(t, 0) = EmptyMap
      BY DEF TreeOf
    <2>2. PatchesOf(t, 1) = [k \in DOMAIN t[1] |-> NodePatch(t[1][k])]
      BY DEF PatchesOf, RowPatch
    <2> QED
      BY <1>1, <2>1, <2>2 DEF ProcessNodes
  <1>2. CASE n = 2
    <2>1. TreeOf(t, 2) = WithInterfaces(t) /\ TreeOf(t, 1) = ProcessNodes(t[1])
      BY DEF TreeOf
    <2>2. PatchesOf(t, 2) = [k \in DOMAIN t[2] |-> InterfacePatch(ProcessNodes(t[1]), t[2][k])]
      BY DEF PatchesOf, RowPatch
    <2> QED
      BY <1>2, <2>1, <2>2 DEF WithInterfaces, ProcessInterfaces
  <1>3. CASE n = 3
    <2>1. TreeOf(t, 3) = WithProcesses(t) /\ TreeOf(t, 2) = WithInterfaces(t)
      BY DEF TreeOf
    <2>2. PatchesOf(t, 3) = [k \in DOMAIN t[3] |-> BGPProcessPatch(t[3][k])]
      BY DEF PatchesOf, RowPatch
    <2> QED
      BY <1>3, <2>1, <2>2 DEF WithProcesses, ProcessBGPProcesses
  <1>4. CASE n = 4
    <2>1. TreeOf(t, 4) = ProcessBGPPeers(WithProcesses(t), t[4]) /\ TreeOf(t, 3) = WithProcesses(t)
      BY DEF TreeOf
    <2>2. PatchesOf(t, 4) = [k \in DOMAIN t[4] |-> BGPPeerPatch(t[4][k])]
      BY DEF PatchesOf, RowPatch
    <2> QED
      BY <1>4, <2>1, <2>2 DEF ProcessBGPPeers
  <1>5. CASE n = 5
    <2>1. TreeOf(t, 5) = ProcessOSPFProcesses(TreeOf(t, 4), t[5])
      BY DEF TreeOf, WithOSPF
    <2>2. PatchesOf(t, 5) = [k \in DOMAIN t[5] |-> OSPFProcessPatch(t[5][k])]
      BY DEF PatchesOf, RowPatch
    <2> QED
      BY <1>5, <2>1, <2>2 DEF ProcessOSPFProcesses
  <1>6. CASE n = 6
    <2>1. TreeOf(t, 6) = ProcessOSPFAreas(TreeOf(t, 5), t[6])
      BY DEF TreeOf
    <2>2. PatchesOf(t, 6) = [k \in DOMAIN t[6] |-> OSPFAreaPatch(t[6][k])]
      BY DEF PatchesOf, RowPatch
    <2> QED
      BY <1>6, <2>1, <2>2 DEF ProcessOSPFAreas
  <1>7. CASE n = 7
    <2>1. TreeOf(t, 7) = ProcessOSPFInterfaces(TreeOf(t, 6), t[7])
      BY DEF TreeOf
    <2>2. PatchesOf(t, 7) = [k \in DOMAIN t[7] |-> OSPFInterfacePatch(t[7][k])]
      BY DEF PatchesOf, RowPatch
    <2> QED
      BY <1>7, <2>1, <2>2 DEF ProcessOSPFInterfaces
  <1> QED
    BY <1>1, <1>2, <1>3, <1>4, <1>5, <1>6, <1>7

(* Each row of a table is told by its patch; for the interfaces, once the   *)
(* nodes are known.                                                         *)
LEMMA TablesAre ==
  ASSUME NEW t, Consistent(t), NEW i \in 1..7,
         i = 2 => \A h : <<h>> \in DOMAIN ProcessNodes(t[1]) <=> Listed(t, h)
  PROVE  Table(PatchesOf(t, i), t, i, AllKeys(t))
  <1> DEFINE K == AllKeys(t)
             ps == PatchesOf(t, i)
  <1>1. WellFormed(i, t[i])
    BY DEF Consistent
  <1>2. ps = [k \in DOMAIN t[i] |-> ps[k]] /\ DOMAIN ps = DOMAIN t[i]
        /\ \A k \in DOMAIN t[i] : ps[k] = RowPatch(t, i, t[i][k])
    BY DEF PatchesOf
  <1>3. Len(ps) = Len(t[i])
    <2> HIDE DEF ps
    <2> QED
      BY <1>1, <1>2, TableIs
  <1>4. ASSUME NEW k \in DOMAIN t[i]
        PROVE  Names \subseteq K /\ KeysOf(t[i][k]) \subseteq K
    BY DEF AllKeys
  <1>5. ASSUME NEW k \in DOMAIN t[i]
        PROVE  Faithful(RowPatch(t, i, t[i][k]), t, i, t[i][k], K)
    <2> HIDE DEF K
    <2>1. CASE i = 1
      <3>1. RowPatch(t, 1, t[1][k]) = NodePatch(t[1][k])
        BY DEF RowPatch
      <3> QED
        BY <1>1, <1>4, <2>1, <3>1, NodeIs
    <2>2. CASE i = 2
      <3>1. RowPatch(t, 2, t[2][k]) = InterfacePatch(ProcessNodes(t[1]), t[2][k])
        BY DEF RowPatch
      <3> QED
        BY <1>1, <1>4, <2>2, <3>1, InterfaceIs
    <2>3. CASE i = 3
      <3>1. RowPatch(t, 3, t[3][k]) = BGPProcessPatch(t[3][k])
        BY DEF RowPatch
      <3> QED
        BY <1>1, <1>4, <2>3, <3>1, BGPProcessIs
    <2>4. CASE i = 4
      <3>1. RowPatch(t, 4, t[4][k]) = BGPPeerPatch(t[4][k])
        BY DEF RowPatch
      <3> QED
        BY <1>1, <1>4, <2>4, <3>1, PeerIs
    <2>5. CASE i = 5
      <3>1. RowPatch(t, 5, t[5][k]) = OSPFProcessPatch(t[5][k])
        BY DEF RowPatch
      <3> QED
        BY <1>1, <1>4, <2>5, <3>1, OSPFProcessIs
    <2>6. CASE i = 6
      <3>1. RowPatch(t, 6, t[6][k]) = OSPFAreaPatch(t[6][k])
        BY DEF RowPatch
      <3> QED
        BY <1>1, <1>4, <2>6, <3>1, AreaIs
    <2>7. CASE i = 7
      <3>1. RowPatch(t, 7, t[7][k]) = OSPFInterfacePatch(t[7][k])
        BY DEF RowPatch
      <3> QED
        BY <1>1, <1>4, <2>7, <3>1, OSPFInterfaceIs
    <2> QED
      BY <2>1, <2>2, <2>3, <2>4, <2>5, <2>6, <2>7
  <1> QED
    BY <1>1, <1>2, <1>3, <1>5 DEF Table

(* The cells of table i have other names, unless they are maps for table j. *)
Avoids(ps, names, i, j) ==
  \A k \in DOMAIN ps : \A c \in DOMAIN ps[k].cells :
     /\ Len(c) \in Nat \ {0}
     /\ c[1] \notin names \/ (/\ Len(c) = 1 /\ ps[k].cells[c] = Branch
                              /\ Depth(i) + 1 < Depth(j))

(* A table that writes below another, where that has no cell of the name.   *)
LEMMA SeparateBelow ==
  ASSUME NEW t, NEW K, NEW i \in 1..7, NEW ps, Table(ps, t, i, K),
         NEW j \in 1..7, NEW qs, Table(qs, t, j, K), Depth(i) < Depth(j),
         NEW names, \A l \in DOMAIN t[j] : Key(j, t[j][l])[Depth(i) + 1] \in names,
         Avoids(ps, names, i, j)
  PROVE  Separate(ps, qs)
  <1> DEFINE L == Depth(i)
             M == Depth(j)
             m == L + 1
  <1>1. Patches(ps, L, K) /\ Patches(qs, M, K)
    BY TablePatches
  <1>2. L \in Nat \ {0} /\ M \in Nat \ {0} /\ L < M
    BY DepthIs
  <1>3. m \in Nat /\ L < m /\ m <= M /\ m - L = 1
    BY <1>2
  <1>4. ASSUME NEW l \in DOMAIN qs, qs[l].on PROVE qs[l].at[m] \in names
    BY <1>4 DEF Table, Faithful
  <1>5. ASSUME NEW k \in DOMAIN ps, NEW c \in DOMAIN ps[k].cells
        PROVE  Len(c) \in Nat \ {0}
               /\ (c[1] \notin names \/ (Len(c) = 1 /\ ps[k].cells[c] = Branch /\ L + 1 < M))
    BY DEF Avoids
  <1> HIDE DEF L, M, m
  <1>6. ASSUME NEW k \in DOMAIN ps, ps[k].on, NEW c \in DOMAIN ps[k].cells,
               NEW l \in DOMAIN qs, qs[l].on
        PROVE  \/ m - L <= Len(c) /\ c[m - L] # qs[l].at[m]
               \/ Len(c) < M - L /\ ps[k].cells[c] = Branch
    <2>1. CASE c[1] \notin names
      BY <1>2, <1>3, <1>4, <1>5, <1>6, <2>1
    <2>2. CASE Len(c) = 1 /\ ps[k].cells[c] = Branch /\ L + 1 < M
      BY <1>2, <2>2
    <2> QED
      BY <1>5, <2>1, <2>2
  <1> QED
    BY <1>1, <1>3, <1>6, SeparateByName

(* Tables of different maps of a node are separate.                         *)
LEMMA SeparateSecond ==
  ASSUME NEW t, NEW K, NEW i \in 2..7, NEW ps, Table(ps, t, i, K),
         NEW j \in 2..7, NEW qs, Table(qs, t, j, K),
         \A r, s : Key(i, r)[2] # Key(j, s)[2]
  PROVE  Separate(ps, qs)
  <1>1. Patches(ps, Depth(i), K) /\ Patches(qs, Depth(j), K)
    BY TablePatches
  <1>2. 2 <= Depth(i) /\ 2 <= Depth(j)
    <2>1. \A n \in 2..7 : n \in {2, 3, 4, 5, 6, 7}
      OBVIOUS
    <2> QED
      BY <2>1, DepthIs
  <1>3. \A k \in DOMAIN ps, l \in DOMAIN qs : ps[k].on /\ qs[l].on => ps[k].at[2] # qs[l].at[2]
    BY DEF Table, Faithful
  <1> QED
    BY <1>1, <1>2, <1>3, SeparateMaps

------------------------------------------------------------------------------
(* MAPS ON THE WAY                                                          *)

(* The way to what is below a path goes through the path.                   *)
LEMMA WayOfBelow ==
  ASSUME NEW K, NEW p \in Seq(K), p # <<>>, NEW e \in Seq(K), e # <<>>, NEW c \in Way(p \o e)
  PROVE  c \in Way(p) \/ \E f \in Way(e) : c = p \o f
  <1> DEFINE q == p \o e
  <1>1. /\ q \in Seq(K) /\ Len(q) = Len(p) + Len(e) /\ Len(p) \in Nat \ {0} /\ Len(e) \in Nat
        /\ \A i \in 1..Len(p) : q[i] = p[i]
        /\ \A i \in 1..Len(e) : q[Len(p) + i] = e[i]
    BY BelowIs
  <1>2. c \in Way(q)
    OBVIOUS
  <1> HIDE DEF q
  <1>3. c \in Seq(K) /\ Len(c) \in 1..Len(q) /\ \A i \in 1..Len(c) : c[i] = q[i]
    BY <1>1, <1>2, WayIs
  <1>4. CASE Len(c) <= Len(p)
    <2>1. Len(c) \in 1..Len(p) /\ \A i \in 1..Len(c) : c[i] = p[i]
      BY <1>1, <1>3, <1>4
    <2> QED
      BY <1>3, <2>1, WayIs
  <1>5. CASE Len(c) > Len(p)
    <2> DEFINE n == Len(c) - Len(p)
               f == SubSeq(e, 1, n)
    <2>1. n \in 1..Len(e) /\ n \in Nat /\ Len(p) + n = Len(c)
      BY <1>1, <1>3, <1>5
    <2>2. f \in Way(e)
      BY <2>1 DEF Way
    <2>3. f \in Seq(K) /\ \A i \in 1..Len(f) : f[i] = e[i]
      BY <2>2, WayIs
    <2>4. Len(f) = n
      <3> HIDE DEF n
      <3>1. \A i \in 1..n : e[i] \in K
        BY <2>1, ElementOfSeq
      <3>2. Len(f) = IF 1 <= n THEN n - 1 + 1 ELSE 0
        BY <2>1, <3>1, SubSeqProperties
      <3> QED
        BY <2>1, <3>2
    <2> HIDE DEF f, n
    <2>5. f # <<>>
      BY <2>1, <2>4
    <2> DEFINE r == p \o f
    <2>6. /\ r \in Seq(K) /\ Len(r) = Len(p) + Len(f)
          /\ \A i \in 1..Len(p) : r[i] = p[i]
          /\ \A i \in 1..Len(f) : r[Len(p) + i] = f[i]
      BY <2>3, BelowIs
    <2> HIDE DEF r
    <2>7. Len(r) = Len(c)
      BY <2>1, <2>4, <2>6
    <2>8. ASSUME NEW i \in 1..Len(c) PROVE r[i] = c[i]
      <3>1. CASE i \in 1..Len(p)
        BY <1>1, <1>3, <2>6, <3>1
      <3>2. CASE i \notin 1..Len(p)
        <4> DEFINE j == i - Len(p)
        <4>1. j \in 1..n /\ i = Len(p) + j /\ j \in 1..Len(e)
          BY <1>1, <1>3, <2>1, <3>2
        <4> HIDE DEF j
        <4>2. r[Len(p) + j] = f[j] /\ f[j] = e[j] /\ q[Len(p) + j] = e[j]
          BY <1>1, <2>3, <2>4, <2>6, <4>1
        <4> QED
          BY <1>3, <4>1, <4>2
      <3> QED
        BY <3>1, <3>2
    <2>9. r = c
      BY <1>3, <2>6, <2>7, <2>8, SeqEqual
    <2> QED
      BY <2>2, <2>9 DEF r
  <1>6. Len(c) <= Len(p) \/ Len(c) > Len(p)
    BY <1>1, <1>3
  <1> QED
    BY <1>4, <1>5, <1>6

(* A tree stays whole when whole rows are put in it.                        *)
LEMMA StaysWhole ==
  ASSUME NEW K, NEW L, NEW ps, Patches(ps, L, K), NEW tree, Clear(tree, ps, K), Whole(tree),
         NEW T, Holds(T, tree, ps, Len(ps)),
         \A k \in DOMAIN ps : ps[k].on => Whole(ps[k].cells)
  PROVE  Whole(T)
  <1> DEFINE last == LastRows(ps, Len(ps))
  <1>1. DOMAIN T = DOMAIN tree \cup UNION {Way(ps[k].at) \cup Under(ps[k]) : k \in last}
    BY DEF Holds
  <1>2. \A k : \A p : p \in Under(ps[k]) <=> \E c \in DOMAIN ps[k].cells : p = ps[k].at \o c
    BY DEF Under, Below
  <1>3. ASSUME NEW k \in last
        PROVE  /\ k \in DOMAIN ps /\ ps[k].on /\ ps[k].at \in Seq(K)
               /\ DOMAIN ps[k].cells \subseteq Seq(K) \ {<<>>} /\ ps[k].at # <<>>
               /\ \A p \in Way(ps[k].at) : T[p] = Branch
               /\ \A c \in DOMAIN ps[k].cells : T[ps[k].at \o c] = ps[k].cells[c]
               /\ Whole(ps[k].cells)
    BY LastIsOn DEF Holds
  <1>4. \A p \in DOMAIN tree : T[p] = tree[p]
    BY DEF Holds
  <1> HIDE DEF last
  <1>5. ASSUME NEW k \in last, NEW c \in Way(ps[k].at)
        PROVE  c \in DOMAIN T /\ T[c] = Branch
    BY <1>1, <1>3
  <1>6. ASSUME NEW d \in DOMAIN tree, NEW c \in Way(d)
        PROVE  c \in DOMAIN T /\ (c # d => T[c] = Branch)
    BY <1>1, <1>4 DEF Whole
  <1>7. ASSUME NEW k \in last, NEW d \in Way(ps[k].at), NEW c \in Way(d)
        PROVE  c \in DOMAIN T /\ T[c] = Branch
    <2>1. c \in Way(ps[k].at)
      BY <1>3, WayOfWay
    <2> QED
      BY <1>5, <2>1
  <1>8. ASSUME NEW k \in last, NEW d \in Under(ps[k]), NEW c \in Way(d)
        PROVE  c \in DOMAIN T /\ (c # d => T[c] = Branch)
    <2>1. PICK e \in DOMAIN ps[k].cells : d = ps[k].at \o e
      BY <1>2
    <2>2. e \in Seq(K) /\ e # <<>> /\ c \in Way(ps[k].at \o e)
      BY <1>3, <2>1
    <2>3. CASE c \in Way(ps[k].at)
      BY <1>5, <2>3
    <2>4. ASSUME NEW f \in Way(e), c = ps[k].at \o f
          PROVE  c \in DOMAIN T /\ (c # d => T[c] = Branch)
      <3>1. f \in DOMAIN ps[k].cells /\ (f # e => ps[k].cells[f] = Branch)
        BY <1>3 DEF Whole
      <3>2. c \in Under(ps[k])
        BY <1>2, <2>4, <3>1
      <3>3. c \in DOMAIN T
        BY <1>1, <3>2
      <3>4. c # d => f # e
        BY <2>1, <2>4
      <3> QED
        BY <1>3, <2>4, <3>1, <3>3, <3>4
    <2> QED
      BY <1>3, <2>2, <2>3, <2>4, WayOfBelow
  <1>9. ASSUME NEW d \in DOMAIN T, NEW c \in Way(d)
        PROVE  c \in DOMAIN T /\ (c # d => T[c] = Branch)
    BY <1>1, <1>6, <1>7, <1>8
  <1> QED
    BY <1>9 DEF Whole

------------------------------------------------------------------------------
(* NO TABLE DISTURBS ANOTHER                                                *)

(* The cells of a process and of an area never have the name of a map that  *)
(* later tables make beside them.                                           *)
LEMMA CellNames ==
  ASSUME NEW t, NEW i \in {1, 3, 5, 6}, Consistent(t), NEW k \in DOMAIN t[i],
         NEW c \in DOMAIN RowPatch(t, i, t[i][k]).cells
  PROVE  /\ Len(c) \in Nat \ {0}
         /\ i = 1 => c[1] \notin {"Interfaces", "BGP", "OSPF"}
         /\ i = 3 => c[1] # "Neighbors" \/ (Len(c) = 1 /\ RowPatch(t, i, t[i][k]).cells[c] = Branch)
         /\ i = 5 => c[1] # "Areas"
         /\ i = 6 => c[1] # "Interfaces"
  <1> DEFINE row == t[i][k]
  <1>1. CASE i = 1
    <2>1. RowPatch(t, 1, row) = NodePatch(row)
      BY DEF RowPatch
    <2>2. WellFormed(1, t[1]) /\ Names \subseteq AllKeys(t) /\ KeysOf(row) \subseteq AllKeys(t)
      BY <1>1 DEF Consistent, AllKeys
    <2>3. \A d \in DOMAIN NodePatch(t[1][k]).cells :
             Len(d) \in Nat \ {0} /\ d[1] \notin {"Interfaces", "BGP", "OSPF"}
      BY <1>1, <2>2, NodeIs
    <2>4. c \in DOMAIN NodePatch(t[1][k]).cells
      BY <1>1, <2>1
    <2>5. Len(c) \in Nat \ {0} /\ c[1] \notin {"Interfaces", "BGP", "OSPF"}
      BY <2>3, <2>4
    <2> QED
      BY <1>1, <2>5
  <1>2. CASE i = 3
    <2> DEFINE columns == DOMAIN row \ {"Node"}
               record == Cells(row, columns)
               cells == [p \in DOMAIN record \cup {<<"Neighbors">>} |->
                            IF p = <<"Neighbors">> THEN Branch ELSE record[p]]
    <2>1. RowPatch(t, 3, row).cells = cells
      <3>1. RowPatch(t, 3, row) = BGPProcessPatch(row)
        BY DEF RowPatch
      <3>2. BGPProcessPatch(row).cells = cells
        BY DEF BGPProcessPatch, Patch, Record
      <3> QED
        BY <3>1, <3>2
    <2>2. DOMAIN record = {<<d>> : d \in columns}
      BY CellsAre
    <2> HIDE DEF record, columns
    <2>3. DOMAIN cells = DOMAIN record \cup {<<"Neighbors">>} /\ cells[<<"Neighbors">>] = Branch
      OBVIOUS
    <2> HIDE DEF cells, row
    <2>4. PICK d : c = <<d>>
      BY <1>2, <2>1, <2>2, <2>3 DEF row
    <2>5. Len(c) = 1 /\ c[1] = d
      BY <2>4
    <2>6. d = "Neighbors" => cells[c] = Branch
      BY <2>3, <2>4
    <2>7. RowPatch(t, i, row).cells = cells
      BY <1>2, <2>1
    <2> QED
      BY <1>2, <2>5, <2>6, <2>7 DEF row
  <1>3. CASE i = 5
    <2> DEFINE columns == {"VRF", "Reference_Bandwidth", "Router_ID"}
    <2>1. RowPatch(t, 5, row).cells = Cells(row, columns)
      BY DEF RowPatch, OSPFProcessPatch, Patch
    <2>2. DOMAIN Cells(row, columns) = {<<d>> : d \in columns}
      BY CellsAre
    <2>3. "Areas" \notin columns
      OBVIOUS
    <2> HIDE DEF columns
    <2>4. PICK d \in columns : c = <<d>>
      BY <1>3, <2>1, <2>2
    <2>5. Len(c) = 1 /\ c[1] = d
      BY <2>4
    <2> QED
      BY <1>3, <2>3, <2>5
  <1>4. CASE i = 6
    <2> DEFINE columns == {"Area_Type"}
    <2>1. RowPatch(t, 6, row).cells = Cells(row, columns)
      BY DEF RowPatch, OSPFAreaPatch, Patch
    <2>2. DOMAIN Cells(row, columns) = {<<d>> : d \in columns}
      BY CellsAre
    <2>3. "Interfaces" \notin columns
      OBVIOUS
    <2> HIDE DEF columns
    <2>4. PICK d \in columns : c = <<d>>
      BY <1>4, <2>1, <2>2
    <2>5. Len(c) = 1 /\ c[1] = d
      BY <2>4
    <2> QED
      BY <1>4, <2>3, <2>5
  <1> QED
    BY <1>1, <1>2, <1>3, <1>4

(* Any two tables are separate.                                             *)
LEMMA TablesSeparate ==
  ASSUME NEW t, Consistent(t), NEW K,
         \A i \in 1..7 : Table(PatchesOf(t, i), t, i, K),
         NEW i \in 1..7, NEW j \in 1..7, i < j
  PROVE  Separate(PatchesOf(t, i), PatchesOf(t, j))
  <1> DEFINE ps == PatchesOf(t, i)
             qs == PatchesOf(t, j)
  <1>1. Table(ps, t, i, K) /\ Table(qs, t, j, K)
    OBVIOUS
  <1>2. DOMAIN ps = DOMAIN t[i] /\ \A k \in DOMAIN ps : ps[k] = RowPatch(t, i, t[i][k])
    BY DEF PatchesOf
  <1>3. i \in {1, 2, 3, 4, 5, 6, 7} /\ j \in {1, 2, 3, 4, 5, 6, 7}
    OBVIOUS
  <1>4. i \in {1, 3, 5, 6} =>
          \A k \in DOMAIN ps : \A c \in DOMAIN ps[k].cells :
             /\ Len(c) \in Nat \ {0}
             /\ i = 1 => c[1] \notin {"Interfaces", "BGP", "OSPF"}
             /\ i = 3 => c[1] # "Neighbors" \/ (Len(c) = 1 /\ ps[k].cells[c] = Branch)
             /\ i = 5 => c[1] # "Areas"
             /\ i = 6 => c[1] # "Interfaces"
    BY <1>2, CellNames
  <1> HIDE DEF ps, qs
  <1>5. CASE i = 1
    <2>1. Depth(i) < Depth(j) /\ Depth(i) + 1 = 2
      BY <1>3, <1>5, DepthIs
    <2>2. \A l \in DOMAIN t[j] : Key(j, t[j][l])[Depth(i) + 1] \in {"Interfaces", "BGP", "OSPF"}
      BY <1>3, <1>5, <2>1, KeyNames
    <2>3. Avoids(ps, {"Interfaces", "BGP", "OSPF"}, i, j)
      BY <1>4, <1>5 DEF Avoids
    <2>4. Separate(ps, qs)
      BY <1>1, <2>1, <2>2, <2>3, SeparateBelow
    <2> QED
      BY <2>4 DEF ps, qs
  <1>6. CASE i = 3 /\ j = 4
    <2>1. Depth(i) < Depth(j) /\ Depth(i) + 1 = 3 /\ Depth(i) + 1 < Depth(j)
      BY <1>6, DepthIs
    <2>2. \A l \in DOMAIN t[j] : Key(j, t[j][l])[Depth(i) + 1] \in {"Neighbors"}
      BY <1>6, <2>1, KeyNames
    <2>3. Avoids(ps, {"Neighbors"}, i, j)
      BY <1>4, <1>6, <2>1 DEF Avoids
    <2>4. Separate(ps, qs)
      BY <1>1, <2>1, <2>2, <2>3, SeparateBelow
    <2> QED
      BY <2>4 DEF ps, qs
  <1>7. CASE i = 5
    <2>1. Depth(i) < Depth(j) /\ Depth(i) + 1 = 5 /\ j \in {6, 7}
      BY <1>3, <1>7, DepthIs
    <2>2. \A l \in DOMAIN t[j] : Key(j, t[j][l])[Depth(i) + 1] \in {"Areas"}
      BY <1>7, <2>1, KeyNames
    <2>3. Avoids(ps, {"Areas"}, i, j)
      BY <1>4, <1>7 DEF Avoids
    <2>4. Separate(ps, qs)
      BY <1>1, <2>1, <2>2, <2>3, SeparateBelow
    <2> QED
      BY <2>4 DEF ps, qs
  <1>8. CASE i = 6
    <2>1. Depth(i) < Depth(j) /\ Depth(i) + 1 = 7 /\ j = 7
      BY <1>3, <1>8, DepthIs
    <2>2. \A l \in DOMAIN t[j] : Key(j, t[j][l])[Depth(i) + 1] \in {"Interfaces"}
      BY <1>8, <2>1, KeyNames
    <2>3. Avoids(ps, {"Interfaces"}, i, j)
      BY <1>4, <1>8 DEF Avoids
    <2>4. Separate(ps, qs)
      BY <1>1, <2>1, <2>2, <2>3, SeparateBelow
    <2> QED
      BY <2>4 DEF ps, qs
  <1>9. CASE i = 2 \/ i = 4 \/ (i = 3 /\ j # 4)
    <2>1. i \in 2..7 /\ j \in 2..7
      BY <1>9
    <2>2. \A r, s : Key(i, r)[2] # Key(j, s)[2]
      BY <1>3, <1>9, KeyNames
    <2>3. Separate(ps, qs)
      BY <1>1, <2>1, <2>2, SeparateSecond
    <2> QED
      BY <2>3 DEF ps, qs
  <1> QED
    BY <1>3, <1>5, <1>6, <1>7, <1>8, <1>9

------------------------------------------------------------------------------
(* THE MERGE, TABLE AFTER TABLE                                             *)

(* A set of numbers up to n has a greatest one.                             *)
LEMMA Greatest ==
  ASSUME NEW n \in Nat, NEW S \in SUBSET (0..n), S # {}
  PROVE  \E x \in S : \A y \in S : y <= x
  <1> DEFINE R == {n - x : x \in S}
  <1>1. R \in SUBSET Nat /\ R # {}
    <2>1. \A x \in S : n - x \in Nat
      OBVIOUS
    <2>2. PICK x : x \in S
      OBVIOUS
    <2>3. n - x \in R
      BY <2>2
    <2> QED
      BY <2>1, <2>3
  <1>2. PICK r \in R : \A s \in R : r <= s
    BY <1>1, Least
  <1>3. PICK x \in S : r = n - x
    BY <1>2
  <1>4. ASSUME NEW y \in S PROVE y <= x
    <2>1. n - x <= n - y
      BY <1>2, <1>3
    <2> QED
      BY <2>1
  <1> QED
    BY <1>4

(* The nodes are those that the first table lists.                          *)
LEMMA FirstTree ==
  ASSUME NEW t, Consistent(t)
  PROVE  /\ Holds(ProcessNodes(t[1]), EmptyMap, PatchesOf(t, 1), Len(PatchesOf(t, 1)))
         /\ \A h : <<h>> \in DOMAIN ProcessNodes(t[1]) <=> Listed(t, h)
  <1> DEFINE K == AllKeys(t)
             ps == PatchesOf(t, 1)
             T == ProcessNodes(t[1])
             last == LastRows(ps, Len(ps))
  <1>1. Table(ps, t, 1, K)
    BY TablesAre
  <1>2. Patches(ps, Depth(1), K) /\ Depth(1) = 1
    BY <1>1, TablePatches, DepthIs
  <1>3. T = Patched(EmptyMap, ps)
    <2>1. TreeOf(t, 1) = T /\ TreeOf(t, 1 - 1) = EmptyMap
      BY DEF TreeOf
    <2> QED
      BY <2>1, TreeSteps
  <1> HIDE DEF K, ps, T
  <1>4. Holds(T, EmptyMap, ps, Len(ps))
    <2>1. Clear(EmptyMap, ps, K)
      BY ClearAtFirst
    <2> QED
      BY <1>2, <1>3, <2>1, PatchedIs
  <1>5. DOMAIN T = UNION {Way(ps[k].at) \cup Under(ps[k]) : k \in last}
    <2>1. DOMAIN EmptyMap = {}
      BY DEF EmptyMap
    <2> QED
      BY <1>4, <2>1 DEF Holds
  <1>6. ASSUME NEW k \in DOMAIN ps
        PROVE  /\ ps[k].on /\ ps[k].at = <<Column(t[1][k], "Node")>>
               /\ DOMAIN ps[k].cells \subseteq Seq(K) \ {<<>>}
               /\ ps[k].at \in Seq(K) /\ ps[k].at # <<>> /\ Len(ps[k].at) = 1
               /\ Column(t[1][k], "Node") \in K
    <2>1. Counts(t, 1, t[1][k]) /\ Key(1, t[1][k]) = <<Column(t[1][k], "Node")>>
      BY DEF Counts, Key
    <2>2. ps[k].on /\ ps[k].at = <<Column(t[1][k], "Node")>>
      BY <1>1, <2>1 DEF Table, Faithful
    <2>3. ps[k].at \in Seq(K) /\ Len(ps[k].at) = 1 /\ DOMAIN ps[k].cells \subseteq Seq(K) \ {<<>>}
      BY <1>2, <2>2 DEF Patches
    <2>4. Column(t[1][k], "Node") \in K
      <3>1. ASSUME NEW q \in Seq(K), Len(q) = 1 PROVE q[1] \in K
        <4>1. 1 \in 1..Len(q)
          BY <3>1
        <4> QED
          BY <4>1, ElementOfSeq
      <3> QED
        BY <2>2, <2>3, <3>1
    <2> QED
      BY <2>2, <2>3, <2>4
  <1>7. DOMAIN ps = DOMAIN t[1] /\ DOMAIN ps = 1..Len(ps) /\ Len(ps) \in Nat
    BY <1>1 DEF Table, WellFormed
  <1>8. ASSUME NEW h, Listed(t, h) PROVE <<h>> \in DOMAIN T
    <2> DEFINE mine == {k \in 1..Len(ps) : Column(t[1][k], "Node") = h}
    <2>1. mine # {} /\ mine \in SUBSET (0..Len(ps))
      BY <1>7, <1>8 DEF Listed
    <2>2. PICK k \in mine : \A j \in mine : j <= k
      <3> HIDE DEF mine
      <3> QED
        BY <1>7, <2>1, Greatest
    <2>3. k \in last
      BY <1>6, <1>7, <2>2 DEF LastRows
    <2>4. ps[k].at = <<h>> /\ <<h>> \in Way(ps[k].at)
      BY <1>6, <1>7, <2>2, OneStep
    <2> QED
      BY <1>5, <2>3, <2>4
  <1>9. ASSUME NEW h, <<h>> \in DOMAIN T PROVE Listed(t, h)
    <2>1. PICK k \in last : <<h>> \in Way(ps[k].at) \cup Under(ps[k])
      BY <1>5, <1>9
    <2>2. k \in DOMAIN ps
      BY <1>7 DEF LastRows
    <2>3. CASE <<h>> \in Way(ps[k].at)
      <3>1. Way(ps[k].at) = {<<Column(t[1][k], "Node")>>}
        BY <1>6, <2>2, OneStep
      <3>2. h = Column(t[1][k], "Node")
        BY <2>3, <3>1
      <3> QED
        BY <1>7, <2>2, <3>2 DEF Listed
    <2>4. CASE <<h>> \in Under(ps[k])
      <3>1. PICK c \in DOMAIN ps[k].cells : <<h>> = ps[k].at \o c
        BY <2>4 DEF Under, Below
      <3>2. Len(ps[k].at \o c) = Len(ps[k].at) + Len(c) /\ Len(c) \in Nat \ {0}
        BY <1>6, <2>2, BelowIs
      <3>3. Len(<<h>>) = 1
        OBVIOUS
      <3> QED
        BY <1>6, <2>2, <3>1, <3>2, <3>3
    <2> QED
      BY <2>1, <2>3, <2>4
  <1> QED
    BY <1>4, <1>8, <1>9 DEF T, ps

(* The patches of every table are what the contract makes of its rows.      *)
LEMMA AllTables ==
  ASSUME NEW t, Consistent(t), NEW i \in 1..7
  PROVE  /\ Table(PatchesOf(t, i), t, i, AllKeys(t))
         /\ Patches(PatchesOf(t, i), Depth(i), AllKeys(t))
  <1>1. Table(PatchesOf(t, i), t, i, AllKeys(t))
    BY TablesAre, FirstTree
  <1> QED
    BY <1>1, TablePatches

(* What the merge does with each table in turn.                             *)
LEMMA Stages ==
  ASSUME NEW t, Consistent(t), NEW n \in 1..7
  PROVE  /\ Clear(TreeOf(t, n - 1), PatchesOf(t, n), AllKeys(t))
         /\ Holds(TreeOf(t, n), TreeOf(t, n - 1), PatchesOf(t, n), Len(PatchesOf(t, n)))
  <1> DEFINE K == AllKeys(t)
             ClearFor(m) == \A j \in (m + 1)..7 : Clear(TreeOf(t, m), PatchesOf(t, j), K)
             S == {m \in Nat : m <= 6 => ClearFor(m)}
  <1>1. \A i \in 1..7 : Table(PatchesOf(t, i), t, i, K) /\ Patches(PatchesOf(t, i), Depth(i), K)
    BY AllTables
  <1>2. ASSUME NEW m \in 1..7, Clear(TreeOf(t, m - 1), PatchesOf(t, m), K)
        PROVE  Holds(TreeOf(t, m), TreeOf(t, m - 1), PatchesOf(t, m), Len(PatchesOf(t, m)))
    <2>1. TreeOf(t, m) = Patched(TreeOf(t, m - 1), PatchesOf(t, m))
      BY TreeSteps
    <2> QED
      BY <1>1, <1>2, <2>1, PatchedIs
  <1>3. 0 \in S
    <2>1. TreeOf(t, 0) = EmptyMap
      BY DEF TreeOf
    <2> HIDE DEF K
    <2> QED
      BY <2>1, ClearAtFirst
  <1>4. ASSUME NEW m \in Nat, m \in S PROVE m + 1 \in S
    <2> SUFFICES ASSUME m + 1 <= 6, NEW j \in (m + 1 + 1)..7
                 PROVE  Clear(TreeOf(t, m + 1), PatchesOf(t, j), K)
      OBVIOUS
    <2>1. /\ m <= 6 /\ m + 1 \in 1..7 /\ j \in 1..7 /\ m + 1 < j /\ m + 1 - 1 = m
          /\ m + 1 \in (m + 1)..7 /\ j \in (m + 1)..7
      OBVIOUS
    <2>2. Clear(TreeOf(t, m), PatchesOf(t, m + 1), K) /\ Clear(TreeOf(t, m), PatchesOf(t, j), K)
      BY <1>4, <2>1
    <2>3. Holds(TreeOf(t, m + 1), TreeOf(t, m), PatchesOf(t, m + 1), Len(PatchesOf(t, m + 1)))
      BY <1>2, <2>1, <2>2
    <2>4. Separate(PatchesOf(t, m + 1), PatchesOf(t, j))
      BY <1>1, <2>1, TablesSeparate
    <2>5. Patches(PatchesOf(t, m + 1), Depth(m + 1), K) /\ Patches(PatchesOf(t, j), Depth(j), K)
      BY <1>1, <2>1
    <2> HIDE DEF K
    <2> QED
      BY <2>2, <2>3, <2>4, <2>5, StaysClear
  <1>5. Nat \subseteq S
    <2> HIDE DEF S
    <2> QED
      BY <1>3, <1>4, Induction
  <1>6. n - 1 \in Nat /\ n - 1 <= 6 /\ n \in (n - 1 + 1)..7
    OBVIOUS
  <1>7. Clear(TreeOf(t, n - 1), PatchesOf(t, n), K)
    BY <1>5, <1>6
  <1> QED
    BY <1>2, <1>7

------------------------------------------------------------------------------
(* ORPHANS                                                                  *)

(* Every map that a row asks for is there, and where paths come from.       *)
LEMMA LastOf ==
  ASSUME NEW K, NEW L, NEW ps, Patches(ps, L, K), NEW k \in DOMAIN ps, ps[k].on
  PROVE  \E l \in LastRows(ps, Len(ps)) : ps[l].at = ps[k].at
  <1> DEFINE same == {l \in DOMAIN ps : ps[l].on /\ ps[l].at = ps[k].at}
  <1>1. Len(ps) \in Nat /\ DOMAIN ps = 1..Len(ps)
    BY DEF Patches
  <1>2. same \in SUBSET (0..Len(ps)) /\ same # {}
    BY <1>1
  <1>3. PICK l \in same : \A j \in same : j <= l
    <2> HIDE DEF same
    <2> QED
      BY <1>1, <1>2, Greatest
  <1>4. ASSUME NEW j \in (l + 1)..Len(ps), ps[j].on PROVE ps[j].at # ps[l].at
    <2>1. j \in DOMAIN ps /\ j > l
      BY <1>1, <1>3
    <2> QED
      BY <1>1, <1>3, <1>4, <2>1
  <1> QED
    BY <1>1, <1>3, <1>4 DEF LastRows

(* The maps on the way to a row are there, and nothing is lost.             *)
LEMMA WaysHeld ==
  ASSUME NEW K, NEW L, NEW ps, Patches(ps, L, K), NEW T, NEW tree,
         Holds(T, tree, ps, Len(ps)), NEW k \in DOMAIN ps, ps[k].on
  PROVE  Way(ps[k].at) \subseteq DOMAIN T /\ DOMAIN tree \subseteq DOMAIN T
  <1>1. PICK l \in LastRows(ps, Len(ps)) : ps[l].at = ps[k].at
    BY LastOf
  <1>2. DOMAIN T = DOMAIN tree \cup UNION {Way(ps[j].at) \cup Under(ps[j]) : j \in LastRows(ps, Len(ps))}
    BY DEF Holds
  <1> QED
    BY <1>1, <1>2

(* A path that was not there is one of a row, or on the way to it.          *)
LEMMA Origin ==
  ASSUME NEW K, NEW L, NEW ps, Patches(ps, L, K), NEW T, NEW tree,
         Holds(T, tree, ps, Len(ps)), NEW p \in DOMAIN T, p \notin DOMAIN tree
  PROVE  \E k \in DOMAIN ps : ps[k].on /\ p \in Way(ps[k].at) \cup Under(ps[k])
  <1>1. DOMAIN T = DOMAIN tree \cup UNION {Way(ps[j].at) \cup Under(ps[j]) : j \in LastRows(ps, Len(ps))}
    BY DEF Holds
  <1>2. PICK k \in LastRows(ps, Len(ps)) : p \in Way(ps[k].at) \cup Under(ps[k])
    BY <1>1
  <1>3. k \in DOMAIN ps /\ ps[k].on
    BY LastIsOn
  <1> QED
    BY <1>2, <1>3

(* What is below the path of a row.                                         *)
LEMMA UnderIs ==
  ASSUME NEW K, NEW patch, patch.at \in Seq(K), patch.at # <<>>,
         DOMAIN patch.cells \subseteq Seq(K) \ {<<>>}, NEW q \in Under(patch)
  PROVE  \E c \in DOMAIN patch.cells :
            /\ q \in Seq(K) /\ q = patch.at \o c /\ Len(c) \in Nat \ {0}
            /\ Len(patch.at) \in Nat /\ Len(q) = Len(patch.at) + Len(c)
            /\ q[Len(patch.at) + 1] = c[1]
            /\ \A i \in 1..Len(patch.at) : q[i] = patch.at[i]
  <1> DEFINE p == patch.at
  <1>1. p \in Seq(K) /\ p # <<>>
    OBVIOUS
  <1>2. PICK c \in DOMAIN patch.cells : q = p \o c
    BY DEF Under, Below
  <1>3. c \in Seq(K) /\ c # <<>>
    OBVIOUS
  <1> HIDE DEF p
  <1>4. /\ p \o c \in Seq(K) /\ Len(p \o c) = Len(p) + Len(c) /\ Len(p) \in Nat
        /\ Len(c) \in Nat /\ Len(c) # 0
        /\ \A i \in 1..Len(p) : (p \o c)[i] = p[i]
    BY <1>1, <1>3, BelowIs
  <1>5. \A i \in 1..Len(c) : (p \o c)[Len(p) + i] = c[i]
    BY <1>1, <1>3, BelowIs
  <1>6. 1 \in 1..Len(c)
    BY <1>4
  <1>7. q[Len(p) + 1] = c[1]
    BY <1>2, <1>5, <1>6
  <1> QED
    BY <1>2, <1>4, <1>7 DEF p

(* Paths below that of a row are longer.                                    *)
LEMMA UnderIsLonger ==
  ASSUME NEW K, NEW patch, patch.at \in Seq(K), patch.at # <<>>,
         DOMAIN patch.cells \subseteq Seq(K) \ {<<>>}, NEW q \in Under(patch)
  PROVE  Len(q) \in Nat /\ Len(q) > Len(patch.at)
  <1>1. PICK c \in DOMAIN patch.cells :
           /\ Len(c) \in Nat \ {0} /\ Len(patch.at) \in Nat
           /\ Len(q) = Len(patch.at) + Len(c)
    BY UnderIs
  <1> QED
    BY <1>1

(* The nodes that the BGP processes find, and the processes that the peers  *)
(* find.                                                                    *)
LEMMA NodesFound ==
  ASSUME NEW t, Consistent(t), NEW h
  PROVE  <<h>> \in DOMAIN WithInterfaces(t) <=> Listed(t, h)
  <1> DEFINE K == AllKeys(t)
             ps == PatchesOf(t, 2)
             T == WithInterfaces(t)
             old == ProcessNodes(t[1])
  <1>1. Table(ps, t, 2, K) /\ Patches(ps, 3, K)
    BY AllTables, DepthIs
  <1>2. Holds(T, old, ps, Len(ps))
    <2>1. TreeOf(t, 2) = T /\ TreeOf(t, 2 - 1) = old
      BY DEF TreeOf
    <2> QED
      BY <2>1, Stages
  <1>3. <<h>> \in DOMAIN old <=> Listed(t, h)
    BY FirstTree
  <1> HIDE DEF K, ps, T, old
  <1>4. Listed(t, h) => <<h>> \in DOMAIN T
    BY <1>2, <1>3 DEF Holds
  <1>5. ASSUME <<h>> \in DOMAIN T, <<h>> \notin DOMAIN old PROVE Listed(t, h)
    <2>1. PICK k \in DOMAIN ps :
             /\ ps[k].on
             /\ <<h>> \in Way(ps[k].at) \cup Under(ps[k])
      BY <1>1, <1>2, <1>5, Origin
    <2>2. /\ ps[k].at \in Seq(K) /\ Len(ps[k].at) = 3 /\ ps[k].at # <<>>
          /\ DOMAIN ps[k].cells \subseteq Seq(K) \ {<<>>}
      BY <1>1, <2>1, EmptySeq DEF Patches
    <2>3. ps[k].at = Key(2, t[2][k]) /\ Counts(t, 2, t[2][k])
      BY <1>1, <2>1 DEF Table, Faithful
    <2>4. <<h>> \notin Under(ps[k])
      <3> DEFINE q == <<h>>
      <3>1. Len(q) = 1
        OBVIOUS
      <3> HIDE DEF q
      <3>2. ASSUME q \in Under(ps[k]) PROVE FALSE
        <4>1. Len(q) > Len(ps[k].at)
          BY <2>2, <3>2, UnderIsLonger
        <4> QED
          BY <2>2, <3>1, <4>1
      <3> QED
        BY <3>2 DEF q
    <2>5. <<h>>[1] = ps[k].at[1]
      BY <2>1, <2>2, <2>4, WayIs
    <2>6. ps[k].at[1] = HostOf(t[2][k])
      BY <2>3 DEF Key
    <2> QED
      BY <2>3, <2>5, <2>6 DEF Counts
  <1>6. <<h>> \in DOMAIN T <=> Listed(t, h)
    BY <1>3, <1>4, <1>5
  <1> QED
    BY <1>6 DEF T

(* Neither the nodes nor the interfaces write what the BGP processes do.    *)
LEMMA NoProcessYet ==
  ASSUME NEW t, Consistent(t), NEW h
  PROVE  <<h, "BGP">> \notin DOMAIN WithInterfaces(t)
  <1> DEFINE K == AllKeys(t)
             q == <<h, "BGP">>
  <1>1. q[2] = "BGP" /\ Len(q) = 2 /\ 2 \in 1..Len(q)
    OBVIOUS
  <1> HIDE DEF q
  <1>2. ASSUME q \in DOMAIN ProcessNodes(t[1]) PROVE FALSE
    <2> DEFINE ps == PatchesOf(t, 1)
    <2>1. Patches(ps, 1, K)
      BY AllTables, DepthIs
    <2>2. Holds(ProcessNodes(t[1]), EmptyMap, ps, Len(ps)) /\ q \notin DOMAIN EmptyMap
      BY FirstTree DEF EmptyMap
    <2>3. \A k \in DOMAIN ps : ps[k] = RowPatch(t, 1, t[1][k]) /\ k \in DOMAIN t[1]
      BY DEF PatchesOf
    <2> HIDE DEF ps, K
    <2>4. PICK k \in DOMAIN ps :
             /\ ps[k].on
             /\ q \in Way(ps[k].at) \cup Under(ps[k])
      BY <1>2, <2>1, <2>2, Origin
    <2>5. /\ ps[k].at \in Seq(K) /\ Len(ps[k].at) = 1 /\ ps[k].at # <<>>
          /\ DOMAIN ps[k].cells \subseteq Seq(K) \ {<<>>}
      BY <2>1, <2>4, EmptySeq DEF Patches
    <2>6. q \notin Way(ps[k].at)
      <3>1. ASSUME q \in Way(ps[k].at) PROVE Len(q) \in 1..Len(ps[k].at)
        BY <2>5, <3>1, WayIs
      <3> QED
        BY <1>1, <2>5, <3>1
    <2>7. PICK c \in DOMAIN ps[k].cells : q[Len(ps[k].at) + 1] = c[1]
      <3>1. q \in Under(ps[k])
        BY <2>4, <2>6
      <3> DEFINE patch == ps[k]
      <3>2. /\ patch.at \in Seq(K) /\ patch.at # <<>> /\ q \in Under(patch)
            /\ DOMAIN patch.cells \subseteq Seq(K) \ {<<>>}
        BY <2>5, <3>1
      <3> HIDE DEF patch
      <3>3. \E c \in DOMAIN patch.cells : q[Len(patch.at) + 1] = c[1]
        BY <3>2, UnderIs
      <3> QED
        BY <3>3 DEF patch
    <2>8. c[1] # "BGP"
      <3>1. 1 \in {1, 3, 5, 6}
        OBVIOUS
      <3>2. c \in DOMAIN RowPatch(t, 1, t[1][k]).cells /\ k \in DOMAIN t[1]
        BY <2>3, <2>7
      <3> QED
        BY <3>1, <3>2, CellNames
    <2> QED
      BY <1>1, <2>5, <2>7, <2>8
  <1>3. ASSUME q \in DOMAIN WithInterfaces(t), q \notin DOMAIN ProcessNodes(t[1]) PROVE FALSE
    <2> DEFINE ps == PatchesOf(t, 2)
               T == WithInterfaces(t)
               old == ProcessNodes(t[1])
    <2>1. Table(ps, t, 2, K) /\ Patches(ps, 3, K)
      BY AllTables, DepthIs
    <2>2. Holds(T, old, ps, Len(ps))
      <3>1. TreeOf(t, 2) = T /\ TreeOf(t, 2 - 1) = old
        BY DEF TreeOf
      <3> QED
        BY <3>1, Stages
    <2> HIDE DEF K, ps, T, old
    <2>3. PICK k \in DOMAIN ps :
             /\ ps[k].on
             /\ q \in Way(ps[k].at) \cup Under(ps[k])
      BY <1>3, <2>1, <2>2, Origin DEF T, old
    <2>4. /\ ps[k].at \in Seq(K) /\ Len(ps[k].at) = 3 /\ ps[k].at # <<>>
          /\ DOMAIN ps[k].cells \subseteq Seq(K) \ {<<>>}
      BY <2>1, <2>3, EmptySeq DEF Patches
    <2>5. ps[k].at[2] = "Interfaces"
      BY <2>1, <2>3, KeyNames DEF Table, Faithful
    <2>6. q \notin Under(ps[k])
      <3>1. ASSUME q \in Under(ps[k]) PROVE FALSE
        <4>1. Len(q) > Len(ps[k].at)
          BY <2>4, <3>1, UnderIsLonger
        <4> QED
          BY <1>1, <2>4, <4>1
      <3> QED
        BY <3>1
    <2>7. q[2] = ps[k].at[2]
      <3>1. q \in Way(ps[k].at)
        BY <2>3, <2>6
      <3>2. \A i \in 1..Len(q) : q[i] = ps[k].at[i]
        BY <2>4, <3>1, WayIs
      <3> QED
        BY <1>1, <3>2
    <2> QED
      BY <1>1, <2>5, <2>7
  <1> QED
    BY <1>2, <1>3 DEF q

(* The peers find the process of a node if the table has one.               *)
LEMMA ProcessesFound ==
  ASSUME NEW t, Consistent(t), NEW h
  PROVE  <<h, "BGP">> \in DOMAIN WithProcesses(t)
            <=> \E j \in DOMAIN t[3] : Column(t[3][j], "Node") = h
  <1> DEFINE K == AllKeys(t)
             ps == PatchesOf(t, 3)
             T == WithProcesses(t)
             old == WithInterfaces(t)
             q == <<h, "BGP">>
  <1>1. Table(ps, t, 3, K) /\ Patches(ps, 2, K)
    BY AllTables, DepthIs
  <1>2. Holds(T, old, ps, Len(ps))
    <2>1. TreeOf(t, 3) = T /\ TreeOf(t, 3 - 1) = old
      BY DEF TreeOf
    <2> QED
      BY <2>1, Stages
  <1>3. q \notin DOMAIN old
    BY NoProcessYet
  <1>4. ASSUME NEW k \in DOMAIN ps
        PROVE  /\ ps[k].on /\ ps[k].at = <<Column(t[3][k], "Node"), "BGP">>
    BY <1>1 DEF Table, Faithful, Counts, Key
  <1>5. DOMAIN ps = DOMAIN t[3]
    BY DEF PatchesOf
  <1>6. q[1] = h /\ Len(q) = 2 /\ 1 \in 1..2
    OBVIOUS
  <1>7. ASSUME NEW k \in DOMAIN t[3], Column(t[3][k], "Node") = h PROVE q \in DOMAIN T
    <2>1. k \in DOMAIN ps /\ ps[k].on /\ ps[k].at = q
      BY <1>4, <1>5, <1>7
    <2> HIDE DEF K, ps, T, old, q
    <2>2. ps[k].at \in Seq(K) /\ Len(ps[k].at) = 2
      BY <1>1, <2>1 DEF Patches
    <2>3. q \in Way(q)
      <3>1. q \in Seq(K) /\ Len(q) \in 1..Len(q)
        BY <2>1, <2>2
      <3> QED
        BY <3>1, WayIs
    <2> QED
      BY <1>1, <1>2, <2>1, <2>3, WaysHeld
  <1> HIDE DEF K, ps, T, old, q
  <1>8. ASSUME q \in DOMAIN T PROVE \E k \in DOMAIN t[3] : Column(t[3][k], "Node") = h
    <2>1. PICK k \in DOMAIN ps :
             /\ ps[k].on
             /\ q \in Way(ps[k].at) \cup Under(ps[k])
      BY <1>1, <1>2, <1>3, <1>8, Origin
    <2>2. /\ ps[k].at \in Seq(K) /\ Len(ps[k].at) = 2 /\ ps[k].at # <<>>
          /\ DOMAIN ps[k].cells \subseteq Seq(K) \ {<<>>}
      BY <1>1, <2>1, EmptySeq DEF Patches
    <2>3. q[1] = ps[k].at[1]
      <3>1. CASE q \in Way(ps[k].at)
        BY <1>6, <2>2, <3>1, WayIs
      <3>2. CASE q \in Under(ps[k])
        <4>1. \A i \in 1..Len(ps[k].at) : q[i] = ps[k].at[i]
          BY <2>2, <3>2, UnderIs
        <4> QED
          BY <1>6, <2>2, <4>1
      <3> QED
        BY <2>1, <3>1, <3>2
    <2>4. ps[k].at[1] = Column(t[3][k], "Node")
      BY <1>4
    <2> QED
      BY <1>5, <1>6, <2>3, <2>4
  <1>9. q \in DOMAIN T <=> \E j \in DOMAIN t[3] : Column(t[3][j], "Node") = h
    BY <1>7, <1>8
  <1> QED
    BY <1>9 DEF q, T

(* The merge panics for orphans, and only for them.                         *)
LEMMA PanicsForOrphans ==
  ASSUME NEW t, Consistent(t)
  PROVE  Panics(t) <=> Orphan(t)
  <1>1. \A k : NodeOf(t[3][k]) = Column(t[3][k], "Node") /\ NodeOf(t[4][k]) = Column(t[4][k], "Node")
    BY DEF NodeOf, Column
  <1>2. HasNodes(WithInterfaces(t), t[3]) <=> \A k \in DOMAIN t[3] : Listed(t, Column(t[3][k], "Node"))
    BY <1>1, NodesFound DEF HasNodes
  <1>3. HasProcesses(WithProcesses(t), t[4]) <=>
           \A k \in DOMAIN t[4] : \E j \in DOMAIN t[3] :
              Column(t[3][j], "Node") = Column(t[4][k], "Node")
    BY <1>1, ProcessesFound DEF HasProcesses
  <1> QED
    BY <1>2, <1>3 DEF Panics, Orphan

------------------------------------------------------------------------------
(* THE FACTS ARE WHAT THE TABLES SAY                                        *)

(* After n tables the lines are those of the n tables.                      *)
LEMMA LinesAfter ==
  ASSUME NEW t, Consistent(t), NEW n \in 0..7
  PROVE  \A x : x \in Lines(TreeOf(t, n)) <=> \E i \in 1..n : x \in Written(PatchesOf(t, i))
  <1> DEFINE S == {m \in Nat : m <= 7 =>
                     \A x : x \in Lines(TreeOf(t, m)) <=> \E i \in 1..m : x \in Written(PatchesOf(t, i))}
  <1>1. 0 \in S
    <2>1. TreeOf(t, 0) = EmptyMap
      BY DEF TreeOf
    <2>2. Lines(EmptyMap) = {}
      BY DEF Lines, EmptyMap
    <2> QED
      BY <2>1, <2>2
  <1>2. ASSUME NEW m \in Nat, m \in S PROVE m + 1 \in S
    <2> SUFFICES ASSUME m + 1 <= 7, NEW x
                 PROVE  x \in Lines(TreeOf(t, m + 1))
                           <=> \E i \in 1..(m + 1) : x \in Written(PatchesOf(t, i))
      OBVIOUS
    <2>1. m <= 7 /\ m + 1 \in 1..7 /\ m + 1 - 1 = m /\ 1..(m + 1) = (1..m) \cup {m + 1}
      OBVIOUS
    <2>2. Holds(TreeOf(t, m + 1), TreeOf(t, m), PatchesOf(t, m + 1), Len(PatchesOf(t, m + 1)))
      BY <2>1, Stages, SMTT(20)
    <2>3. Lines(TreeOf(t, m + 1)) = Lines(TreeOf(t, m)) \cup Written(PatchesOf(t, m + 1))
      BY <2>2, LinesHeld
    <2>4. x \in Lines(TreeOf(t, m)) <=> \E i \in 1..m : x \in Written(PatchesOf(t, i))
      BY <1>2, <2>1
    <2> QED
      BY <2>1, <2>3, <2>4
  <1>3. Nat \subseteq S
    <2> HIDE DEF S
    <2> QED
      BY <1>1, <1>2, Induction
  <1>4. n \in Nat /\ n <= 7
    OBVIOUS
  <1> QED
    BY <1>3, <1>4

(* After n tables the tree is whole.                                        *)
LEMMA WholeAfter ==
  ASSUME NEW t, Consistent(t), NEW n \in 0..7
  PROVE  Whole(TreeOf(t, n)) /\ DOMAIN TreeOf(t, n) \subseteq Seq(AllKeys(t)) \ {<<>>}
  <1> DEFINE S == {m \in Nat : m <= 7 =>
                     Whole(TreeOf(t, m)) /\ DOMAIN TreeOf(t, m) \subseteq Seq(AllKeys(t)) \ {<<>>}}
             K == AllKeys(t)
  <1>1. 0 \in S
    <2>1. TreeOf(t, 0) = EmptyMap
      BY DEF TreeOf
    <2>2. DOMAIN EmptyMap = {}
      BY DEF EmptyMap
    <2> QED
      BY <2>1, <2>2 DEF Whole
  <1>2. ASSUME NEW m \in Nat, m \in S PROVE m + 1 \in S
    <2> DEFINE T == TreeOf(t, m + 1)
               tree == TreeOf(t, m)
               ps == PatchesOf(t, m + 1)
    <2> SUFFICES ASSUME m + 1 <= 7
                 PROVE  Whole(T) /\ DOMAIN T \subseteq Seq(K) \ {<<>>}
      OBVIOUS
    <2>1. m <= 7 /\ m + 1 \in 1..7 /\ m + 1 - 1 = m
      OBVIOUS
    <2>2. Clear(tree, ps, K) /\ Holds(T, tree, ps, Len(ps))
      BY <2>1, Stages, SMTT(20)
    <2>3. Table(ps, t, m + 1, K) /\ Patches(ps, Depth(m + 1), K)
      BY <2>1, AllTables
    <2>4. Whole(tree) /\ DOMAIN tree \subseteq Seq(K) \ {<<>>}
      BY <1>2, <2>1
    <2> HIDE DEF T, tree, ps, K
    <2>5. Whole(T)
      <3>1. \A k \in DOMAIN ps : ps[k].on => Whole(ps[k].cells)
        BY <2>3 DEF Table, Faithful
      <3> QED
        BY <2>2, <2>3, <2>4, <3>1, StaysWhole
    <2>6. ASSUME NEW p \in DOMAIN T PROVE p \in Seq(K) \ {<<>>}
      <3>1. CASE p \in DOMAIN tree
        BY <2>4, <3>1
      <3>2. CASE p \notin DOMAIN tree
        <4>1. PICK k \in DOMAIN ps : ps[k].on /\ p \in Way(ps[k].at) \cup Under(ps[k])
          BY <2>2, <2>3, <3>2, Origin
        <4>2. /\ ps[k].at \in Seq(K) /\ ps[k].at # <<>> /\ Len(ps[k].at) \in Nat
              /\ DOMAIN ps[k].cells \subseteq Seq(K) \ {<<>>}
          BY <2>3, <4>1, EmptySeq DEF Patches
        <4>3. p \in Seq(K) /\ Len(p) # 0
          <5>1. CASE p \in Way(ps[k].at)
            BY <4>2, <5>1, WayIs
          <5>2. CASE p \in Under(ps[k])
            <6>1. p \in Seq(K)
              BY <4>2, <5>2, UnderIs
            <6>2. Len(p) \in Nat /\ Len(p) > Len(ps[k].at)
              BY <4>2, <5>2, UnderIsLonger
            <6> QED
              BY <4>2, <6>1, <6>2
          <5> QED
            BY <4>1, <5>1, <5>2
        <4> QED
          BY <4>3, EmptySeq
      <3> QED
        BY <3>1, <3>2
    <2> QED
      BY <2>5, <2>6
  <1>3. Nat \subseteq S
    <2> HIDE DEF S
    <2> QED
      BY <1>1, <1>2, Induction
  <1>4. n \in Nat /\ n <= 7
    OBVIOUS
  <1> QED
    BY <1>3, <1>4

(* The conversion of the wrapped lists moves nothing.                       *)
LEMMA ConvIs ==
  ASSUME NEW tree
  PROVE  /\ DOMAIN ConvertListWrapper(tree) = DOMAIN tree
         /\ \A p \in DOMAIN tree : /\ ConvertListWrapper(tree)[p] = Conv(tree[p])
                                   /\ ConvertListWrapper(tree)[p] = Branch <=> tree[p] = Branch
  <1>1. /\ DOMAIN ConvertListWrapper(tree) = DOMAIN tree
        /\ \A p \in DOMAIN tree : ConvertListWrapper(tree)[p] = Conv(tree[p])
    BY DEF ConvertListWrapper, Conv
  <1>2. ASSUME NEW v PROVE Conv(v) = Branch <=> v = Branch
    <2>1. CASE v.kind = "wrapper"
      <3>1. v # Branch
        BY <2>1 DEF Branch
      <3>2. Conv(v) # Branch
        <4>1. Conv(v) = List(v.items)
          BY <2>1 DEF Conv
        <4>2. List(v.items).kind = "list" /\ Branch.kind = "branch"
          BY DEF List, Branch
        <4> QED
          BY <4>1, <4>2
      <3> QED
        BY <3>1, <3>2
    <2>2. CASE v.kind # "wrapper"
      BY <2>2 DEF Conv
    <2> QED
      BY <2>1, <2>2
  <1> QED
    BY <1>1, <1>2

(* The conversion of the wrapped lists converts each line.                  *)
LEMMA LinesConverted ==
  ASSUME NEW tree
  PROVE  Lines(ConvertListWrapper(tree)) = Converted(Lines(tree))
  <1> DEFINE T == ConvertListWrapper(tree)
  <1>1. /\ DOMAIN T = DOMAIN tree
        /\ \A p \in DOMAIN tree : T[p] = Conv(tree[p]) /\ (T[p] = Branch <=> tree[p] = Branch)
    BY ConvIs
  <1> HIDE DEF T
  <1>2. ASSUME NEW x \in Lines(T) PROVE x \in Converted(Lines(tree))
    <2>1. PICK p \in DOMAIN T : T[p] # Branch /\ x = <<p, T[p]>>
      BY LinesOf
    <2> DEFINE line == <<p, tree[p]>>
    <2>2. line \in Lines(tree)
      BY <1>1, <2>1, LinesOf
    <2>3. line[1] = p /\ line[2] = tree[p]
      OBVIOUS
    <2> HIDE DEF line
    <2>4. x = <<line[1], Conv(line[2])>>
      BY <1>1, <2>1, <2>3
    <2> QED
      BY <2>2, <2>4 DEF Converted
  <1>3. ASSUME NEW x \in Converted(Lines(tree)) PROVE x \in Lines(T)
    <2>1. PICK line \in Lines(tree) : x = <<line[1], Conv(line[2])>>
      BY DEF Converted
    <2>2. PICK p \in DOMAIN tree : tree[p] # Branch /\ line = <<p, tree[p]>>
      BY LinesOf
    <2>3. line[1] = p /\ line[2] = tree[p]
      BY <2>2
    <2>4. x = <<p, T[p]>> /\ T[p] # Branch /\ p \in DOMAIN T
      BY <1>1, <2>1, <2>2, <2>3
    <2> QED
      BY <2>4, LinesOf
  <1>4. Lines(T) = Converted(Lines(tree))
    BY <1>2, <1>3
  <1> QED
    BY <1>4 DEF T

(* The facts are what the tables say.                                       *)
LEMMA FactsAreWhole ==
  ASSUME NEW t, Consistent(t)
  PROVE  Whole(ProcessFacts(t)) /\ DOMAIN ProcessFacts(t) \subseteq Seq(AllKeys(t)) \ {<<>>}
  <1> DEFINE tree == TreeOf(t, 7)
             T == ProcessFacts(t)
  <1>1. T = ConvertListWrapper(tree)
    BY DEF ProcessFacts, TreeOf, WithOSPF
  <1>2. Whole(tree) /\ DOMAIN tree \subseteq Seq(AllKeys(t)) \ {<<>>}
    BY WholeAfter
  <1>3. /\ DOMAIN T = DOMAIN tree
        /\ \A p \in DOMAIN tree : T[p] = Branch <=> tree[p] = Branch
    BY <1>1, ConvIs
  <1> HIDE DEF tree, T
  <1>4. Whole(T)
    BY <1>2, <1>3 DEF Whole
  <1> QED
    BY <1>2, <1>3, <1>4 DEF T

(* The facts say what the seven tables say: no row that a table has, and no *)
(* later row replaces, is lost, and nothing is added.                       *)
LEMMA FactsSayTheTables ==
  ASSUME NEW t, Consistent(t)
  PROVE  Lines(ProcessFacts(t)) = Said(t)
  <1> DEFINE tree == TreeOf(t, 7)
  <1>1. ProcessFacts(t) = ConvertListWrapper(tree)
    BY DEF ProcessFacts, TreeOf, WithOSPF
  <1>2. Lines(ProcessFacts(t)) = Converted(Lines(tree))
    BY <1>1, LinesConverted
  <1>3. \A x : x \in Lines(tree) <=> \E i \in 1..7 : x \in Written(PatchesOf(t, i))
    BY LinesAfter
  <1>4. ASSUME NEW i \in 1..7 PROVE Converted(Written(PatchesOf(t, i))) = SaidBy(t, i)
    <2>1. Table(PatchesOf(t, i), t, i, AllKeys(t))
      BY AllTables
    <2> QED
      BY <2>1, TableSays
  <1> HIDE DEF tree
  <1>5. ASSUME NEW x
        PROVE  x \in Converted(Lines(tree)) <=> \E i \in 1..7 : x \in SaidBy(t, i)
    <2>1. x \in Converted(Lines(tree)) <=> \E w : w \in Lines(tree) /\ x = <<w[1], Conv(w[2])>>
      BY DEF Converted
    <2>2. \A i \in 1..7 : x \in SaidBy(t, i) <=>
             \E w : w \in Written(PatchesOf(t, i)) /\ x = <<w[1], Conv(w[2])>>
      BY <1>4 DEF Converted
    <2> QED
      BY <1>3, <2>1, <2>2
  <1>6. \A x : x \in Said(t) <=> \E i \in 1..7 : x \in SaidBy(t, i)
    BY DEF Said, NumQuestions
  <1> QED
    BY <1>2, <1>5, <1>6

------------------------------------------------------------------------------
(* THE CALLS                                                                *)

Fields == {"phase", "op", "named", "resolved", "asked", "networks", "snapshots", "todo",
           "writing", "loaded", "failures"}
IsCall(r) == r = [f \in Fields |-> r[f]]

(* The history of a call holds what it asked, or is about to ask, about.    *)
InScope(r, n, s) ==
    /\ r.networks \subseteq Networks /\ r.snapshots \subseteq Snapshots
    /\ r.asked \in Seq(Scopes)
    /\ \A i \in DOMAIN r.asked : r.asked[i] \in r.networks \X r.snapshots
    /\ r.resolved \in r.snapshots \cup {None}
    /\ r.phase = "ask" =>
          /\ n \in r.networks
          /\ IF r.named = None THEN s \in r.snapshots ELSE r.named \in r.snapshots

IInv ==
    /\ network \in Networks /\ snapshot \in Snapshots
    /\ DOMAIN call = Callers
    /\ \A c \in Callers : IsCall(call[c]) /\ InScope(call[c], network, snapshot)

(* A call that has asked nothing.                                           *)
LEMMA IdleQuestions ==
  ASSUME NEW r, NEW n, NEW s, r.phase # "ask", r.asked = <<>>, r.resolved = None,
         r.networks = {}, r.snapshots = {}
  PROVE  InScope(r, n, s)
  BY DEF InScope

(* It holds at first.                                                       *)
LEMMA InitIInv == Init => IInv
  <1> SUFFICES ASSUME Init PROVE IInv
    OBVIOUS
  <1>1. DOMAIN call = Callers /\ \A c \in Callers : call[c] = Idle
    BY DEF Init
  <1>2. network \in Networks /\ snapshot \in Snapshots
    BY StartsAssumption DEF Init, Scopes
  <1>3. IsCall(Idle)
    BY DEF IsCall, Fields, Idle
  <1>4. /\ Idle.phase # "ask" /\ Idle.asked = <<>> /\ Idle.resolved = None
        /\ Idle.networks = {} /\ Idle.snapshots = {}
    BY DEF Idle
  <1>5. InScope(Idle, network, snapshot)
    BY <1>4, IdleQuestions
  <1> QED
    BY <1>1, <1>2, <1>3, <1>5 DEF IInv

(* A step of one call that leaves the session alone.                        *)
LEMMA OtherStep ==
  ASSUME IInv, NEW c \in Callers, NEW r, IsCall(r), UNCHANGED session,
         call' = [call EXCEPT ![c] = r],
         InScope(r, network, snapshot)
  PROVE  IInv'
  BY DEF IInv, session

(* A step of the call that asks no question.                                *)
LEMMA SameQuestions ==
  ASSUME NEW n, NEW s, NEW q, NEW r, InScope(q, n, s),
         r.asked = q.asked, r.named = q.named, r.resolved = q.resolved,
         r.networks = q.networks, r.snapshots = q.snapshots,
         r.phase = "ask" => q.phase = "ask"
  PROVE  InScope(r, n, s)
  BY DEF InScope

(* More history, and another network or snapshot of the session.            *)
LEMMA MoreHistory ==
  ASSUME NEW n, NEW s, NEW m \in Networks, NEW u \in Snapshots, NEW q, NEW r,
         InScope(q, n, s),
         r.asked = q.asked, r.named = q.named, r.resolved = q.resolved, r.phase = q.phase,
         q.networks \subseteq r.networks, r.networks \subseteq q.networks \cup {m},
         q.snapshots \subseteq r.snapshots, r.snapshots \subseteq q.snapshots \cup {u},
         r.phase = "ask" => m \in r.networks,
         r.phase = "ask" /\ r.named = None => u \in r.snapshots
  PROVE  InScope(r, m, u)
  <1>1. r.networks \subseteq Networks /\ r.snapshots \subseteq Snapshots
    BY DEF InScope
  <1>2. \A i \in DOMAIN r.asked : r.asked[i] \in r.networks \X r.snapshots
    BY DEF InScope
  <1>3. r.asked \in Seq(Scopes) /\ r.resolved \in r.snapshots \cup {None}
    BY DEF InScope
  <1>4. r.phase = "ask" /\ r.named # None => r.named \in r.snapshots
    BY DEF InScope
  <1> QED
    BY <1>1, <1>2, <1>3, <1>4 DEF InScope

(* Every step of every caller, and of the other users of the session.       *)
LEMMA StepKeeps ==
  ASSUME IInv, [Next]_vars
  PROVE  IInv'
  <1>1. CASE UNCHANGED vars
    BY <1>1 DEF vars, IInv
  <1>2. ASSUME NEW n \in Networks, SetNetwork(n) PROVE IInv'
    <2>1. network' = n /\ snapshot' = snapshot /\ DOMAIN call' = Callers
      BY <1>2 DEF SetNetwork
    <2>2. ASSUME NEW c \in Callers PROVE IsCall(call'[c]) /\ InScope(call'[c], n, snapshot)
      <3> DEFINE q == call[c]
                 r == call'[c]
      <3>1. IsCall(q) /\ InScope(q, network, snapshot) /\ snapshot \in Snapshots
        BY DEF IInv
      <3>2. r = [q EXCEPT !.networks = IF q.phase = "ask" THEN @ \cup {n} ELSE @]
        BY <1>2 DEF SetNetwork, Asking
      <3>3. /\ r.asked = q.asked /\ r.named = q.named /\ r.phase = q.phase
            /\ r.resolved = q.resolved /\ r.snapshots = q.snapshots
            /\ r.networks = IF q.phase = "ask" THEN q.networks \cup {n} ELSE q.networks
        BY <3>1, <3>2 DEF IsCall, Fields
      <3>4. IsCall(r)
        BY <3>1, <3>2 DEF IsCall, Fields
      <3>5. r.phase = "ask" /\ r.named = None => snapshot \in r.snapshots
        BY <3>1, <3>3 DEF InScope
      <3> HIDE DEF q, r
      <3>6. InScope(r, n, snapshot)
        BY <3>1, <3>3, <3>5, MoreHistory
      <3> QED
        BY <3>4, <3>6 DEF r
    <2> QED
      BY <2>1, <2>2 DEF IInv
  <1>3. ASSUME NEW s \in Snapshots, SetSnapshot(s) PROVE IInv'
    <2>1. network' = network /\ snapshot' = s /\ DOMAIN call' = Callers
      BY <1>3 DEF SetSnapshot
    <2>2. ASSUME NEW c \in Callers PROVE IsCall(call'[c]) /\ InScope(call'[c], network, s)
      <3> DEFINE q == call[c]
                 r == call'[c]
      <3>1. IsCall(q) /\ InScope(q, network, snapshot) /\ network \in Networks
        BY DEF IInv
      <3>2. r = [q EXCEPT !.snapshots =
                    IF q.phase = "ask" /\ q.named = None THEN @ \cup {s} ELSE @]
        BY <1>3 DEF SetSnapshot, Asking
      <3>3. /\ r.asked = q.asked /\ r.named = q.named /\ r.phase = q.phase
            /\ r.resolved = q.resolved /\ r.networks = q.networks
            /\ r.snapshots = IF q.phase = "ask" /\ q.named = None
                             THEN q.snapshots \cup {s} ELSE q.snapshots
        BY <3>1, <3>2 DEF IsCall, Fields
      <3>4. IsCall(r)
        BY <3>1, <3>2 DEF IsCall, Fields
      <3>5. r.phase = "ask" => network \in r.networks
        BY <3>1, <3>3 DEF InScope
      <3> HIDE DEF q, r
      <3>6. InScope(r, network, s)
        BY <3>1, <3>3, <3>5, MoreHistory
      <3> QED
        BY <3>4, <3>6 DEF r
    <2> QED
      BY <2>1, <2>2 DEF IInv
  <1>4. ASSUME NEW c \in Callers, NEW k \in Calls[c], Begin(c, k.op, k.named)
        PROVE  IInv'
    <2> DEFINE t == IF k.named = None THEN snapshot ELSE k.named
               r == [Idle EXCEPT !.phase = "ask", !.op = k.op, !.named = k.named,
                                 !.networks = {network}, !.snapshots = {t}]
    <2>1. k.named \in Snapshots \cup {None} /\ network \in Networks /\ snapshot \in Snapshots
      BY CallsAssumption DEF CallType, IInv
    <2>2. IsCall(r)
      BY DEF IsCall, Fields, Idle
    <2>3. /\ r.phase = "ask" /\ r.asked = <<>> /\ r.resolved = None /\ r.named = k.named
          /\ r.networks = {network} /\ r.snapshots = {t} /\ t \in Snapshots
      BY <2>1 DEF Idle
    <2>4. k.named # None => t = k.named
      OBVIOUS
    <2>5. k.named = None => t = snapshot
      OBVIOUS
    <2>6. call' = [call EXCEPT ![c] = r] /\ UNCHANGED session
      BY <1>4 DEF Begin
    <2> HIDE DEF r, t
    <2>7. InScope(r, network, snapshot)
      BY <2>1, <2>3, <2>4, <2>5 DEF InScope
    <2> QED
      BY <2>2, <2>6, <2>7, OtherStep
  <1>5. ASSUME NEW c \in Callers, GetSnapshot(c) PROVE IInv'
    <2> DEFINE q == call[c]
               r == [q EXCEPT !.resolved = snapshot]
    <2>1. IsCall(q) /\ InScope(q, network, snapshot)
      BY DEF IInv
    <2>2. /\ r.asked = q.asked /\ r.named = q.named /\ r.phase = q.phase
          /\ r.networks = q.networks /\ r.snapshots = q.snapshots /\ r.resolved = snapshot
          /\ q.phase = "ask" /\ q.named = None /\ IsCall(r)
      BY <1>5, <2>1 DEF GetSnapshot, CanAsk, Asking, IsCall, Fields
    <2>3. call' = [call EXCEPT ![c] = r] /\ UNCHANGED session
      BY <1>5 DEF GetSnapshot
    <2> HIDE DEF q, r
    <2>4. InScope(r, network, snapshot)
      BY <2>1, <2>2 DEF InScope
    <2> QED
      BY <2>2, <2>3, <2>4, OtherStep
  <1>6. ASSUME NEW c \in Callers, Ask(c) PROVE IInv'
    <2> DEFINE q == call[c]
               t == AskedSnapshot(c)
               r == [q EXCEPT !.asked = Append(@, <<network, t>>), !.resolved = None]
    <2>1. IsCall(q) /\ InScope(q, network, snapshot)
      BY DEF IInv
    <2>2. /\ r.asked = Append(q.asked, <<network, t>>) /\ r.named = q.named
          /\ r.phase = q.phase /\ r.networks = q.networks /\ r.snapshots = q.snapshots
          /\ r.resolved = None /\ q.phase = "ask" /\ IsCall(r)
      BY <1>6, <2>1 DEF Ask, CanAsk, Asking, IsCall, Fields
    <2>3. call' = [call EXCEPT ![c] = r] /\ UNCHANGED session
      BY <1>6 DEF Ask
    <2>4. t # None /\ t = IF q.named = None THEN q.resolved ELSE q.named
      BY <1>6 DEF Ask, AskedSnapshot
    <2> HIDE DEF q, r, t
    <2>5. t \in q.snapshots /\ network \in q.networks
      BY <2>1, <2>2, <2>4 DEF InScope
    <2>6. <<network, t>> \in Scopes /\ q.asked \in Seq(Scopes)
      BY <2>1, <2>5 DEF InScope, Scopes
    <2>7. r.asked \in Seq(Scopes)
      BY <2>2, <2>6
    <2>8. \A i \in DOMAIN r.asked : r.asked[i] \in r.networks \X r.snapshots
      <3> SUFFICES ASSUME NEW i \in DOMAIN r.asked
                   PROVE  r.asked[i] \in q.networks \X q.snapshots
        BY <2>2
      <3>1. DOMAIN q.asked = 1..Len(q.asked) /\ DOMAIN r.asked = 1..(Len(q.asked) + 1)
        BY <2>2, <2>6
      <3>2. CASE i \in DOMAIN q.asked
        <4>1. r.asked[i] = q.asked[i]
          BY <2>2, <2>6, <3>1, <3>2
        <4> QED
          BY <2>1, <3>2, <4>1 DEF InScope
      <3>3. CASE i = Len(q.asked) + 1
        <4>1. r.asked[i] = <<network, t>>
          BY <2>2, <2>6, <3>1, <3>3
        <4> QED
          BY <2>5, <4>1
      <3> QED
        BY <2>6, <3>1, <3>2, <3>3
    <2>9. InScope(r, network, snapshot)
      BY <2>1, <2>2, <2>7, <2>8 DEF InScope
    <2> QED
      BY <2>2, <2>3, <2>9, OtherStep
  <1>7. ASSUME NEW c \in Callers, NEW r, UNCHANGED session, IsCall(r),
               call' = [call EXCEPT ![c] = r],
               r.asked = call[c].asked, r.named = call[c].named,
               r.resolved = call[c].resolved, r.networks = call[c].networks,
               r.snapshots = call[c].snapshots, r.phase = "ask" => call[c].phase = "ask"
        PROVE  IInv'
    <2>1. InScope(call[c], network, snapshot)
      BY DEF IInv
    <2>2. InScope(r, network, snapshot)
      BY <1>7, <2>1, SameQuestions
    <2> QED
      BY <1>7, <2>2, OtherStep
  <1>8. ASSUME NEW c \in Callers, UNCHANGED session, call' = [call EXCEPT ![c] = Failed]
        PROVE  IInv'
    <2>1. IsCall(Failed)
      BY DEF IsCall, Fields, Failed, Idle
    <2>2. /\ Failed.phase # "ask" /\ Failed.asked = <<>> /\ Failed.resolved = None
          /\ Failed.networks = {} /\ Failed.snapshots = {}
      BY DEF Failed, Idle
    <2>3. InScope(Failed, network, snapshot)
      BY <2>2, IdleQuestions
    <2> QED
      BY <1>8, <2>1, <2>3, OtherStep
  <1>9. ASSUME NEW c \in Callers PROVE IsCall(call[c])
    BY DEF IInv
  <1>10. ASSUME NEW c \in Callers, NEW phase, NEW todo, phase # "ask", UNCHANGED session,
                call' = [call EXCEPT ![c] = [@ EXCEPT !.phase = phase, !.todo = todo]]
         PROVE  IInv'
    <2> DEFINE r == [call[c] EXCEPT !.phase = phase, !.todo = todo]
    <2>1. IsCall(r)
      BY <1>9 DEF IsCall, Fields
    <2> QED
      BY <1>7, <1>9, <1>10, <2>1 DEF IsCall, Fields
  <1>11. ASSUME NEW c \in Callers, Panic(c) PROVE IInv'
    <2> DEFINE r == [call[c] EXCEPT !.phase = "panic"]
    <2>1. IsCall(r) /\ call' = [call EXCEPT ![c] = r] /\ UNCHANGED session
      BY <1>9, <1>11 DEF Panic, IsCall, Fields
    <2> QED
      BY <1>7, <1>9, <2>1 DEF IsCall, Fields
  <1>12. ASSUME NEW c \in Callers, GetFacts(c) PROVE IInv'
    <2>1. \/ UNCHANGED session /\ call' = [call EXCEPT ![c] = Failed]
          \/ \E phase, todo :
                /\ phase # "ask" /\ UNCHANGED session
                /\ call' = [call EXCEPT ![c] = [@ EXCEPT !.phase = phase, !.todo = todo]]
      BY <1>12 DEF GetFacts
    <2> QED
      BY <2>1, <1>8, <1>10
  <1>13. ASSUME NEW c \in Callers, NEW n, Truncate(c, n) PROVE IInv'
    <2> DEFINE r == [call[c] EXCEPT !.writing = n]
    <2>1. IsCall(r) /\ call' = [call EXCEPT ![c] = r] /\ UNCHANGED session
      BY <1>9, <1>13 DEF Truncate, IsCall, Fields
    <2> QED
      BY <1>7, <1>9, <1>13, <2>1 DEF Truncate, IsCall, Fields
  <1>14. ASSUME NEW c \in Callers, Fill(c) PROVE IInv'
    <2> DEFINE r == [call[c] EXCEPT !.writing = None, !.todo = @ \ {call[c].writing}]
    <2>1. IsCall(r) /\ call' = [call EXCEPT ![c] = r] /\ UNCHANGED session
      BY <1>9, <1>14 DEF Fill, IsCall, Fields
    <2> QED
      BY <1>7, <1>9, <1>14, <2>1 DEF Fill, IsCall, Fields
  <1>15. ASSUME NEW c \in Callers, WriteFacts(c) PROVE IInv'
    <2> DEFINE r == [call[c] EXCEPT !.phase = "done"]
    <2>1. IsCall(r) /\ call' = [call EXCEPT ![c] = r] /\ UNCHANGED session
      BY <1>9, <1>15 DEF WriteFacts, IsCall, Fields
    <2> QED
      BY <1>7, <1>9, <1>15, <2>1 DEF WriteFacts, IsCall, Fields
  <1>16. ASSUME NEW c \in Callers, ListFiles(c) PROVE IInv'
    <2>1. \/ UNCHANGED session /\ call' = [call EXCEPT ![c] = Failed]
          \/ \E phase, todo :
                /\ phase # "ask" /\ UNCHANGED session
                /\ call' = [call EXCEPT ![c] = [@ EXCEPT !.phase = phase, !.todo = todo]]
      BY <1>16 DEF ListFiles
    <2> QED
      BY <2>1, <1>8, <1>10
  <1>17. ASSUME NEW c \in Callers, ReadFile(c) PROVE IInv'
    <2> DEFINE name == NextFile(call[c].todo)
               file == directory.files[name]
               read == File(Yaml(file.nodes), file.version)
               r == [call[c] EXCEPT !.todo = @ \ {name}, !.loaded = Merged(@, read)]
    <2>1. CASE call' = [call EXCEPT ![c] = Failed]
      BY <1>17, <2>1, <1>8 DEF ReadFile
    <2>2. CASE call' = [call EXCEPT ![c] = r]
      <3>1. IsCall(r) /\ UNCHANGED session
        BY <1>9, <1>17 DEF ReadFile, IsCall, Fields
      <3> QED
        BY <1>7, <1>9, <1>17, <2>2, <3>1 DEF ReadFile, IsCall, Fields
    <2> QED
      BY <1>17, <2>1, <2>2 DEF ReadFile
  <1>18. ASSUME NEW c \in Callers, Validate(c) PROVE IInv'
    <2> DEFINE r == [call[c] EXCEPT !.phase = "done", !.failures = ValidateFacts(call[c].loaded, FactsOf(c))]
    <2>1. IsCall(r) /\ call' = [call EXCEPT ![c] = r] /\ UNCHANGED session
      BY <1>9, <1>18 DEF Validate, IsCall, Fields
    <2> QED
      BY <1>7, <1>9, <1>18, <2>1 DEF Validate, IsCall, Fields
  <1>19. ASSUME NEW c \in Callers, AskFails(c) \/ WriteFails(c) PROVE IInv'
    BY <1>19, <1>8 DEF AskFails, WriteFails
  <1> QED
    BY <1>1, <1>2, <1>3, <1>4, <1>5, <1>6, <1>11, <1>12, <1>13, <1>14, <1>15, <1>16, <1>17,
       <1>18, <1>19 DEF Next

(* The inductive invariant: what a call asked about is in its history, and  *)
(* while it asks, so is what the session has now.                           *)
THEOREM FactsInvariant == Spec => []IInv
  BY InitIInv, StepKeeps, PTL DEF Spec

(* What has been settled about a call: its questions are answered before    *)
(* anything is made of them, and what came of it.                           *)
Outcome(r) ==
    /\ r.phase \in Settled \cup {"panic"} => Len(r.asked) = NumQuestions
    /\ r.phase = "panic" => Panics(TablesOf(r.asked))
    /\ r.phase \in Settled => ~Panics(TablesOf(r.asked))
    /\ r.phase = "write" => r.op = "extract"
    /\ r.phase = "done" /\ r.op = "validate" =>
          r.failures = ValidateFacts(r.loaded, ProcessFacts(TablesOf(r.asked)))
Outcomes == \A c \in Callers : Outcome(call[c])

(* What is settled about the other calls stays.                             *)
LEMMA OtherOutcome ==
  ASSUME IInv, Outcomes, NEW c \in Callers, NEW r, call' = [call EXCEPT ![c] = r], Outcome(r)
  PROVE  Outcomes'
  BY DEF IInv, Outcomes

(* A step of a call that makes nothing of the answers.                      *)
LEMMA SameOutcome ==
  ASSUME NEW q, NEW r, Outcome(q), r.asked = q.asked, r.op = q.op, r.phase = q.phase,
         r.phase # "done"
  PROVE  Outcome(r)
  BY DEF Outcome

(* Of a call that is still asking nothing is settled.                       *)
LEMMA NoOutcome ==
  ASSUME NEW r, r.phase \in {"idle", "ask", "error"}
  PROVE  Outcome(r)
  BY DEF Outcome, Settled

(* Every step settles no more than what the code computed.                  *)
LEMMA OutcomesStep ==
  ASSUME IInv, Outcomes, [Next]_vars
  PROVE  Outcomes'
  <1>1. CASE UNCHANGED vars
    BY <1>1 DEF vars, Outcomes
  <1>2. ASSUME NEW c \in Callers PROVE IsCall(call[c]) /\ Outcome(call[c])
    BY DEF IInv, Outcomes
  <1>3. ASSUME (\E n \in Networks : SetNetwork(n)) \/ (\E s \in Snapshots : SetSnapshot(s))
        PROVE  Outcomes'
    <2>1. ASSUME NEW c \in Callers PROVE Outcome(call'[c])
      <3> DEFINE q == call[c]
                 r == call'[c]
      <3>1. IsCall(q) /\ Outcome(q)
        BY <1>2
      <3>2. \E x : r = [q EXCEPT !.networks = x] \/ r = [q EXCEPT !.snapshots = x]
        BY <1>3 DEF SetNetwork, SetSnapshot
      <3>3. /\ r.asked = q.asked /\ r.op = q.op /\ r.phase = q.phase
            /\ r.failures = q.failures /\ r.loaded = q.loaded
        BY <3>1, <3>2 DEF IsCall, Fields
      <3> HIDE DEF q, r
      <3>4. Outcome(r)
        BY <3>1, <3>3 DEF Outcome
      <3> QED
        BY <3>4 DEF r
    <2> QED
      BY <2>1 DEF Outcomes
  <1>4. ASSUME NEW c \in Callers, NEW k \in Calls[c], Begin(c, k.op, k.named)
        PROVE  Outcomes'
    <2> DEFINE r == [Idle EXCEPT !.phase = "ask", !.op = k.op, !.named = k.named,
                        !.networks = {network},
                        !.snapshots = {IF k.named = None THEN snapshot ELSE k.named}]
    <2>1. r.phase = "ask"
      BY DEF Idle
    <2> HIDE DEF r
    <2>2. Outcome(r)
      BY <2>1, NoOutcome
    <2> QED
      BY <1>4, <2>2, OtherOutcome DEF Begin, r
  <1>5. ASSUME NEW c \in Callers, Ask(c) PROVE Outcomes'
    <2> DEFINE r == [call[c] EXCEPT !.asked = Append(@, <<network, AskedSnapshot(c)>>),
                                    !.resolved = None]
    <2>1. r.phase = "ask"
      BY <1>2, <1>5 DEF Ask, CanAsk, Asking, IsCall, Fields
    <2> HIDE DEF r
    <2>2. Outcome(r)
      BY <2>1, NoOutcome
    <2> QED
      BY <1>5, <2>2, OtherOutcome DEF Ask, r
  <1>16. ASSUME NEW c \in Callers, GetSnapshot(c) PROVE Outcomes'
    <2> DEFINE r == [call[c] EXCEPT !.resolved = snapshot]
    <2>1. r.phase = "ask"
      BY <1>2, <1>16 DEF GetSnapshot, CanAsk, Asking, IsCall, Fields
    <2> HIDE DEF r
    <2>2. Outcome(r)
      BY <2>1, NoOutcome
    <2> QED
      BY <1>16, <2>2, OtherOutcome DEF GetSnapshot, r
  <1>6. ASSUME NEW c \in Callers, call' = [call EXCEPT ![c] = Failed] PROVE Outcomes'
    <2>1. Failed.phase = "error"
      BY DEF Failed, Idle
    <2>2. Outcome(Failed)
      BY <2>1, NoOutcome
    <2> QED
      BY <1>6, <2>2, OtherOutcome
  <1>7. ASSUME NEW c \in Callers, Panic(c) PROVE Outcomes'
    <2> DEFINE r == [call[c] EXCEPT !.phase = "panic"]
    <2>1. /\ r.phase = "panic" /\ r.asked = call[c].asked
          /\ Len(call[c].asked) = NumQuestions /\ Panics(TablesOf(call[c].asked))
      BY <1>2, <1>7 DEF Panic, Asked, IsCall, Fields
    <2> HIDE DEF r
    <2>2. Outcome(r)
      BY <2>1 DEF Outcome, Settled
    <2> QED
      BY <1>7, <2>2, OtherOutcome DEF Panic, r
  <1>8. ASSUME NEW c \in Callers, GetFacts(c) PROVE Outcomes'
    <2> DEFINE phase == CASE call[c].op = "extract" -> "write"
                          [] call[c].op = "validate" -> "list"
                          [] OTHER -> "done"
               nodes == IF call[c].op = "extract" THEN Nodes(FactsOf(c)) ELSE {}
               r == [call[c] EXCEPT !.phase = phase, !.todo = nodes]
    <2>1. \/ call' = [call EXCEPT ![c] = Failed]
          \/ call' = [call EXCEPT ![c] = r]
      BY <1>8 DEF GetFacts
    <2>2. Len(call[c].asked) = NumQuestions /\ ~Panics(TablesOf(call[c].asked))
      BY <1>8 DEF GetFacts, Asked
    <2>3. /\ phase \in Settled
          /\ phase = "write" => call[c].op = "extract"
          /\ phase = "done" => call[c].op # "validate"
      BY DEF Settled
    <2> HIDE DEF phase, nodes
    <2>4. r.phase = phase /\ r.op = call[c].op /\ r.asked = call[c].asked
      BY <1>2 DEF IsCall, Fields
    <2> HIDE DEF r
    <2>5. Outcome(r)
      BY <2>2, <2>3, <2>4 DEF Outcome, Settled
    <2> QED
      BY <1>6, <2>1, <2>5, OtherOutcome
  <1>9. ASSUME NEW c \in Callers, NEW n, Truncate(c, n) PROVE Outcomes'
    <2> DEFINE r == [call[c] EXCEPT !.writing = n]
    <2>1. /\ call' = [call EXCEPT ![c] = r] /\ r.phase = "write" /\ r.phase = call[c].phase
          /\ r.op = call[c].op /\ r.asked = call[c].asked
      BY <1>2, <1>9 DEF Truncate, IsCall, Fields
    <2> HIDE DEF r
    <2>2. Outcome(r)
      BY <1>2, <2>1, SameOutcome
    <2> QED
      BY <2>1, <2>2, OtherOutcome
  <1>10. ASSUME NEW c \in Callers, Fill(c) PROVE Outcomes'
    <2> DEFINE r == [call[c] EXCEPT !.writing = None, !.todo = @ \ {call[c].writing}]
    <2>1. /\ call' = [call EXCEPT ![c] = r] /\ r.phase = "write" /\ r.phase = call[c].phase
          /\ r.op = call[c].op /\ r.asked = call[c].asked
      BY <1>2, <1>10 DEF Fill, IsCall, Fields
    <2> HIDE DEF r
    <2>2. Outcome(r)
      BY <1>2, <2>1, SameOutcome
    <2> QED
      BY <2>1, <2>2, OtherOutcome
  <1>11. ASSUME NEW c \in Callers, WriteFacts(c) PROVE Outcomes'
    <2> DEFINE q == call[c]
               r == [q EXCEPT !.phase = "done"]
    <2>1. /\ call' = [call EXCEPT ![c] = r] /\ r.phase = "done" /\ q.phase = "write"
          /\ r.op = q.op /\ r.asked = q.asked /\ Outcome(q)
      BY <1>2, <1>11 DEF WriteFacts, IsCall, Fields
    <2> HIDE DEF q, r
    <2>2. Outcome(r)
      BY <2>1 DEF Outcome, Settled
    <2> QED
      BY <2>1, <2>2, OtherOutcome
  <1>12. ASSUME NEW c \in Callers, ListFiles(c) PROVE Outcomes'
    <2> DEFINE names == IF IsDirectory THEN DOMAIN directory.files ELSE {}
               q == call[c]
               r == [q EXCEPT !.phase = "read", !.todo = names]
    <2>1. \/ call' = [call EXCEPT ![c] = Failed]
          \/ call' = [call EXCEPT ![c] = r]
      BY <1>12 DEF ListFiles
    <2>2. /\ q.phase = "list" /\ r.phase = "read" /\ r.op = q.op /\ r.asked = q.asked
          /\ Outcome(q)
      BY <1>2, <1>12 DEF ListFiles, IsCall, Fields
    <2> HIDE DEF q, r
    <2>3. Outcome(r)
      BY <2>2 DEF Outcome, Settled
    <2> QED
      BY <1>6, <2>1, <2>3, OtherOutcome
  <1>13. ASSUME NEW c \in Callers, ReadFile(c) PROVE Outcomes'
    <2> DEFINE name == NextFile(call[c].todo)
               file == directory.files[name]
               read == File(Yaml(file.nodes), file.version)
               q == call[c]
               r == [q EXCEPT !.todo = @ \ {name}, !.loaded = Merged(@, read)]
    <2>1. \/ call' = [call EXCEPT ![c] = Failed]
          \/ call' = [call EXCEPT ![c] = r]
      BY <1>13 DEF ReadFile
    <2> HIDE DEF name, file, read
    <2>2. /\ q.phase = "read" /\ r.phase = q.phase /\ r.op = q.op /\ r.asked = q.asked
          /\ Outcome(q)
      BY <1>2, <1>13 DEF ReadFile, IsCall, Fields
    <2> HIDE DEF q, r
    <2>3. Outcome(r)
      BY <2>2, SameOutcome
    <2> QED
      BY <1>6, <2>1, <2>3, OtherOutcome
  <1>14. ASSUME NEW c \in Callers, Validate(c) PROVE Outcomes'
    <2> DEFINE q == call[c]
               f == ValidateFacts(q.loaded, FactsOf(c))
               r == [q EXCEPT !.phase = "done", !.failures = f]
    <2>1. call' = [call EXCEPT ![c] = r] /\ q.phase = "read"
      BY <1>14 DEF Validate
    <2>2. f = ValidateFacts(q.loaded, ProcessFacts(TablesOf(q.asked)))
      BY DEF FactsOf
    <2> HIDE DEF f
    <2>3. /\ r.phase = "done" /\ r.op = q.op /\ r.asked = q.asked /\ r.loaded = q.loaded
          /\ r.failures = f /\ Outcome(q)
      BY <1>2 DEF IsCall, Fields
    <2> HIDE DEF q, r
    <2>4. Outcome(r)
      BY <2>1, <2>2, <2>3 DEF Outcome, Settled
    <2> QED
      BY <2>1, <2>4, OtherOutcome
  <1>15. ASSUME NEW c \in Callers, AskFails(c) \/ WriteFails(c) PROVE Outcomes'
    BY <1>15, <1>6 DEF AskFails, WriteFails
  <1> QED
    BY <1>1, <1>3, <1>4, <1>5, <1>7, <1>8, <1>9, <1>10, <1>11, <1>12, <1>13, <1>14, <1>15,
       <1>16 DEF Next

(* GetFacts and ValidateFacts panic exactly for answers that panic them,    *)
(* and what they return is made of the answers to the questions that were   *)
(* asked.                                                                   *)
THEOREM FactsOutcomes == Spec => []Outcomes
  <1>1. Init => Outcomes
    <2>1. Idle.phase = "idle"
      BY DEF Idle
    <2>2. Outcome(Idle)
      BY <2>1, NoOutcome
    <2> QED
      BY <2>2 DEF Init, Outcomes
  <1>2. IInv /\ Outcomes /\ [Next]_vars => Outcomes'
    BY OutcomesStep
  <1> QED
    BY <1>1, <1>2, FactsInvariant, PTL DEF Spec

(* The tables of a call that has asked all its questions.                   *)
LEMMA AskedTables ==
  ASSUME NEW asked \in Seq(Scopes), Len(asked) = NumQuestions
  PROVE  Consistent(TablesOf(asked))
  <1>1. \A i \in 1..7 : TablesOf(asked)[i] = Tables[asked[i]][i] /\ asked[i] \in Scopes
    <2> TAKE i \in 1..7
    <2>1. i \in 1..Len(asked)
      BY DEF NumQuestions
    <2>2. asked[i] \in Scopes
      BY <2>1, ElementOfSeq
    <2> QED
      BY <2>1, <2>2 DEF TablesOf
  <1>2. \A i \in 1..7 : \A scope \in Scopes : WellFormed(i, Tables[scope][i])
    BY TablesAssumption DEF NumQuestions
  <1> QED
    BY <1>1, <1>2 DEF Consistent

LEMMA SnapshotTables ==
  ASSUME NEW scope \in Scopes
  PROVE  Consistent(Tables[scope])
  BY TablesAssumption DEF Consistent, NumQuestions

(* What a call says that has asked all its questions, and when it panics.   *)
LEMMA AskedFacts ==
  ASSUME IInv, Outcomes, NEW c \in Callers
  PROVE  LET t == TablesOf(call[c].asked)
         IN  /\ call[c].phase = "panic" => Orphan(t)
             /\ call[c].phase \in Settled => ~Orphan(t) /\ FactLines(c) = Said(t)
  <1> DEFINE q == call[c]
             t == TablesOf(q.asked)
  <1>1. InScope(q, network, snapshot) /\ Outcome(q)
    BY DEF IInv, Outcomes
  <1>2. q.asked \in Seq(Scopes)
    BY <1>1 DEF InScope
  <1>3. FactLines(c) = Lines(ProcessFacts(t))
    BY DEF FactLines, FactsOf, Lines
  <1> HIDE DEF q
  <1>4. ASSUME q.phase = "panic" PROVE Orphan(t)
    <2>1. Len(q.asked) = NumQuestions /\ Panics(t)
      BY <1>1, <1>4 DEF Outcome
    <2> QED
      BY <1>2, <2>1, AskedTables, PanicsForOrphans
  <1>5. ASSUME q.phase \in Settled PROVE ~Orphan(t) /\ Lines(ProcessFacts(t)) = Said(t)
    <2>1. Len(q.asked) = NumQuestions /\ ~Panics(t)
      BY <1>1, <1>5 DEF Outcome
    <2> QED
      BY <1>2, <2>1, AskedTables, PanicsForOrphans, FactsSayTheTables
  <1> QED
    BY <1>3, <1>4, <1>5 DEF q

(* Of the rows of each of the seven tables that have one key, which are     *)
(* those of the node's processes in all VRFs for BGP, the facts of a call   *)
(* that finished have the last, every cell at its path, and nothing else;   *)
(* and a call panics exactly for rows whose node or process no table lists. *)
THEOREM LastRowsHeld == Spec => []FactsHoldLastRows
  <1>1. IInv /\ Outcomes => FactsHoldLastRows
    BY AskedFacts DEF FactsHoldLastRows
  <1> QED
    BY <1>1, FactsInvariant, FactsOutcomes, PTL

(* The tables of a call whose questions were all about one scope.           *)
LEMMA OneScope ==
  ASSUME NEW asked \in Seq(Scopes), Len(asked) = NumQuestions, NEW scope \in Scopes,
         \A i \in DOMAIN asked : asked[i] = scope
  PROVE  /\ Orphan(TablesOf(asked)) <=> Orphan(Tables[scope])
         /\ Said(TablesOf(asked)) = Said(Tables[scope])
  <1> DEFINE t == TablesOf(asked)
             u == Tables[scope]
  <1>1. \A i \in 1..7 : t[i] = u[i]
    BY DEF TablesOf, NumQuestions
  <1> HIDE DEF t, u
  <1>2. t[1] = u[1] /\ t[3] = u[3] /\ t[4] = u[4]
    BY <1>1
  <1>3. \A node : Listed(t, node) <=> Listed(u, node)
    BY <1>2 DEF Listed
  <1>4. Orphan(t) <=> Orphan(u)
    BY <1>2, <1>3 DEF Orphan
  <1>5. \A i, row : Counts(t, i, row) <=> Counts(u, i, row)
    BY <1>3 DEF Counts
  <1>6. ASSUME NEW i \in 1..7 PROVE SaidBy(t, i) = SaidBy(u, i)
    <2>1. t[i] = u[i]
      BY <1>1
    <2>2. \A k : Superseded(t, i, k) <=> Superseded(u, i, k)
      BY <1>5, <2>1 DEF Superseded
    <2>3. ASSUME NEW x
          PROVE  x \in SaidBy(t, i) <=> x \in SaidBy(u, i)
      <3> DEFINE Standing(v) == {j \in DOMAIN v[i] : Counts(v, i, v[i][j]) /\ ~Superseded(v, i, j)}
                 Says(rows, k) == {<<Key(i, rows[k]) \o place[2], Shown(i, Lookup(rows[k], place[1]))>> :
                                      place \in Places(i, rows[k])}
      <3>1. x \in SaidBy(t, i) <=> \E k \in Standing(t) : x \in Says(t[i], k)
        BY DEF SaidBy
      <3>2. x \in SaidBy(u, i) <=> \E k \in Standing(u) : x \in Says(u[i], k)
        BY DEF SaidBy
      <3>3. Standing(t) = Standing(u)
        BY <1>5, <2>1, <2>2
      <3> HIDE DEF Says, Standing
      <3> QED
        BY <2>1, <3>1, <3>2, <3>3
    <2> QED
      BY <2>3
  <1>7. Said(t) = Said(u)
    BY <1>6 DEF Said, NumQuestions
  <1> QED
    BY <1>4, <1>7 DEF t, u

(* A call whose session kept its network, and its snapshot where the call   *)
(* names none, tells the tables of that one snapshot of that one network,   *)
(* and panics only for their orphans; any other call tells what the session *)
(* had while the call asked.                                                *)
THEOREM OneSnapshotEach == Spec => []FactsAreOfOneSnapshot
  <1>1. ASSUME IInv, Outcomes PROVE FactsAreOfOneSnapshot
    <2>1. ASSUME NEW c \in Callers
          PROVE  \A i \in DOMAIN call[c].asked : call[c].asked[i] \in ScopesOf(c)
      BY <1>1 DEF IInv, InScope, ScopesOf
    <2>2. ASSUME NEW c \in Callers, NEW scope \in Scopes, ScopesOf(c) = {scope}
          PROVE  /\ call[c].phase = "panic" => Orphan(Tables[scope])
                 /\ call[c].phase \in Settled =>
                       ~Orphan(Tables[scope]) /\ FactLines(c) = Said(Tables[scope])
      <3> DEFINE asked == call[c].asked
      <3>1. /\ asked \in Seq(Scopes)
            /\ call[c].phase \in Settled \cup {"panic"} => Len(asked) = NumQuestions
        BY <1>1 DEF IInv, InScope, Outcomes, Outcome
      <3>2. \A i \in DOMAIN asked : asked[i] = scope
        BY <2>1, <2>2
      <3>3. /\ call[c].phase = "panic" => Orphan(TablesOf(asked))
            /\ call[c].phase \in Settled =>
                  ~Orphan(TablesOf(asked)) /\ FactLines(c) = Said(TablesOf(asked))
        BY <1>1, AskedFacts
      <3> HIDE DEF asked
      <3>4. call[c].phase \in Settled \cup {"panic"} =>
               /\ Orphan(TablesOf(asked)) <=> Orphan(Tables[scope])
               /\ Said(TablesOf(asked)) = Said(Tables[scope])
        BY <3>1, <3>2, OneScope
      <3> QED
        BY <3>3, <3>4
    <2> QED
      BY <2>1, <2>2 DEF FactsAreOfOneSnapshot
  <1> QED
    BY <1>1, FactsInvariant, FactsOutcomes, PTL

------------------------------------------------------------------------------
(* THE SHAPE OF THE FACTS                                                   *)

(* Where the facts of a node are maps, whatever the tables.                 *)
MapAt(q) ==
  \/ Len(q) = 1
  \/ Len(q) = 2 /\ q[2] \in Headings
  \/ Len(q) \in 2..3 /\ q[2] = "Interfaces"
  \/ Len(q) = 2 /\ q[2] = "BGP"
  \/ Len(q) \in 3..4 /\ q[2] = "BGP" /\ q[3] = "Neighbors"
  \/ Len(q) \in 2..4 /\ q[2] = "OSPF"
  \/ Len(q) \in 5..6 /\ q[2] = "OSPF" /\ q[5] = "Areas"
  \/ Len(q) \in 7..8 /\ q[2] = "OSPF" /\ q[5] = "Areas" /\ q[7] = "Interfaces"

(* No heading has the name of a map that a table makes beside it.           *)
LEMMA HeadingNames == \A x \in {"Interfaces", "BGP", "OSPF"} : x \notin Headings
  BY DEF Headings, NodePropertiesReorg

(* The maps among the cells of a row.                                       *)
LEMMA MapCells ==
  ASSUME NEW t, Consistent(t), NEW i \in 1..7, NEW k \in DOMAIN t[i],
         NEW c \in DOMAIN RowPatch(t, i, t[i][k]).cells,
         RowPatch(t, i, t[i][k]).on,
         RowPatch(t, i, t[i][k]).cells[c] = Branch
  PROVE  \/ i = 3 /\ c = <<"Neighbors">>
         \/ i = 1 /\ \E x : /\ <<x, Heading(x)>> \in Places(1, t[i][k])
                            /\ Heading(x) = <<Reorg[x], x>> /\ c = <<Reorg[x]>>
                            /\ Reorg[x] \in Headings
  <1> DEFINE row == t[i][k]
             patch == RowPatch(t, i, row)
  <1>1. \A x : Lookup(row, x) # Branch
    <2>1. WellFormed(i, t[i])
      BY DEF Consistent
    <2> QED
      BY <2>1, NoCellIsMap
  <1>2. ASSUME NEW columns, patch.cells = Cells(row, columns) PROVE FALSE
    <2>1. /\ DOMAIN Cells(row, columns) = {<<d>> : d \in columns}
          /\ \A d \in columns : Cells(row, columns)[<<d>>] = Lookup(row, d)
      BY CellsAre
    <2> HIDE DEF row
    <2> QED
      BY <1>1, <1>2, <2>1 DEF row
  <1>3. CASE i = 1
    <2> DEFINE columns == DOMAIN row \ {"Node", "Interfaces"}
               record == Cells(row, columns)
               old == [p \in DOMAIN record |-> WithoutConstructed(record[p])]
    <2>1. patch.cells = ReorgDict(old)
      BY <1>3 DEF RowPatch, NodePatch, Patch, Record
    <2>2. Places(1, row) = {<<x, Heading(x)>> : x \in columns}
      BY DEF Places
    <2>3. columns \cap Headings = {}
      BY <1>3 DEF Consistent, WellFormed
    <2>4. /\ DOMAIN record = {<<d>> : d \in columns}
          /\ \A d \in columns : record[<<d>>] = Lookup(row, d)
      BY CellsAre
    <2>5. /\ \A x \in columns \cap DOMAIN Reorg : Heading(x) = <<Reorg[x], x>>
          /\ \A x \in DOMAIN Reorg : Reorg[x] \in Headings
      BY DEF Heading, Reorg, Headings
    <2>6. c \in DOMAIN patch.cells /\ patch.cells[c] = Branch
      OBVIOUS
    <2> HIDE DEF columns, record, row, patch
    <2>7. /\ DOMAIN old = {<<d>> : d \in columns}
          /\ \A d \in columns : old[<<d>>] = WithoutConstructed(Lookup(row, d))
      BY <2>4
    <2>8. \A v : v # Branch => WithoutConstructed(v) # Branch
      <3> TAKE v
      <3>1. Wrapper(Unconstructed(v.items)).kind = "wrapper" /\ Branch.kind = "branch"
        BY DEF Wrapper, Branch
      <3>2. Wrapper(Unconstructed(v.items)) # Branch
        BY <3>1
      <3> QED
        BY <3>2 DEF WithoutConstructed
    <2> HIDE DEF old
    <2>9. /\ DOMAIN ReorgDict(old) =
                {Heading(x) : x \in columns} \cup {<<Reorg[x]>> : x \in columns \cap DOMAIN Reorg}
          /\ \A x \in columns : ReorgDict(old)[Heading(x)] = old[<<x>>]
      BY <2>3, <2>7, ReorgDictIs
    <2>10. \A x \in columns : ReorgDict(old)[Heading(x)] # Branch
      BY <1>1, <2>7, <2>8, <2>9
    <2>11. PICK x \in columns \cap DOMAIN Reorg : c = <<Reorg[x]>>
      BY <2>1, <2>6, <2>9, <2>10
    <2>12. <<x, Heading(x)>> \in Places(1, row)
      BY <2>2
    <2> QED
      BY <1>3, <2>5, <2>11, <2>12 DEF row
  <1>4. CASE i = 2
    <2>1. patch.cells = Cells(row, DOMAIN row \ {"Interface"})
      BY <1>4 DEF RowPatch, InterfacePatch, Patch, Skipped, Record
    <2> QED
      BY <1>2, <2>1
  <1>5. CASE i = 3
    <2> DEFINE columns == DOMAIN row \ {"Node"}
               record == Cells(row, columns)
    <2>1. patch.cells = [p \in DOMAIN record \cup {<<"Neighbors">>} |->
                            IF p = <<"Neighbors">> THEN Branch ELSE record[p]]
      <3>1. patch = BGPProcessPatch(row)
        BY <1>5 DEF RowPatch
      <3> HIDE DEF patch
      <3> QED
        BY <3>1 DEF BGPProcessPatch, Patch, Record
    <2>2. /\ DOMAIN record = {<<d>> : d \in columns}
          /\ \A d \in columns : record[<<d>>] = Lookup(row, d)
      BY CellsAre
    <2>3. c \in DOMAIN patch.cells /\ patch.cells[c] = Branch
      OBVIOUS
    <2> HIDE DEF columns, record, patch, row
    <2>4. c # <<"Neighbors">> => c \in DOMAIN record /\ record[c] = Branch
      BY <2>1, <2>3
    <2> QED
      BY <1>1, <1>5, <2>2, <2>4
  <1>6. CASE i = 4
    <2>1. patch.cells = Cells(row, DOMAIN row \ {"Node"})
      BY <1>6 DEF RowPatch, BGPPeerPatch, Patch, Record
    <2> QED
      BY <1>2, <2>1
  <1>7. CASE i = 5
    <2>1. patch.cells = Cells(row, {"VRF", "Reference_Bandwidth", "Router_ID"})
      BY <1>7 DEF RowPatch, OSPFProcessPatch, Patch
    <2> QED
      BY <1>2, <2>1
  <1>8. CASE i = 6
    <2>1. patch.cells = Cells(row, {"Area_Type"})
      BY <1>8 DEF RowPatch, OSPFAreaPatch, Patch
    <2> QED
      BY <1>2, <2>1
  <1>9. CASE i = 7
    <2> DEFINE cells == [p \in {<<d>> : d \in DOMAIN OSPFColumns} |-> Lookup(row, OSPFColumns[p[1]])]
    <2>1. patch.cells = cells
      BY <1>9 DEF RowPatch, OSPFInterfacePatch, Patch, Skipped
    <2>2. \A p \in DOMAIN cells : \E x : cells[p] = Lookup(row, x)
      OBVIOUS
    <2> HIDE DEF cells, row
    <2> QED
      BY <1>1, <2>1, <2>2 DEF row
  <1> QED
    BY <1>3, <1>4, <1>5, <1>6, <1>7, <1>8, <1>9

(* The patch of a row of a consistent table.                                *)
LEMMA RowIs ==
  ASSUME NEW t, Consistent(t), NEW i \in 1..7, NEW k \in DOMAIN t[i],
         RowPatch(t, i, t[i][k]).on
  PROVE  LET patch == RowPatch(t, i, t[i][k])
         IN  /\ patch.at = Key(i, t[i][k]) /\ patch.at \in Seq(AllKeys(t))
             /\ Len(patch.at) = Depth(i) /\ patch.at # <<>>
             /\ DOMAIN patch.cells \subseteq Seq(AllKeys(t)) \ {<<>>} /\ Whole(patch.cells)
             /\ Told(patch.cells) = ToldBy(i, t[i][k])
  <1> DEFINE patch == RowPatch(t, i, t[i][k])
  <1>1. Table(PatchesOf(t, i), t, i, AllKeys(t))
    BY AllTables
  <1>2. PatchesOf(t, i)[k] = patch /\ k \in DOMAIN PatchesOf(t, i)
    BY DEF PatchesOf
  <1> HIDE DEF patch
  <1>3. Faithful(patch, t, i, t[i][k], AllKeys(t))
    BY <1>1, <1>2 DEF Table
  <1>4. patch.on
    BY DEF patch
  <1>5. Depth(i) \in Nat \ {0}
    BY DepthIs
  <1>6. patch.at # <<>>
    <2>1. Len(patch.at) # 0 /\ patch.at \in Seq(AllKeys(t))
      BY <1>3, <1>4, <1>5 DEF Faithful
    <2> QED
      BY <2>1, EmptySeq
  <1> QED
    BY <1>3, <1>4, <1>6 DEF Faithful, patch

(* Which cells a row writes.                                                *)
LEMMA LeavesAre ==
  ASSUME NEW i, NEW row, NEW cells, Told(cells) = ToldBy(i, row)
  PROVE  Leaves(cells) = {place[2] : place \in Places(i, row)}
  <1>1. ASSUME NEW c \in Leaves(cells) PROVE \E place \in Places(i, row) : c = place[2]
    <2>1. <<c, Conv(cells[c])>> \in Told(cells)
      BY DEF Told
    <2>2. PICK place \in Places(i, row) :
             <<c, Conv(cells[c])>> = <<place[2], Shown(i, Lookup(row, place[1]))>>
      BY <2>1 DEF ToldBy
    <2> QED
      BY <2>2
  <1>2. ASSUME NEW place \in Places(i, row) PROVE place[2] \in Leaves(cells)
    <2>1. <<place[2], Shown(i, Lookup(row, place[1]))>> \in ToldBy(i, row)
      BY DEF ToldBy
    <2>2. PICK c \in Leaves(cells) :
             <<c, Conv(cells[c])>> = <<place[2], Shown(i, Lookup(row, place[1]))>>
      BY <2>1 DEF Told
    <2> QED
      BY <2>2
  <1> QED
    BY <1>1, <1>2

(* The cells of a row have no name of a map beside them.                    *)
LEMMA LeafCells ==
  ASSUME NEW t, Consistent(t), NEW i \in 1..7, NEW k \in DOMAIN t[i],
         RowPatch(t, i, t[i][k]).on, NEW c \in Leaves(RowPatch(t, i, t[i][k]).cells)
  PROVE  /\ Len(c) \in 1..2 /\ (i # 1 => Len(c) = 1)
         /\ i = 1 => /\ c[1] \notin {"Interfaces", "BGP", "OSPF"}
                     /\ Len(c) = 1 => c[1] \notin Headings
         /\ i = 3 => c[1] # "Neighbors"
         /\ i = 5 => c[1] # "Areas"
         /\ i = 6 => c[1] # "Interfaces"
  <1> DEFINE row == t[i][k]
             cells == RowPatch(t, i, row).cells
  <1>1. c \in DOMAIN cells /\ cells[c] # Branch
    BY DEF Leaves
  <1>2. PICK place \in Places(i, row) : c = place[2]
    <2>1. Told(cells) = ToldBy(i, row)
      BY RowIs
    <2>2. Leaves(cells) = {place[2] : place \in Places(i, row)}
      BY <2>1, LeavesAre
    <2> QED
      BY <2>2
  <1>3. CASE i = 1
    <2>1. c[1] \notin {"Interfaces", "BGP", "OSPF"}
      BY <1>1, <1>3, CellNames
    <2>2. PICK x \in DOMAIN row : c = Heading(x) /\ x \notin Headings
      <3>1. PICK x \in DOMAIN row \ {"Node", "Interfaces"} : place = <<x, Heading(x)>>
        BY <1>2, <1>3 DEF Places
      <3>2. x \notin Headings
        BY <1>3 DEF Consistent, WellFormed
      <3> QED
        BY <1>2, <3>1, <3>2
    <2>3. \/ Len(c) = 2
          \/ Len(c) = 1 /\ c[1] = x
      BY <2>2 DEF Heading
    <2> QED
      BY <1>3, <2>1, <2>2, <2>3
  <1>4. CASE i # 1
    <2>1. PICK x : c = <<x>>
      <3>1. i \in {2, 3, 4, 5, 6, 7}
        BY <1>4
      <3> HIDE DEF row, cells
      <3> QED
        BY <1>2, <3>1 DEF Places
    <2>2. Len(c) = 1
      BY <2>1
    <2>3. /\ i = 3 => c[1] # "Neighbors"
          /\ i = 5 => c[1] # "Areas"
          /\ i = 6 => c[1] # "Interfaces"
      BY <1>1, CellNames
    <2> QED
      BY <1>4, <2>2, <2>3
  <1> QED
    BY <1>3, <1>4

(* The maps of the facts are where they always are.                         *)
LEMMA RowMaps ==
  ASSUME NEW t, Consistent(t), NEW i \in 1..7, NEW k \in DOMAIN t[i],
         RowPatch(t, i, t[i][k]).on
  PROVE  LET patch == RowPatch(t, i, t[i][k])
         IN  /\ \A p \in Way(patch.at) : MapAt(p)
             /\ \A c \in DOMAIN patch.cells : patch.cells[c] = Branch <=> MapAt(patch.at \o c)
  <1> DEFINE row == t[i][k]
             patch == RowPatch(t, i, row)
             at == patch.at
             K == AllKeys(t)
  <1>1. /\ at = Key(i, row) /\ at \in Seq(K) /\ Len(at) = Depth(i) /\ at # <<>>
        /\ DOMAIN patch.cells \subseteq Seq(K) \ {<<>>}
    BY RowIs
  <1>2. /\ i = 2 => at[2] = "Interfaces"
        /\ i \in {3, 4} => at[2] = "BGP"
        /\ i = 4 => at[3] = "Neighbors"
        /\ i \in {5, 6, 7} => at[2] = "OSPF"
        /\ i \in {6, 7} => at[5] = "Areas"
        /\ i = 7 => at[7] = "Interfaces"
    <2> HIDE DEF row, at
    <2> QED
      BY <1>1, KeyNames
  <1>3. i \in {1, 2, 3, 4, 5, 6, 7}
    OBVIOUS
  <1>4. \A c \in Leaves(patch.cells) :
           /\ Len(c) \in 1..2 /\ (i # 1 => Len(c) = 1)
           /\ i = 1 => /\ c[1] \notin {"Interfaces", "BGP", "OSPF"}
                       /\ Len(c) = 1 => c[1] \notin Headings
           /\ i = 3 => c[1] # "Neighbors"
           /\ i = 5 => c[1] # "Areas"
           /\ i = 6 => c[1] # "Interfaces"
    BY LeafCells
  <1>5. \A c \in DOMAIN patch.cells : patch.cells[c] = Branch =>
           \/ i = 3 /\ c = <<"Neighbors">>
           \/ i = 1 /\ \E x : c = <<x>> /\ x \in Headings
    <2> TAKE c \in DOMAIN patch.cells
    <2> HAVE patch.cells[c] = Branch
    <2>1. \/ i = 3 /\ c = <<"Neighbors">>
          \/ i = 1 /\ \E x : /\ <<x, Heading(x)>> \in Places(1, t[i][k])
                             /\ Heading(x) = <<Reorg[x], x>> /\ c = <<Reorg[x]>>
                             /\ Reorg[x] \in Headings
      BY MapCells
    <2> QED
      BY <2>1
  <1> HIDE DEF row, patch, at, K
  <1>6. ASSUME NEW p \in Way(at) PROVE MapAt(p)
    <2>1. Len(p) \in 1..Depth(i) /\ \A j \in 1..Len(p) : p[j] = at[j]
      BY <1>1, WayIs
    <2> DEFINE n == Len(p)
    <2>2. n \in Nat \ {0} /\ n <= Depth(i)
      BY <2>1, DepthIs
    <2>3. /\ n > 1 => p[2] = at[2]
          /\ n > 2 => p[3] = at[3]
          /\ n > 4 => p[5] = at[5]
          /\ n > 6 => p[7] = at[7]
      BY <2>1, <2>2
    <2> HIDE DEF n
    <2>4. CASE i = 1
      <3>1. n = 1
        BY <2>2, <2>4, DepthIs
      <3> QED
        BY <3>1 DEF MapAt, n
    <2>5. CASE i = 2
      <3>1. \/ n = 1
            \/ n \in 2..3 /\ p[2] = "Interfaces"
        BY <1>2, <2>2, <2>3, <2>5, DepthIs
      <3> QED
        BY <3>1 DEF MapAt, n
    <2>6. CASE i \in {3, 4}
      <3>1. \/ n = 1
            \/ n = 2 /\ p[2] = "BGP"
            \/ n \in 3..4 /\ p[2] = "BGP" /\ p[3] = "Neighbors"
        BY <1>2, <2>2, <2>3, <2>6, DepthIs
      <3> QED
        BY <3>1 DEF MapAt, n
    <2>7. CASE i \in {5, 6, 7}
      <3>1. \/ n = 1
            \/ n \in 2..4 /\ p[2] = "OSPF"
            \/ n \in 5..6 /\ p[2] = "OSPF" /\ p[5] = "Areas"
            \/ n \in 7..8 /\ p[2] = "OSPF" /\ p[5] = "Areas" /\ p[7] = "Interfaces"
        BY <1>2, <2>2, <2>3, <2>7, DepthIs
      <3> QED
        BY <3>1 DEF MapAt, n
    <2> QED
      BY <1>3, <2>4, <2>5, <2>6, <2>7
  <1>7. ASSUME NEW c \in DOMAIN patch.cells
        PROVE  patch.cells[c] = Branch <=> MapAt(at \o c)
    <2> DEFINE q == at \o c
               n == Len(c)
    <2>1. /\ Len(q) = Depth(i) + n /\ n \in Nat \ {0} /\ q[Depth(i) + 1] = c[1]
          /\ \A j \in 1..Depth(i) : q[j] = at[j]
      <3>1. c \in Seq(K) /\ c # <<>>
        BY <1>1
      <3>2. /\ Len(q) = Len(at) + Len(c) /\ Len(c) \in Nat /\ Len(c) # 0
            /\ \A j \in 1..Len(at) : q[j] = at[j]
            /\ \A j \in 1..Len(c) : q[Len(at) + j] = c[j]
        BY <1>1, <3>1, BelowIs
      <3>3. 1 \in 1..Len(c)
        BY <3>2
      <3> QED
        BY <1>1, <3>2, <3>3
    <2>2. CASE patch.cells[c] = Branch
      <3> HIDE DEF q
      <3>1. CASE i = 3 /\ c = <<"Neighbors">>
        <4>1. n = 1 /\ c[1] = "Neighbors"
          BY <3>1
        <4>2. Len(q) = 3 /\ q[2] = "BGP" /\ q[3] = "Neighbors"
          BY <1>2, <2>1, <3>1, <4>1, DepthIs
        <4> QED
          BY <2>2, <4>2 DEF MapAt, q
      <3>2. CASE i = 1 /\ \E x : c = <<x>> /\ x \in Headings
        <4>1. n = 1 /\ c[1] \in Headings
          BY <3>2
        <4>2. Len(q) = 2 /\ q[2] \in Headings
          BY <2>1, <3>2, <4>1, DepthIs
        <4> QED
          BY <2>2, <4>2 DEF MapAt, q
      <3> QED
        BY <1>5, <2>2, <3>1, <3>2
    <2>3. CASE patch.cells[c] # Branch
      <3>1. c \in Leaves(patch.cells)
        BY <2>3 DEF Leaves
      <3>2. /\ n \in 1..2 /\ (i # 1 => n = 1)
            /\ i = 1 => /\ c[1] \notin {"Interfaces", "BGP", "OSPF"}
                        /\ n = 1 => c[1] \notin Headings
            /\ i = 3 => c[1] # "Neighbors"
            /\ i = 5 => c[1] # "Areas"
            /\ i = 6 => c[1] # "Interfaces"
        BY <1>4, <3>1
      <3> HIDE DEF q, n
      <3>3. CASE i = 1
        <4>1. n \in 1..2 /\ Len(q) = 1 + n /\ q[2] = c[1]
          BY <2>1, <3>2, <3>3, DepthIs
        <4>2. Len(q) \in 2..3 /\ (Len(q) = 2 => q[2] \notin Headings)
                /\ q[2] \notin {"Interfaces", "BGP", "OSPF"}
          BY <3>2, <3>3, <4>1
        <4>3. ~MapAt(q)
          BY <4>2 DEF MapAt
        <4> QED
          BY <2>3, <4>3 DEF q
      <3>4. CASE i # 1
        <4>1. Len(q) = Depth(i) + 1 /\ Len(q) \in Nat \ {0, 1} /\ q[Depth(i) + 1] = c[1]
          BY <2>1, <3>2, <3>4, DepthIs
        <4>2. /\ Depth(i) > 1 => q[2] = at[2]
              /\ Depth(i) > 2 => q[3] = at[3]
              /\ Depth(i) > 4 => q[5] = at[5]
              /\ Depth(i) > 6 => q[7] = at[7]
          BY <2>1, DepthIs
        <4>3. CASE i = 2
          <5>1. Len(q) = 4 /\ q[2] = "Interfaces"
            BY <1>2, <4>1, <4>2, <4>3, DepthIs
          <5>2. ~MapAt(q)
            BY <5>1 DEF MapAt
          <5> QED
            BY <2>3, <5>2 DEF q
        <4>4. CASE i = 3
          <5>1. Len(q) = 3 /\ q[2] = "BGP" /\ q[3] # "Neighbors"
            BY <1>2, <3>2, <4>1, <4>2, <4>4, DepthIs
          <5>2. ~MapAt(q)
            BY <5>1 DEF MapAt
          <5> QED
            BY <2>3, <5>2 DEF q
        <4>5. CASE i = 4
          <5>1. Len(q) = 5 /\ q[2] = "BGP"
            BY <1>2, <4>1, <4>2, <4>5, DepthIs
          <5>2. ~MapAt(q)
            BY <5>1 DEF MapAt
          <5> QED
            BY <2>3, <5>2 DEF q
        <4>6. CASE i = 5
          <5>1. Len(q) = 5 /\ q[5] # "Areas"
            BY <1>2, <3>2, <4>1, <4>2, <4>6, DepthIs
          <5>2. ~MapAt(q)
            BY <5>1 DEF MapAt
          <5> QED
            BY <2>3, <5>2 DEF q
        <4>7. CASE i = 6
          <5>1. Len(q) = 7 /\ q[7] # "Interfaces"
            BY <1>2, <3>2, <4>1, <4>2, <4>7, DepthIs
          <5>2. ~MapAt(q)
            BY <5>1 DEF MapAt
          <5> QED
            BY <2>3, <5>2 DEF q
        <4>8. CASE i = 7
          <5>1. Len(q) = 9
            BY <4>1, <4>8, DepthIs
          <5>2. ~MapAt(q)
            BY <5>1 DEF MapAt
          <5> QED
            BY <2>3, <5>2 DEF q
        <4> QED
          BY <1>3, <3>4, <4>3, <4>4, <4>5, <4>6, <4>7, <4>8
      <3> QED
        BY <3>3, <3>4
    <2> QED
      BY <2>2, <2>3
  <1> QED
    BY <1>6, <1>7 DEF patch, at, row

(* A cell at q shows that there is a map at p, as no map is empty but those *)
(* of the neighbors of BGP processes.                                       *)
Shows(q, p) ==
  \/ p \in Way(q)
  \/ \E o \in Way(q) : Len(o) = 2 /\ o[2] = "BGP" /\ p = o \o <<"Neighbors">>

Growing(patch) ==
  /\ \A p \in Way(patch.at) : MapAt(p)
  /\ \A c \in DOMAIN patch.cells : patch.cells[c] = Branch <=> MapAt(patch.at \o c)
  /\ \A p \in Way(patch.at) : \E d \in Leaves(patch.cells) : Shows(patch.at \o d, p)
  /\ \A c \in DOMAIN patch.cells : patch.cells[c] = Branch =>
        \E d \in Leaves(patch.cells) : Shows(patch.at \o d, patch.at \o c)
  /\ \A p \in Way(patch.at) \cup Under(patch) :
        Len(p) = 2 /\ p[2] = "BGP" => p \o <<"Neighbors">> \in Way(patch.at) \cup Under(patch)

(* The way to a cell of a row goes through the row.                         *)
LEMMA WayUnder ==
  ASSUME NEW K, NEW p \in Seq(K), p # <<>>, NEW d \in Seq(K), NEW c \in Way(d)
  PROVE  p \o c \in Way(p \o d)
  <1>1. c \in Seq(K) /\ Len(c) \in 1..Len(d) /\ \A i \in 1..Len(c) : c[i] = d[i]
    BY WayIs
  <1> DEFINE q == p \o d
             r == p \o c
  <1>2. /\ q \in Seq(K) /\ Len(q) = Len(p) + Len(d) /\ Len(p) \in Nat \ {0} /\ Len(d) \in Nat
        /\ \A i \in 1..Len(p) : q[i] = p[i]
        /\ \A i \in 1..Len(d) : q[Len(p) + i] = d[i]
    BY BelowIs
  <1>3. /\ r \in Seq(K) /\ Len(r) = Len(p) + Len(c) /\ Len(c) \in Nat
        /\ \A i \in 1..Len(p) : r[i] = p[i]
        /\ \A i \in 1..Len(c) : r[Len(p) + i] = c[i]
    BY <1>1, BelowIs
  <1> HIDE DEF q, r
  <1>4. ASSUME NEW i \in 1..Len(r) PROVE r[i] = q[i]
    <2>1. CASE i \in 1..Len(p)
      BY <1>2, <1>3, <2>1
    <2>2. CASE i \notin 1..Len(p)
      <3> DEFINE j == i - Len(p)
      <3>1. j \in 1..Len(c) /\ j \in 1..Len(d) /\ i = Len(p) + j
        BY <1>1, <1>2, <1>3, <2>2
      <3> HIDE DEF j
      <3>2. r[i] = c[j] /\ q[i] = d[j] /\ c[j] = d[j]
        BY <1>1, <1>2, <1>3, <3>1
      <3> QED
        BY <3>2
    <2> QED
      BY <2>1, <2>2
  <1>5. Len(r) \in 1..Len(q)
    BY <1>1, <1>2, <1>3
  <1>6. r \in Way(q)
    BY <1>2, <1>3, <1>4, <1>5, WayIs
  <1> QED
    BY <1>6 DEF q, r

(* Every map of a row shows in a cell below it.                             *)
LEMMA RowGrows ==
  ASSUME NEW t, Consistent(t), NEW i \in 1..7, NEW k \in DOMAIN t[i],
         RowPatch(t, i, t[i][k]).on
  PROVE  Growing(RowPatch(t, i, t[i][k]))
  <1> DEFINE row == t[i][k]
             patch == RowPatch(t, i, row)
             at == patch.at
             cells == patch.cells
             K == AllKeys(t)
  <1>1. /\ at = Key(i, row) /\ at \in Seq(K) /\ Len(at) = Depth(i) /\ at # <<>>
        /\ DOMAIN cells \subseteq Seq(K) \ {<<>>} /\ Told(cells) = ToldBy(i, row)
    BY RowIs
  <1>2. Leaves(cells) = {place[2] : place \in Places(i, row)}
    BY <1>1, LeavesAre
  <1>3. PICK d \in Leaves(cells) : TRUE
    <2>1. Places(i, row) # {}
      BY DEF Consistent, WellFormed
    <2> HIDE DEF row, cells
    <2> QED
      BY <1>2, <2>1
  <1>4. /\ \A p \in Way(at) : MapAt(p)
        /\ \A c \in DOMAIN cells : cells[c] = Branch <=> MapAt(at \o c)
    BY RowMaps
  <1>5. i = 3 => at[2] = "BGP" /\ Len(at) = 2 /\ <<"Neighbors">> \in DOMAIN cells
    <2> HAVE i = 3
    <2>1. patch = BGPProcessPatch(row)
      BY DEF RowPatch
    <2>2. BGPProcessPatch(row).cells =
            [p \in DOMAIN Cells(row, DOMAIN row \ {"Node"}) \cup {<<"Neighbors">>} |->
               IF p = <<"Neighbors">> THEN Branch ELSE Cells(row, DOMAIN row \ {"Node"})[p]]
      BY DEF BGPProcessPatch, Patch, Record
    <2>3. <<"Neighbors">> \in DOMAIN BGPProcessPatch(row).cells
      BY <2>2
    <2>4. at[2] = "BGP" /\ Len(at) = 2
      <3> HIDE DEF at, row
      <3> QED
        BY <1>1, KeyNames, DepthIs
    <2> QED
      BY <2>1, <2>3, <2>4
  <1>6. \A c \in DOMAIN cells : cells[c] = Branch =>
           \/ i = 3 /\ c = <<"Neighbors">>
           \/ \E x : Heading(x) \in Leaves(cells) /\ Heading(x) = <<Reorg[x], x>> /\ c = <<Reorg[x]>>
    <2> TAKE c \in DOMAIN cells
    <2> HAVE cells[c] = Branch
    <2>1. \/ i = 3 /\ c = <<"Neighbors">>
          \/ i = 1 /\ \E x : /\ <<x, Heading(x)>> \in Places(1, t[i][k])
                             /\ Heading(x) = <<Reorg[x], x>> /\ c = <<Reorg[x]>>
                             /\ Reorg[x] \in Headings
      BY MapCells
    <2>2. ASSUME i = 1, NEW x, <<x, Heading(x)>> \in Places(1, row) PROVE Heading(x) \in Leaves(cells)
      <3> DEFINE place == <<x, Heading(x)>>
      <3>1. place \in Places(i, row) /\ place[2] = Heading(x)
        BY <2>2
      <3> HIDE DEF place, row, cells
      <3> QED
        BY <1>2, <3>1
    <2> QED
      BY <2>1, <2>2
  <1>7. i = 1 => \A c \in DOMAIN cells : c[1] # "BGP"
    BY CellNames
  <1>8. /\ i \in {1, 2, 3, 4, 5, 6, 7}
        /\ i = 2 => at[2] # "BGP"
        /\ i = 4 => at[2] = "BGP" /\ at[3] = "Neighbors"
        /\ i \in {5, 6, 7} => at[2] # "BGP"
    <2> HIDE DEF at, row
    <2> QED
      BY <1>1, KeyNames
  <1> HIDE DEF row, patch, at, cells, K
  <1>9. Leaves(cells) \subseteq DOMAIN cells
    BY DEF Leaves
  <1>10. \A e \in Leaves(cells) : at \in Way(at \o e) /\ e \in Seq(K) /\ at \o e \in Seq(K)
    BY <1>1, <1>9, BelowIs
  <1>11. ASSUME NEW p \in Way(at) PROVE Shows(at \o d, p)
    BY <1>3, <1>10, <1>11, WayOfWay DEF Shows
  <1>12. ASSUME NEW c \in DOMAIN cells, cells[c] = Branch
         PROVE  \E e \in Leaves(cells) : Shows(at \o e, at \o c)
    <2>1. CASE i = 3 /\ c = <<"Neighbors">>
      <3>1. Shows(at \o d, at \o c)
        BY <1>3, <1>5, <1>10, <2>1 DEF Shows
      <3> QED
        BY <1>3, <3>1
    <2>2. ASSUME NEW x, Heading(x) \in Leaves(cells), Heading(x) = <<Reorg[x], x>>,
                 c = <<Reorg[x]>>
          PROVE  \E e \in Leaves(cells) : Shows(at \o e, at \o c)
      <3>1. c \in Way(Heading(x))
        <4>1. Way(<<Reorg[x], x>>) = {<<Reorg[x]>>, <<Reorg[x], x>>}
          <5> DEFINE both == {Reorg[x], x}
          <5>1. Reorg[x] \in both /\ x \in both
            OBVIOUS
          <5> HIDE DEF both
          <5> QED
            BY <5>1, TwoSteps
        <4> QED
          BY <2>2, <4>1, Zenon
      <3>2. at \o c \in Way(at \o Heading(x))
        BY <1>1, <1>10, <2>2, <3>1, WayUnder
      <3> QED
        BY <2>2, <3>2 DEF Shows
    <2> QED
      BY <1>6, <1>12, <2>1, <2>2
  <1>13. ASSUME NEW p \in Way(at) \cup Under(patch), Len(p) = 2, p[2] = "BGP"
         PROVE  p \o <<"Neighbors">> \in Way(at) \cup Under(patch)
    <2>1. CASE p \in Way(at)
      <3>1. p \in Seq(K) /\ Len(p) \in 1..Len(at) /\ \A j \in 1..Len(p) : p[j] = at[j]
        BY <1>1, <2>1, WayIs
      <3>2. at[2] = "BGP" /\ p[1] = at[1] /\ p[2] = at[2] /\ 2 <= Depth(i)
        BY <1>1, <1>13, <3>1
      <3>3. CASE i = 3
        <4>1. p = at
          BY <1>1, <1>5, <1>13, <2>1, <3>1, <3>3, Apart
        <4>2. p \o <<"Neighbors">> \in Under(patch)
          BY <1>5, <3>3, <4>1 DEF Under, Below, at, cells
        <4> QED
          BY <4>2
      <3>4. CASE i = 4
        <4> DEFINE q == p \o <<"Neighbors">>
                   n == <<"Neighbors">>
        <4>1. "Neighbors" \in K
          BY DEF K, AllKeys, Names
        <4>2. n \in Seq(K) /\ n[1] = "Neighbors" /\ Len(n) = 1
          BY <4>1
        <4> HIDE DEF n
        <4>3. p # <<>>
          <5>1. p \in Seq(K) /\ Len(p) # 0
            BY <1>13, <3>1
          <5> QED
            BY <5>1, EmptySeq
        <4>4. /\ q \in Seq(K) /\ Len(q) = 3
              /\ \A j \in 1..2 : q[j] = p[j]
              /\ q[3] = "Neighbors"
          <5>1. /\ p \o n \in Seq(K) /\ Len(p \o n) = Len(p) + Len(n)
                /\ \A j \in 1..Len(p) : (p \o n)[j] = p[j]
                /\ \A j \in 1..Len(n) : (p \o n)[Len(p) + j] = n[j]
            <6>1. p \in Seq(K) /\ p # <<>> /\ n \in Seq(K)
              BY <3>1, <4>2, <4>3
            <6> QED
              BY <6>1, BelowIs
          <5>2. (p \o n)[3] = n[1] /\ Len(p \o n) = 3
            BY <1>13, <4>2, <5>1
          <5> QED
            BY <1>13, <4>2, <5>1, <5>2 DEF n
        <4> HIDE DEF q
        <4>5. \A j \in 1..3 : q[j] = at[j]
          <5>1. q[1] = at[1] /\ q[2] = at[2] /\ q[3] = at[3]
            BY <1>8, <3>2, <3>4, <4>4
          <5> QED
            BY <5>1
        <4>6. Len(q) \in 1..Len(at)
          BY <1>1, <3>4, <4>4, DepthIs
        <4>7. q \in Way(at)
          BY <1>1, <4>4, <4>5, <4>6, WayIs
        <4> QED
          BY <4>7 DEF q
      <3>5. i \in {3, 4}
        BY <1>8, <3>2, DepthIs
      <3> QED
        BY <3>3, <3>4, <3>5
    <2>2. CASE p \in Under(patch)
      <3>1. PICK c \in DOMAIN cells :
               /\ Len(c) \in Nat \ {0} /\ Len(p) = Len(at) + Len(c)
               /\ p[Len(at) + 1] = c[1]
        <4>1. /\ patch.at \in Seq(K) /\ patch.at # <<>>
              /\ DOMAIN patch.cells \subseteq Seq(K) \ {<<>>}
          BY <1>1 DEF at, cells
        <4>2. \E c \in DOMAIN patch.cells :
                 /\ Len(c) \in Nat \ {0} /\ Len(p) = Len(patch.at) + Len(c)
                 /\ p[Len(patch.at) + 1] = c[1]
          BY <2>2, <4>1, UnderIs
        <4> QED
          BY <4>2 DEF at, cells
      <3>2. Len(at) = 1
        BY <1>1, <1>13, <3>1, DepthIs
      <3>3. i = 1
        <4>1. Depth(i) = 1
          BY <1>1, <3>2
        <4> QED
          BY <1>8, <4>1, DepthIs
      <3> QED
        BY <1>7, <1>13, <3>1, <3>2, <3>3
    <2> QED
      BY <1>13, <2>1, <2>2
  <1> QED
    BY <1>3, <1>4, <1>11, <1>12, <1>13 DEF Growing, patch, at, cells, row

(* What holds of trees that are made of such rows.                          *)
Grown(T) ==
  /\ \A p \in DOMAIN T : T[p] = Branch <=> MapAt(p)
  /\ \A p \in DOMAIN T : T[p] = Branch /\ Len(p) > 1 =>
        \E q \in DOMAIN T : T[q] # Branch /\ Shows(q, p)
  /\ \A p \in DOMAIN T : Len(p) = 2 /\ p[2] = "BGP" => p \o <<"Neighbors">> \in DOMAIN T

(* A table keeps that shape.                                                *)
LEMMA GrowsBy ==
  ASSUME NEW K, NEW L, NEW ps, Patches(ps, L, K), NEW T, NEW tree,
         Holds(T, tree, ps, Len(ps)), Grown(tree),
         \A k \in DOMAIN ps : ps[k].on => Growing(ps[k])
  PROVE  Grown(T)
  <1> DEFINE last == LastRows(ps, Len(ps))
  <1>1. \A k \in last : Growing(ps[k])
    BY LastIsOn
  <1>2. /\ DOMAIN T = DOMAIN tree \cup UNION {Way(ps[k].at) \cup Under(ps[k]) : k \in last}
        /\ \A p \in DOMAIN tree : T[p] = tree[p]
        /\ \A k \in last : \A p \in Way(ps[k].at) : T[p] = Branch
        /\ \A k \in last : \A c \in DOMAIN ps[k].cells : T[ps[k].at \o c] = ps[k].cells[c]
    BY DEF Holds
  <1> HIDE DEF last
  <1>3. \A k \in last : Way(ps[k].at) \cup Under(ps[k]) \subseteq DOMAIN T
    BY <1>2
  <1>4. ASSUME NEW k \in last, NEW d \in Leaves(ps[k].cells)
        PROVE  ps[k].at \o d \in DOMAIN T /\ T[ps[k].at \o d] # Branch
    <2>1. d \in DOMAIN ps[k].cells /\ ps[k].cells[d] # Branch
      BY DEF Leaves
    <2>2. ps[k].at \o d \in Under(ps[k])
      BY <2>1 DEF Under, Below
    <2> QED
      BY <1>2, <1>3, <2>1, <2>2
  <1>5. ASSUME NEW p \in DOMAIN T
        PROVE  /\ T[p] = Branch <=> MapAt(p)
               /\ T[p] = Branch /\ Len(p) > 1 =>
                     \E q \in DOMAIN T : T[q] # Branch /\ Shows(q, p)
               /\ Len(p) = 2 /\ p[2] = "BGP" => p \o <<"Neighbors">> \in DOMAIN T
    <2>1. CASE p \in DOMAIN tree
      <3>1. DOMAIN tree \subseteq DOMAIN T /\ \A q \in DOMAIN tree : T[q] = tree[q]
        BY <1>2
      <3> QED
        BY <2>1, <3>1 DEF Grown
    <2>2. ASSUME NEW k \in last, p \in Way(ps[k].at) \cup Under(ps[k])
          PROVE  /\ T[p] = Branch <=> MapAt(p)
                 /\ T[p] = Branch =>
                       \E q \in DOMAIN T : T[q] # Branch /\ Shows(q, p)
                 /\ Len(p) = 2 /\ p[2] = "BGP" => p \o <<"Neighbors">> \in DOMAIN T
      <3>1. Len(p) = 2 /\ p[2] = "BGP" => p \o <<"Neighbors">> \in DOMAIN T
        BY <1>1, <1>3, <2>2 DEF Growing
      <3>2. CASE p \in Way(ps[k].at)
        <4>1. T[p] = Branch /\ MapAt(p)
          BY <1>1, <1>2, <3>2 DEF Growing
        <4>2. PICK d \in Leaves(ps[k].cells) : Shows(ps[k].at \o d, p)
          BY <1>1, <3>2 DEF Growing
        <4> QED
          BY <1>4, <3>1, <4>1, <4>2
      <3>3. CASE p \in Under(ps[k])
        <4>1. PICK c \in DOMAIN ps[k].cells : p = ps[k].at \o c
          BY <3>3 DEF Under, Below
        <4>2. T[p] = ps[k].cells[c]
          BY <1>2, <4>1
        <4>3. T[p] = Branch <=> MapAt(p)
          BY <1>1, <4>1, <4>2 DEF Growing
        <4>4. T[p] = Branch => \E d \in Leaves(ps[k].cells) : Shows(ps[k].at \o d, p)
          BY <1>1, <4>1, <4>2 DEF Growing
        <4> QED
          BY <1>4, <3>1, <4>3, <4>4
      <3> QED
        BY <2>2, <3>2, <3>3
    <2>3. p \notin DOMAIN tree => \E k \in last : p \in Way(ps[k].at) \cup Under(ps[k])
      BY <1>2
    <2> QED
      BY <2>1, <2>2, <2>3
  <1> QED
    BY <1>5 DEF Grown

(* The trees of the merge have that shape.                                  *)
LEMMA GrownAfter ==
  ASSUME NEW t, Consistent(t), NEW n \in 0..7
  PROVE  Grown(TreeOf(t, n))
  <1> DEFINE S == {m \in Nat : m <= 7 => Grown(TreeOf(t, m))}
  <1>1. 0 \in S
    <2>1. TreeOf(t, 0) = EmptyMap
      BY DEF TreeOf
    <2>2. DOMAIN EmptyMap = {}
      BY DEF EmptyMap
    <2> QED
      BY <2>1, <2>2 DEF Grown
  <1>2. ASSUME NEW m \in Nat, m \in S PROVE m + 1 \in S
    <2> DEFINE T == TreeOf(t, m + 1)
               tree == TreeOf(t, m)
               ps == PatchesOf(t, m + 1)
    <2> SUFFICES ASSUME m + 1 <= 7 PROVE Grown(T)
      OBVIOUS
    <2>1. m <= 7 /\ m + 1 \in 1..7 /\ m + 1 - 1 = m
      OBVIOUS
    <2>2. Holds(T, tree, ps, Len(ps))
      BY <2>1, Stages, SMTT(20)
    <2>3. Patches(ps, Depth(m + 1), AllKeys(t))
      BY <2>1, AllTables
    <2>4. Grown(tree)
      BY <1>2, <2>1
    <2>5. \A k \in DOMAIN ps : ps[k].on => Growing(ps[k])
      <3>1. DOMAIN ps = DOMAIN t[m + 1]
              /\ \A k \in DOMAIN ps : ps[k] = RowPatch(t, m + 1, t[m + 1][k])
        BY DEF PatchesOf
      <3> HIDE DEF ps
      <3> QED
        BY <2>1, <3>1, RowGrows
    <2> HIDE DEF T, tree, ps
    <2> QED
      BY <2>2, <2>3, <2>4, <2>5, GrowsBy
  <1>3. Nat \subseteq S
    <2> HIDE DEF S
    <2> QED
      BY <1>1, <1>2, Induction
  <1>4. n \in Nat /\ n <= 7
    OBVIOUS
  <1> QED
    BY <1>3, <1>4

(* The facts have that shape.                                               *)
LEMMA FactsAreGrown ==
  ASSUME NEW t, Consistent(t)
  PROVE  Grown(ProcessFacts(t))
  <1> DEFINE tree == TreeOf(t, 7)
             T == ProcessFacts(t)
  <1>1. T = ConvertListWrapper(tree)
    BY DEF ProcessFacts, TreeOf, WithOSPF
  <1>2. Grown(tree)
    BY GrownAfter
  <1>3. /\ DOMAIN T = DOMAIN tree
        /\ \A p \in DOMAIN tree : T[p] = Branch <=> tree[p] = Branch
    BY <1>1, ConvIs
  <1> HIDE DEF tree, T
  <1>4. Grown(T)
    BY <1>2, <1>3 DEF Grown
  <1> QED
    BY <1>4 DEF T

------------------------------------------------------------------------------
(* WHAT A COMPARISON REPORTS                                                *)

(* The comparison of values is the one that the contract states.            *)
LEMMA MatchesIsAlike ==
  ASSUME NEW v, NEW w
  PROVE  ValueMatches(w, v) <=> Alike(v, w)
  BY ZenonT(30) DEF ValueMatches, Alike, Times, ToSet

(* What is not in the actual facts, or has another value there.             *)
Differs(A, E, p) == p \notin DOMAIN A \/ (E[p] # Branch /\ ~ValueMatches(A[p], E[p]))

(* A difference below a key that is missing is reported as that key.        *)
LEMMA Reported ==
  ASSUME NEW K, NEW A, Whole(A), NEW E, DOMAIN E \subseteq Seq(K),
         \A p \in DOMAIN E : Way(p) \subseteq DOMAIN E, NEW n
  PROVE  AssertDictSubset(A, E, n) # {} <=>
            \E p \in DOMAIN E : p[1] = n /\ Len(p) > 1 /\ Differs(A, E, p)
  <1> DEFINE R == AssertDictSubset(A, E, n)
  <1>1. R = {p \in DOMAIN E : /\ p[1] = n /\ Len(p) > 1
                              /\ Len(p) = 2 \/ SubSeq(p, 1, Len(p) - 1) \in DOMAIN A
                              /\ p \in DOMAIN A => E[p] # Branch /\ ~ValueMatches(A[p], E[p])}
    BY DEF AssertDictSubset, Front
  <1> HIDE DEF R
  <1>2. ASSUME NEW p \in R
        PROVE  p \in DOMAIN E /\ p[1] = n /\ Len(p) > 1 /\ Differs(A, E, p)
    BY <1>1 DEF Differs
  <1>3. ASSUME NEW p \in Seq(K), Len(p) > 2
        PROVE  /\ SubSeq(p, 1, Len(p) - 1) \in Way(p)
               /\ Len(SubSeq(p, 1, Len(p) - 1)) = Len(p) - 1
    <2>1. Len(p) \in Nat /\ Len(p) - 1 \in 1..Len(p)
      BY <1>3
    <2>2. SubSeq(p, 1, Len(p) - 1) \in Way(p)
      BY <2>1 DEF Way
    <2>3. Len(SubSeq(p, 1, Len(p) - 1)) = Len(p) - 1
      BY <2>1, SubSeqProperties
    <2> QED
      BY <2>2, <2>3
  <1>4. ASSUME NEW p \in DOMAIN E, p[1] = n, Len(p) > 1, Differs(A, E, p)
        PROVE  R # {}
    <2>1. p \in Seq(K) /\ Len(p) \in Nat
      BY <1>4
    <2>2. CASE p \in DOMAIN A
      <3>1. Len(p) = 2 \/ SubSeq(p, 1, Len(p) - 1) \in DOMAIN A
        <4>1. Len(p) > 2 => SubSeq(p, 1, Len(p) - 1) \in Way(p)
          BY <1>3, <2>1
        <4>2. Way(p) \subseteq DOMAIN A
          BY <2>2 DEF Whole
        <4>3. Len(p) = 2 \/ Len(p) > 2
          <5> DEFINE m == Len(p)
          <5>1. m \in Nat /\ m > 1
            BY <1>4, <2>1
          <5> HIDE DEF m
          <5>2. m = 2 \/ m > 2
            BY <5>1
          <5> QED
            BY <5>2 DEF m
        <4> QED
          BY <4>1, <4>2, <4>3
      <3>2. p \in R
        BY <1>1, <1>4, <2>2, <3>1 DEF Differs
      <3> QED
        BY <3>2
    <2>3. CASE p \notin DOMAIN A
      <3> DEFINE Missing(q) == q \in Way(p) /\ Len(q) > 1 /\ q \notin DOMAIN A
                 lengths == {m \in Nat : \E q : Missing(q) /\ Len(q) = m}
      <3>1. lengths # {}
        <4>1. p \in Way(p)
          BY <1>4, <2>1, WayIs
        <4> QED
          BY <1>4, <2>1, <2>3, <4>1
      <3>2. PICK m \in lengths : \A l \in lengths : m <= l
        <4>1. lengths \in SUBSET Nat
          OBVIOUS
        <4> HIDE DEF lengths
        <4> QED
          BY <3>1, <4>1, Least
      <3>3. PICK q : Missing(q) /\ Len(q) = m
        BY <3>2
      <3>4. q \in Seq(K) /\ Len(q) \in 1..Len(p) /\ \A i \in 1..Len(q) : q[i] = p[i]
        BY <2>1, <3>3, WayIs
      <3>5. q \in DOMAIN E /\ q[1] = n
        BY <1>4, <3>3, <3>4
      <3>6. Len(q) = 2 \/ SubSeq(q, 1, Len(q) - 1) \in DOMAIN A
        <4> SUFFICES ASSUME Len(q) > 2, SubSeq(q, 1, Len(q) - 1) \notin DOMAIN A PROVE FALSE
          BY <3>3, <3>4
        <4> DEFINE r == SubSeq(q, 1, Len(q) - 1)
        <4>1. r \in Way(q) /\ Len(r) = Len(q) - 1
          BY <1>3, <3>4
        <4>2. r \in Way(p)
          BY <2>1, <3>3, <4>1, WayOfWay
        <4> HIDE DEF r
        <4>3. Len(r) > 1 /\ Len(r) \in Nat /\ Len(r) < m
          BY <3>3, <3>4, <4>1
        <4>4. Missing(r)
          BY <4>2, <4>3 DEF r
        <4>5. Len(r) \in lengths
          BY <4>3, <4>4
        <4> QED
          BY <3>2, <4>3, <4>5
      <3>7. q \in R
        BY <1>1, <3>3, <3>5, <3>6
      <3> QED
        BY <3>7
    <2> QED
      BY <2>2, <2>3
  <1>5. R # {} <=> \E p \in DOMAIN E : p[1] = n /\ Len(p) > 1 /\ Differs(A, E, p)
    BY <1>2, <1>4
  <1> QED
    BY <1>5 DEF R

(* What a file holds of the facts.                                          *)
Entry(G, p, q) == p \in DOMAIN G /\ G[p].kind = "element" /\ \E f \in DOMAIN G[p].fields : q = Append(p, f)
IsStored(E, G) ==
  /\ \A p \in DOMAIN E : p \in DOMAIN G \/ \E o : Entry(G, o, p)
  /\ \A p \in DOMAIN G : p \in DOMAIN E
  /\ \A p \in DOMAIN G : E[p] = IF G[p].kind = "element" THEN Branch ELSE Stored(G[p])
  /\ \A o, q : Entry(G, o, q) => /\ q \in DOMAIN E /\ q \notin DOMAIN G /\ o \in Way(q) /\ o # q
                                 /\ q[1] = o[1] /\ Len(q) > 1
  /\ \A p \in DOMAIN E : Way(p) \subseteq DOMAIN E
  /\ \E K : DOMAIN E \subseteq Seq(K)

(* The path of a field of an element.                                       *)
LEMMA EntryIs ==
  ASSUME NEW K, NEW p \in Seq(K), p # <<>>, NEW f \in K
  PROVE  /\ Append(p, f) \in Seq(K) /\ Len(Append(p, f)) > 1 /\ Append(p, f)[1] = p[1]
         /\ p \in Way(Append(p, f)) /\ p # Append(p, f)
         /\ \A r \in Way(Append(p, f)) : r = Append(p, f) \/ r \in Way(p)
  <1> DEFINE q == Append(p, f)
  <1>1. /\ q \in Seq(K) /\ Len(q) = Len(p) + 1 /\ Len(p) \in Nat \ {0}
        /\ \A i \in 1..Len(p) : q[i] = p[i]
    <2>1. Len(p) \in Nat \ {0}
      BY EmptySeq
    <2> QED
      BY <2>1, AppendProperties
  <1> HIDE DEF q
  <1>2. p \in Way(q)
    BY <1>1, WayIs
  <1>3. ASSUME NEW r \in Way(q), r # q PROVE r \in Way(p)
    <2>1. r \in Seq(K) /\ Len(r) \in 1..Len(q) /\ \A i \in 1..Len(r) : r[i] = q[i]
      BY <1>1, WayIs
    <2>2. Len(r) # Len(q)
      BY <1>1, <1>3, <2>1, SeqEqual
    <2>3. Len(r) \in 1..Len(p) /\ \A i \in 1..Len(r) : r[i] = p[i]
      BY <1>1, <2>1, <2>2
    <2> QED
      BY <2>1, <2>3, WayIs
  <1>4. Len(q) > 1 /\ q[1] = p[1] /\ p # q
    BY <1>1
  <1> QED
    BY <1>1, <1>2, <1>3, <1>4 DEF q

(* What a file holds of the facts that were written.                        *)
LEMMA YamlIs ==
  ASSUME NEW K, NEW G, DOMAIN G \subseteq Seq(K) \ {<<>>}, Whole(G)
  PROVE  IsStored(Yaml(G), G)
  <1> DEFINE elements == {p \in DOMAIN G : G[p].kind = "element"}
             entries == UNION {{Append(p, f) : f \in DOMAIN G[p].fields} : p \in elements}
             E == Yaml(G)
             M == K \cup UNION {DOMAIN G[p].fields : p \in elements}
  <1>1. /\ DOMAIN E = DOMAIN G \cup entries
        /\ \A p \in DOMAIN G : p \notin entries =>
              E[p] = CASE p \in elements -> Branch
                       [] G[p].kind = "float" /\ G[p].value < SmallFloat -> Num(G[p].value)
                       [] OTHER -> G[p]
    <2> DEFINE V(p) == CASE p \in entries -> G[Front(p)].fields[Last(p)]
                         [] p \in elements -> Branch
                         [] G[p].kind = "float" /\ G[p].value < SmallFloat -> Num(G[p].value)
                         [] OTHER -> G[p]
    <2>1. E = [p \in DOMAIN G \cup entries |-> V(p)]
      BY DEF Yaml
    <2>2. \A p : p \notin entries =>
             V(p) = CASE p \in elements -> Branch
                      [] G[p].kind = "float" /\ G[p].value < SmallFloat -> Num(G[p].value)
                      [] OTHER -> G[p]
      <3> HIDE DEF entries, elements
      <3> QED
        OBVIOUS
    <2> HIDE DEF V, E, entries
    <2> QED
      BY <2>1, <2>2
  <1>2. \A q : q \in entries <=> \E o : Entry(G, o, q)
    BY DEF Entry
  <1>3. \A p \in elements : G[p] # Branch
    BY DEF Branch
  <1>4. DOMAIN G \subseteq Seq(M)
    BY SeqMonotonic
  <1>5. ASSUME NEW o, NEW q, Entry(G, o, q)
        PROVE  /\ q \in DOMAIN E /\ q \notin DOMAIN G /\ o \in Way(q) /\ o # q
               /\ q[1] = o[1] /\ Len(q) > 1 /\ q \in Seq(M)
               /\ \A r \in Way(q) : r = q \/ r \in Way(o)
    <2>1. PICK f \in DOMAIN G[o].fields : q = Append(o, f)
      BY <1>5 DEF Entry
    <2>2. o \in elements /\ f \in M
      BY <1>5 DEF Entry
    <2>3. o \in Seq(M) /\ o # <<>> /\ o \in DOMAIN G
      BY <1>4, <2>2
    <2>4. q \in DOMAIN E
      BY <1>1, <1>2, <1>5
    <2> HIDE DEF elements, entries, E, M
    <2>5. /\ q \in Seq(M) /\ Len(q) > 1 /\ q[1] = o[1] /\ o \in Way(q) /\ o # q
          /\ \A r \in Way(q) : r = q \/ r \in Way(o)
      BY <2>1, <2>2, <2>3, EntryIs
    <2>6. q \notin DOMAIN G
      BY <1>3, <2>2, <2>5 DEF Whole
    <2> QED
      BY <2>4, <2>5, <2>6
  <1>6. ASSUME NEW p \in DOMAIN G
        PROVE  E[p] = IF G[p].kind = "element" THEN Branch ELSE Stored(G[p])
    <2>1. p \notin entries
      BY <1>2, <1>5
    <2>2. p \in elements <=> G[p].kind = "element"
      OBVIOUS
    <2> HIDE DEF entries, elements, E
    <2> QED
      BY <1>1, <2>1, <2>2 DEF Stored
  <1> HIDE DEF entries, elements, E, M
  <1>7. ASSUME NEW p \in DOMAIN E PROVE Way(p) \subseteq DOMAIN E /\ p \in Seq(M)
    <2>1. CASE p \in DOMAIN G
      <3>1. Way(p) \subseteq DOMAIN G
        BY <2>1 DEF Whole
      <3> QED
        BY <1>1, <1>4, <2>1, <3>1
    <2>2. ASSUME NEW o, Entry(G, o, p) PROVE Way(p) \subseteq DOMAIN E /\ p \in Seq(M)
      <3>1. Way(o) \subseteq DOMAIN G
        BY <2>2 DEF Whole, Entry
      <3> QED
        BY <1>1, <1>5, <2>2, <3>1
    <2> QED
      BY <1>1, <1>2, <2>1, <2>2
  <1>8. /\ \A p \in DOMAIN E : p \in DOMAIN G \/ \E o : Entry(G, o, p)
        /\ \A p \in DOMAIN G : p \in DOMAIN E
    BY <1>1, <1>2
  <1>9. \E L : DOMAIN E \subseteq Seq(L)
    BY <1>7
  <1>10. IsStored(E, G)
    BY <1>5, <1>6, <1>7, <1>8, <1>9, Zenon DEF IsStored
  <1> QED
    BY <1>10 DEF E

(* Elements in facts have fields.                                           *)
LEMMA FieldsOf ==
  ASSUME NEW t, Consistent(t), NEW p \in DOMAIN ProcessFacts(t),
         ProcessFacts(t)[p].kind = "element"
  PROVE  DOMAIN ProcessFacts(t)[p].fields # {}
  <1> DEFINE F == ProcessFacts(t)
             v == F[p]
  <1>1. <<p, v>> \in Said(t)
    <2>1. v # Branch
      BY DEF Branch
    <2>2. <<p, v>> \in Lines(F)
      BY <2>1, LinesOf
    <2> QED
      BY <2>2, FactsSayTheTables
  <1>2. PICK i \in 1..7 : <<p, v>> \in SaidBy(t, i)
    BY <1>1 DEF Said, NumQuestions
  <1>9. PICK k \in DOMAIN t[i] :
           \E place \in Places(i, t[i][k]) : v = Shown(i, Lookup(t[i][k], place[1]))
    <2> HIDE DEF v, F
    <2>1. PICK k \in DOMAIN t[i] :
             <<p, v>> \in {<<Key(i, t[i][k]) \o place[2], Shown(i, Lookup(t[i][k], place[1]))>> :
                              place \in Places(i, t[i][k])}
      BY <1>2 DEF SaidBy
    <2>2. PICK place \in Places(i, t[i][k]) :
             <<p, v>> = <<Key(i, t[i][k]) \o place[2], Shown(i, Lookup(t[i][k], place[1]))>>
      BY <2>1
    <2> QED
      BY <2>2
  <1>3. PICK place \in Places(i, t[i][k]) : v = Shown(i, Lookup(t[i][k], place[1]))
    BY <1>9
  <1>4. v.kind = "element"
    OBVIOUS
  <1> DEFINE w == Lookup(t[i][k], place[1])
  <1> HIDE DEF F, v
  <1>5. v = w /\ w.kind = "element"
    <2>1. w.kind # "wrapper"
      <3> SUFFICES ASSUME w.kind = "wrapper" PROVE FALSE
        OBVIOUS
      <3>1. v = List(IF i = 1 THEN Unconstructed(w.items) ELSE w.items)
        BY <1>3 DEF Shown
      <3>2. v.kind = "list"
        BY <3>1 DEF List
      <3> QED
        BY <1>4, <3>2
    <2> HIDE DEF w
    <2>2. v = w
      BY <1>3, <2>1 DEF Shown, w
    <2> QED
      BY <1>4, <2>2
  <1>6. place[1] \in DOMAIN t[i][k] /\ w = t[i][k][place[1]]
    BY <1>5 DEF Lookup, Nil
  <1>7. DOMAIN w.fields # {}
    BY <1>5, <1>6, ZenonT(30) DEF Consistent, WellFormed
  <1> QED
    BY <1>5, <1>7 DEF F, v

(* The facts of one node.                                                   *)
LEMMA OfOne ==
  ASSUME NEW K, NEW T, DOMAIN T \subseteq Seq(K) \ {<<>>}, Whole(T), NEW n
  PROVE  /\ DOMAIN Of(T, {n}) = {p \in DOMAIN T : p[1] = n}
         /\ \A p \in DOMAIN Of(T, {n}) : Of(T, {n})[p] = T[p]
         /\ \A p \in DOMAIN T : \A c \in Way(p) : c[1] = p[1]
         /\ Whole(Of(T, {n}))
  <1> DEFINE G == Of(T, {n})
  <1>1. DOMAIN G = {p \in DOMAIN T : p[1] = n} /\ \A p \in DOMAIN G : G[p] = T[p]
    BY DEF Of
  <1>2. ASSUME NEW p \in DOMAIN T, NEW c \in Way(p) PROVE c[1] = p[1]
    <2>1. p \in Seq(K)
      BY <1>2
    <2>2. Len(c) \in 1..Len(p) /\ \A i \in 1..Len(c) : c[i] = p[i]
      BY <1>2, <2>1, WayIs
    <2>3. Len(p) \in Nat
      BY <2>1
    <2>4. 1 \in 1..Len(c)
      BY <2>2, <2>3
    <2> QED
      BY <2>2, <2>4
  <1> HIDE DEF G
  <1>3. Whole(G)
    BY <1>1, <1>2 DEF Whole
  <1> QED
    BY <1>1, <1>2, <1>3 DEF G

(* A cell that is not in the actual facts, or otherwise.                    *)
CellDiffers(A, F, p) ==
  /\ p \in DOMAIN F /\ F[p] # Branch
  /\ \/ F[p].kind = "element"
     \/ p \notin DOMAIN A \/ A[p] = Branch \/ ~Alike(Stored(F[p]), A[p])

(* A file has maps where the facts do.                                      *)
LEMMA StoredIs ==
  ASSUME NEW v
  PROVE  /\ v # Branch => Stored(v) # Branch
         /\ Stored(Branch) = Branch
  <1>1. Branch.kind # "float" /\ \A n : Num(n).kind # Branch.kind
    BY DEF Branch, Num
  <1>2. \A n : Num(n) # Branch
    BY <1>1
  <1> QED
    BY <1>1, <1>2 DEF Stored

(* What is stored differs from the actual facts where a cell of it does.    *)
LEMMA CellsDiffer ==
  ASSUME NEW KF, NEW F, DOMAIN F \subseteq Seq(KF) \ {<<>>}, Whole(F), Grown(F),
         \A p \in DOMAIN F : F[p].kind = "element" => DOMAIN F[p].fields # {},
         NEW A, Whole(A), Grown(A), NEW n, NEW E, IsStored(E, Of(F, {n}))
  PROVE  (\E p \in DOMAIN E : p[1] = n /\ Len(p) > 1 /\ Differs(A, E, p))
            <=> \E p : p[1] = n /\ CellDiffers(A, F, p)
  <1> DEFINE G == Of(F, {n})
  <1>1. /\ DOMAIN G = {p \in DOMAIN F : p[1] = n}
        /\ \A p \in DOMAIN G : G[p] = F[p]
        /\ \A p \in DOMAIN F : \A c \in Way(p) : c[1] = p[1]
    BY OfOne
  <1>2. IsStored(E, G)
    OBVIOUS
  <1> HIDE DEF G
  <1>3. \A p \in DOMAIN A : /\ Way(p) \subseteq DOMAIN A
                            /\ \A c \in Way(p) : c # p => A[c] = Branch
                            /\ A[p] = Branch <=> MapAt(p)
    BY DEF Whole, Grown
  <1>4. \A p \in DOMAIN F : F[p] = Branch <=> MapAt(p)
    BY DEF Grown
  <1>5. ASSUME NEW p, p[1] = n, CellDiffers(A, F, p)
        PROVE  \E q \in DOMAIN E : q[1] = n /\ Len(q) > 1 /\ Differs(A, E, q)
    <2>1. p \in DOMAIN G /\ G[p] = F[p] /\ F[p] # Branch
      BY <1>1, <1>5 DEF CellDiffers
    <2>2. ~MapAt(p)
      BY <1>4, <2>1, <1>1
    <2>3. CASE F[p].kind = "element"
      <3>1. PICK f : f \in DOMAIN F[p].fields
        BY <1>1, <2>1, <2>3
      <3> DEFINE q == Append(p, f)
      <3>2. Entry(G, p, q)
        BY <2>1, <2>3, <3>1 DEF Entry
      <3> HIDE DEF q
      <3>3. q \in DOMAIN E /\ p \in Way(q) /\ p # q /\ q[1] = p[1] /\ Len(q) > 1
        BY <1>2, <3>2 DEF IsStored
      <3>4. q \notin DOMAIN A
        BY <1>3, <2>2, <3>3
      <3> QED
        BY <1>5, <3>3, <3>4 DEF Differs
    <2>4. CASE F[p].kind # "element"
      <3>1. p \in DOMAIN E /\ E[p] = Stored(F[p])
        BY <1>2, <2>1, <2>4 DEF IsStored
      <3>2. E[p] # Branch
        BY <2>1, <3>1, StoredIs
      <3>3. Len(p) > 1
        <4>1. p \in Seq(KF) /\ p # <<>>
          BY <1>1, <2>1
        <4>2. Len(p) \in Nat \ {0}
          BY <4>1, EmptySeq
        <4>3. Len(p) # 1
          BY <2>2 DEF MapAt
        <4> DEFINE m == Len(p)
        <4>4. m \in Nat \ {0} /\ m # 1
          BY <4>2, <4>3
        <4> HIDE DEF m
        <4>5. m > 1
          BY <4>4
        <4> QED
          BY <4>5 DEF m
      <3>4. p \in DOMAIN A => ~ValueMatches(A[p], E[p])
        <4> HAVE p \in DOMAIN A
        <4>1. A[p] # Branch
          BY <1>3, <2>2
        <4>2. ~Alike(Stored(F[p]), A[p])
          BY <1>5, <2>4, <4>1 DEF CellDiffers
        <4> QED
          BY <3>1, <4>2, MatchesIsAlike
      <3> QED
        BY <1>5, <3>1, <3>2, <3>3, <3>4 DEF Differs
    <2> QED
      BY <2>3, <2>4
  <1>6. ASSUME NEW p \in DOMAIN E, p[1] = n, Len(p) > 1, Differs(A, E, p)
        PROVE  \E q : q[1] = n /\ CellDiffers(A, F, q)
    <2>1. ASSUME NEW o, Entry(G, o, p) PROVE o[1] = n /\ CellDiffers(A, F, o)
      <3>1. o \in DOMAIN G /\ G[o].kind = "element"
        BY <2>1 DEF Entry
      <3>2. o \in DOMAIN F /\ F[o].kind = "element" /\ o[1] = n
        BY <1>1, <3>1
      <3>3. F[o] # Branch
        BY <3>2 DEF Branch
      <3> QED
        BY <3>2, <3>3 DEF CellDiffers
    <2>2. CASE p \in DOMAIN G
      <3>1. p \in DOMAIN F /\ G[p] = F[p]
        BY <1>1, <2>2
      <3>2. E[p] = IF F[p].kind = "element" THEN Branch ELSE Stored(F[p])
        BY <1>2, <2>2, <3>1 DEF IsStored
      <3>3. CASE F[p].kind = "element"
        <4>1. F[p] # Branch
          BY <3>3 DEF Branch
        <4> QED
          BY <1>6, <3>1, <3>3, <4>1 DEF CellDiffers
      <3>4. CASE F[p].kind # "element" /\ F[p] # Branch
        <4>1. E[p] = Stored(F[p])
          BY <3>2, <3>4
        <4>2. p \notin DOMAIN A \/ ~Alike(Stored(F[p]), A[p])
          BY <1>6, <4>1, MatchesIsAlike DEF Differs
        <4> QED
          BY <1>6, <3>1, <3>4, <4>2 DEF CellDiffers
      <3>5. CASE F[p] = Branch
        <4>1. E[p] = Branch
          <5>1. Branch.kind # "element"
            BY DEF Branch
          <5> QED
            BY <3>2, <3>5, <5>1, StoredIs
        <4>2. p \notin DOMAIN A
          BY <1>6, <4>1 DEF Differs
        <4>3. PICK q \in DOMAIN F : F[q] # Branch /\ Shows(q, p)
          BY <1>6, <3>1, <3>5 DEF Grown
        <4>4. q \notin DOMAIN A
          <5> SUFFICES ASSUME q \in DOMAIN A PROVE FALSE
            OBVIOUS
          <5>1. p \notin Way(q)
            BY <1>3, <4>2
          <5>2. PICK o \in Way(q) : Len(o) = 2 /\ o[2] = "BGP" /\ p = o \o <<"Neighbors">>
            BY <4>3, <5>1 DEF Shows
          <5>3. o \in DOMAIN A
            BY <1>3, <5>2
          <5>4. p \in DOMAIN A
            BY <5>2, <5>3 DEF Grown
          <5> QED
            BY <4>2, <5>4
        <4>5. q[1] = p[1]
          <5>1. CASE p \in Way(q)
            BY <1>1, <4>3, <5>1
          <5>2. CASE p \notin Way(q)
            <6>1. PICK o \in Way(q) : Len(o) = 2 /\ o[2] = "BGP" /\ p = o \o <<"Neighbors">>
              BY <4>3, <5>2 DEF Shows
            <6>2. o[1] = q[1]
              BY <1>1, <4>3, <6>1
            <6>3. p[1] = o[1]
              <7>1. q \in Seq(KF)
                BY <4>3
              <7>2. o \in Seq(KF)
                BY <6>1, <7>1, WayIs
              <7> DEFINE M == KF \cup {"Neighbors"}
                         d == <<"Neighbors">>
              <7>3. o \in Seq(M)
                BY <7>2, SeqMonotonic
              <7>4. d \in Seq(M)
                OBVIOUS
              <7> HIDE DEF M, d
              <7>5. o # <<>>
                BY <6>1, <7>3, EmptySeq
              <7>6. (o \o d)[1] = o[1]
                <8>1. \A i \in 1..Len(o) : (o \o d)[i] = o[i]
                  BY <7>3, <7>4, <7>5, BelowIs
                <8>2. 1 \in 1..Len(o)
                  BY <6>1
                <8> QED
                  BY <8>1, <8>2
              <7> QED
                BY <6>1, <7>6 DEF d
            <6> QED
              BY <6>2, <6>3
          <5> QED
            BY <5>1, <5>2
        <4> QED
          BY <1>6, <4>3, <4>4, <4>5 DEF CellDiffers
      <3> QED
        BY <3>3, <3>4, <3>5
    <2> QED
      BY <1>2, <2>1, <2>2 DEF IsStored
  <1> QED
    BY <1>5, <1>6

------------------------------------------------------------------------------
(* VALIDATION                                                               *)

(* The comparison does not look at other nodes.                             *)
LEMMA OneNode ==
  ASSUME NEW A, NEW mine, NEW n
  PROVE  AssertDictSubset(A, mine, n) = AssertDictSubset(A, Of(mine, {n}), n)
  <1> DEFINE E == Of(mine, {n})
  <1>1. DOMAIN E = {p \in DOMAIN mine : p[1] = n} /\ \A p \in DOMAIN E : E[p] = mine[p]
    BY DEF Of
  <1> HIDE DEF E
  <1>2. AssertDictSubset(A, mine, n) = AssertDictSubset(A, E, n)
    BY <1>1 DEF AssertDictSubset
  <1> QED
    BY <1>2 DEF E

(* The cells that differ are the lines that the other tables do not say.    *)
LEMMA CellsAreLines ==
  ASSUME NEW t, Consistent(t), NEW u, Consistent(u), NEW n
  PROVE  (\E p : p[1] = n /\ CellDiffers(ProcessFacts(u), ProcessFacts(t), p)) <=>
            \E line \in Said(t) : line[1][1] = n /\ NotSaid(line, u)
  <1> DEFINE F == ProcessFacts(t)
             A == ProcessFacts(u)
  <1>1. \A x : x \in Said(t) <=> \E p \in DOMAIN F : F[p] # Branch /\ x = <<p, F[p]>>
    BY FactsSayTheTables, LinesOf
  <1>2. \A x : x \in Said(u) <=> \E p \in DOMAIN A : A[p] # Branch /\ x = <<p, A[p]>>
    BY FactsSayTheTables, LinesOf
  <1> HIDE DEF F, A
  <1>3. ASSUME NEW p \in DOMAIN F, F[p] # Branch
        PROVE  CellDiffers(A, F, p) <=> NotSaid(<<p, F[p]>>, u)
    <2> DEFINE Other(v) == \E other \in Said(u) : other[1] = p /\ other[2] = v
    <2>1. \A v : Other(v) <=> p \in DOMAIN A /\ A[p] # Branch /\ A[p] = v
      <3> TAKE v
      <3>1. ASSUME Other(v) PROVE p \in DOMAIN A /\ A[p] # Branch /\ A[p] = v
        <4>1. PICK other \in Said(u) : other[1] = p /\ other[2] = v
          BY <3>1
        <4>2. PICK q \in DOMAIN A : A[q] # Branch /\ other = <<q, A[q]>>
          BY <1>2
        <4> QED
          BY <4>1, <4>2
      <3>2. ASSUME p \in DOMAIN A, A[p] # Branch, A[p] = v PROVE Other(v)
        <4> DEFINE other == <<p, A[p]>>
        <4>1. other \in Said(u) /\ other[1] = p /\ other[2] = v
          BY <1>2, <3>2
        <4> QED
          BY <4>1
      <3> QED
        BY <3>1, <3>2
    <2>2. NotSaid(<<p, F[p]>>, u) <=>
             F[p].kind = "element" \/ \A v : Other(v) => ~Alike(Stored(F[p]), v)
      BY DEF NotSaid
    <2> HIDE DEF Other
    <2> QED
      BY <1>3, <2>1, <2>2 DEF CellDiffers
  <1>4. ASSUME NEW p, p[1] = n, CellDiffers(A, F, p)
        PROVE  \E line \in Said(t) : line[1][1] = n /\ NotSaid(line, u)
    <2> DEFINE line == <<p, F[p]>>
    <2>1. p \in DOMAIN F /\ F[p] # Branch
      BY <1>4 DEF CellDiffers
    <2>2. NotSaid(line, u)
      BY <1>3, <1>4, <2>1
    <2>3. line[1] = p
      OBVIOUS
    <2>4. line \in Said(t)
      BY <1>1, <2>1
    <2> HIDE DEF line
    <2> QED
      BY <1>4, <2>2, <2>3, <2>4
  <1>5. ASSUME NEW line \in Said(t), line[1][1] = n, NotSaid(line, u)
        PROVE  \E p : p[1] = n /\ CellDiffers(A, F, p)
    <2>1. PICK p \in DOMAIN F : F[p] # Branch /\ line = <<p, F[p]>>
      BY <1>1
    <2>2. p[1] = n
      BY <1>5, <2>1
    <2>3. CellDiffers(A, F, p)
      <3> QED
        BY <1>3, <1>5, <2>1
    <2> QED
      BY <2>2, <2>3
  <1>6. (\E p : p[1] = n /\ CellDiffers(A, F, p)) <=>
           \E line \in Said(t) : line[1][1] = n /\ NotSaid(line, u)
    BY <1>4, <1>5
  <1> QED
    BY <1>6 DEF F, A

(* A node with facts of one snapshot is reported for what the tables of     *)
(* another do not say.                                                      *)
LEMMA DifferencesAreReported ==
  ASSUME NEW t, Consistent(t), NEW u, Consistent(u), NEW n, NEW mine,
         Of(mine, {n}) = Yaml(Of(ProcessFacts(t), {n}))
  PROVE  AssertDictSubset(ProcessFacts(u), mine, n) # {} <=>
            \E line \in Said(t) : line[1][1] = n /\ NotSaid(line, u)
  <1> DEFINE F == ProcessFacts(t)
             A == ProcessFacts(u)
             E == Yaml(Of(F, {n}))
             KF == AllKeys(t)
  <1>1. /\ Whole(F) /\ DOMAIN F \subseteq Seq(KF) \ {<<>>} /\ Grown(F)
        /\ Whole(A) /\ Grown(A)
        /\ \A p \in DOMAIN F : F[p].kind = "element" => DOMAIN F[p].fields # {}
    BY FactsAreWhole, FactsAreGrown, FieldsOf
  <1>2. (\E p : p[1] = n /\ CellDiffers(A, F, p)) <=>
            \E line \in Said(t) : line[1][1] = n /\ NotSaid(line, u)
    BY CellsAreLines
  <1>3. AssertDictSubset(A, mine, n) = AssertDictSubset(A, E, n)
    BY OneNode
  <1> HIDE DEF F, A, KF
  <1>4. IsStored(E, Of(F, {n}))
    <2>1. DOMAIN Of(F, {n}) \subseteq Seq(KF) \ {<<>>} /\ Whole(Of(F, {n}))
      BY <1>1, OfOne, ZenonT(30)
    <2> QED
      BY <2>1, YamlIs
  <1> HIDE DEF E
  <1>5. (\E p \in DOMAIN E : p[1] = n /\ Len(p) > 1 /\ Differs(A, E, p))
           <=> \E p : p[1] = n /\ CellDiffers(A, F, p)
    BY <1>1, <1>4, CellsDiffer
  <1>6. AssertDictSubset(A, E, n) # {} <=>
           \E p \in DOMAIN E : p[1] = n /\ Len(p) > 1 /\ Differs(A, E, p)
    <2>1. PICK K : DOMAIN E \subseteq Seq(K)
      BY <1>4 DEF IsStored
    <2>2. \A p \in DOMAIN E : Way(p) \subseteq DOMAIN E
      BY <1>4 DEF IsStored
    <2> QED
      BY <1>1, <2>1, <2>2, Reported
  <1>7. AssertDictSubset(A, mine, n) # {} <=>
            \E line \in Said(t) : line[1][1] = n /\ NotSaid(line, u)
    BY <1>2, <1>3, <1>5, <1>6
  <1> QED
    BY <1>7 DEF A

(* ValidateFacts reports a node of an expected file exactly if the tables   *)
(* of the snapshot behind it say a cell that those of the validated one do  *)
(* not, and reports no node that the files do not have.                     *)
THEOREM ValidationFinds == Spec => []ValidationFindsEveryDifference
  <1>1. ASSUME IInv, Outcomes PROVE ValidationFindsEveryDifference
    <2> SUFFICES
          ASSUME NEW c \in Callers, call[c].phase = "done", call[c].op = "validate",
                 call[c].loaded.version = BatfishFactVersion
          PROVE  LET mine == call[c].loaded.nodes
                 IN  /\ call[c].failures \subseteq Nodes(mine)
                     /\ \A scope \in Scopes, n \in Nodes(mine) :
                           Of(mine, {n}) = Yaml(Of(ProcessFacts(Tables[scope]), {n})) =>
                           (n \in call[c].failures <=>
                              \E line \in Said(Tables[scope]) : line[1][1] = n
                                 /\ NotSaid(line, TablesOf(call[c].asked)))
      BY DEF ValidationFindsEveryDifference
    <2> DEFINE q == call[c]
               u == TablesOf(q.asked)
               mine == q.loaded.nodes
    <2>1. InScope(q, network, snapshot) /\ Outcome(q)
      BY <1>1 DEF IInv, Outcomes
    <2>2. q.phase = "done" /\ q.op = "validate" /\ q.loaded.version = BatfishFactVersion
      OBVIOUS
    <2> HIDE DEF q
    <2>3. q.asked \in Seq(Scopes) /\ Len(q.asked) = NumQuestions
      BY <2>1, <2>2 DEF InScope, Outcome, Settled
    <2>4. Consistent(u)
      BY <2>3, AskedTables
    <2>5. q.failures = ValidateFacts(q.loaded, ProcessFacts(u))
      BY <2>1, <2>2 DEF Outcome
    <2>6. q.failures = {n \in Nodes(mine) : AssertDictSubset(ProcessFacts(u), mine, n) # {}}
      BY <2>2, <2>5 DEF ValidateFacts
    <2> HIDE DEF u, mine
    <2>7. ASSUME NEW scope \in Scopes, NEW n \in Nodes(mine),
                 Of(mine, {n}) = Yaml(Of(ProcessFacts(Tables[scope]), {n}))
          PROVE  n \in q.failures <=>
                    \E line \in Said(Tables[scope]) : line[1][1] = n /\ NotSaid(line, u)
      <3>1. Consistent(Tables[scope])
        BY SnapshotTables
      <3>2. AssertDictSubset(ProcessFacts(u), mine, n) # {} <=>
               \E line \in Said(Tables[scope]) : line[1][1] = n /\ NotSaid(line, u)
        BY <2>4, <2>7, <3>1, DifferencesAreReported
      <3> QED
        BY <2>6, <3>2
    <2>8. q.failures \subseteq Nodes(mine)
      BY <2>6
    <2> QED
      BY <2>7, <2>8 DEF q, u, mine
  <1> QED
    BY <1>1, FactsInvariant, FactsOutcomes, PTL
=============================================================================
