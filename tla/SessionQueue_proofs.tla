------------------------ MODULE SessionQueue_proofs ------------------------
(***************************************************************************)
(* Theorems about one listening session, for every catalog, every number   *)
(* of concurrent client calls and refills, and every limit; and, at the    *)
(* end, about the registry that session is in.                             *)
(***************************************************************************)
EXTENDS SessionQueue, Integers, SequenceTheorems, FiniteSetTheorems,
        WellFoundedInduction, TLAPS

-----------------------------------------------------------------------------
(* What the queue operations return, for queues of any length.             *)

(***************************************************************************)
(* A nonempty set of natural numbers has a least element.                  *)
(***************************************************************************)
LEMMA LeastNat ==
  ASSUME NEW M \in SUBSET Nat, M # {}
  PROVE  \E m \in M : \A k \in M : m <= k
<1>1. PICK m \in M : \A k \in M : <<k, m>> \notin OpToRel(<, Nat)
  BY WFMin, NatLessThanWellFounded, M \subseteq Nat
<1>2. ASSUME NEW k \in M PROVE m <= k
  <2>1. k \in Nat /\ m \in Nat
    OBVIOUS
  <2>2. ~(k < m)
    <3>1. SUFFICES ASSUME k < m PROVE FALSE
      OBVIOUS
    <3>2. <<k, m>> \in Nat \X Nat /\ <<k, m>>[1] < <<k, m>>[2]
      BY <2>1, <3>1
    <3>3. <<k, m>> \in OpToRel(<, Nat)
      BY <3>2, Zenon DEF OpToRel
    <3> QED BY <3>3, <1>1
  <2> QED BY <2>1, <2>2
<1> QED BY <1>2

(***************************************************************************)
(* A set of positions of a sequence is finite and has at most as many      *)
(* members as the sequence is long.                                        *)
(***************************************************************************)
LEMMA PositionsFinite ==
  ASSUME NEW n \in Nat, NEW I \in SUBSET (1..n)
  PROVE  IsFiniteSet(I) /\ Cardinality(I) \in 0..n
<1>1. IsFiniteSet(1..n) /\ Cardinality(1..n) = n
  BY FS_Interval
<1>2. IsFiniteSet(I) /\ Cardinality(I) <= n
  BY <1>1, FS_Subset
<1> QED BY <1>2, FS_CardinalityType

(***************************************************************************)
(* Every k up to the size of a set of positions has a k-th smallest member *)
(* (the first position with k members up to it is the witness).            *)
(***************************************************************************)
LEMMA NthExists ==
  ASSUME NEW n \in Nat, NEW I \in SUBSET (1..n), NEW k \in 1..Cardinality(I)
  PROVE  /\ Nth(I, k) \in I
         /\ Cardinality({j \in I : j <= Nth(I, k)}) = k
<1> DEFINE UpTo(m) == {j \in I : j <= m}
           M == {m \in 0..n : Cardinality(UpTo(m)) >= k}
<1>1. \A m \in 0..n : IsFiniteSet(UpTo(m)) /\ Cardinality(UpTo(m)) \in Nat
  BY PositionsFinite, FS_Subset, FS_CardinalityType
<1>0. I \subseteq Int /\ \A j \in I : 1 <= j /\ j <= n
  OBVIOUS
<1>2. UpTo(n) = I /\ UpTo(0) = {}
  <2>1. \A j \in I : j <= n /\ ~(j <= 0)
    BY <1>0
  <2> QED BY <2>1
<1>3. Cardinality(I) \in Nat /\ k \in Nat /\ k >= 1 /\ k <= Cardinality(I)
  BY PositionsFinite
<1>4. \E m \in 0..n : /\ Cardinality(UpTo(m)) >= k
                      /\ \A i \in 0..n : Cardinality(UpTo(i)) >= k => m <= i
  <2>1. n \in M
    BY <1>2, <1>3
  <2>2. M \in SUBSET Nat /\ M # {}
    BY <2>1
  <2>3. \E m \in M : \A i \in M : m <= i
    <3> HIDE DEF M
    <3> QED BY <2>2, LeastNat
  <2> HIDE DEF UpTo
  <2> QED BY <2>3
<1>5. PICK m \in 0..n : /\ Cardinality(UpTo(m)) >= k
                        /\ \A i \in 0..n : Cardinality(UpTo(i)) >= k => m <= i
  BY <1>4
<1>6. m \in Int /\ m # 0 /\ m - 1 \in 0..n
  <2>1. Cardinality(UpTo(0)) = 0
    BY <1>2, FS_EmptySet
  <2> HIDE DEF UpTo
  <2> QED BY <2>1, <1>3, <1>5
<1>7. UpTo(m) = UpTo(m - 1) \cup ({m} \cap I) /\ m \notin UpTo(m - 1)
  <2>1. \A j \in I : j <= m <=> j <= m - 1 \/ j = m
    BY <1>0, <1>6
  <2>2. ~(m <= m - 1)
    BY <1>6
  <2> QED BY <2>1, <2>2
<1>8. Cardinality(UpTo(m)) \in Nat /\ Cardinality(UpTo(m - 1)) \in Nat
  <2> HIDE DEF UpTo
  <2> QED BY <1>1, <1>5, <1>6
<1>9. Cardinality(UpTo(m - 1)) < k
  <2> HIDE DEF UpTo
  <2>1. ~(Cardinality(UpTo(m - 1)) >= k)
    BY <1>5, <1>6
  <2> QED BY <2>1, <1>8, <1>3
<1>10. m \in I
  <2>1. SUFFICES ASSUME m \notin I PROVE FALSE
    OBVIOUS
  <2> HIDE DEF UpTo
  <2>2. UpTo(m) = UpTo(m - 1)
    BY <2>1, <1>7
  <2> QED BY <2>2, <1>3, <1>5, <1>8, <1>9
<1>11. Cardinality(UpTo(m)) = k
  <2> HIDE DEF UpTo
  <2>1. UpTo(m) = UpTo(m - 1) \cup {m}
    BY <1>7, <1>10
  <2>2. Cardinality(UpTo(m)) = Cardinality(UpTo(m - 1)) + 1
    BY <2>1, <1>1, <1>6, <1>7, FS_AddElement
  <2> QED BY <2>2, <1>3, <1>5, <1>8, <1>9
<1> QED BY <1>10, <1>11 DEF Nth

(***************************************************************************)
(* The filter Only returns a sequence over the kept tracks, no longer than *)
(* its argument, and invents none.                                         *)
(***************************************************************************)
LEMMA OnlyType ==
  ASSUME NEW T, NEW s \in Seq(T), NEW S
  PROVE  /\ Only(s, S) \in Seq(T \cap S)
         /\ Only(s, S) \in Seq(T)
         /\ Len(Only(s, S)) <= Len(s)
         /\ Range(Only(s, S)) \subseteq Range(s) \cap S
<1> DEFINE I == Positions(s, S)
           c == Cardinality(I)
<1>1. Len(s) \in Nat /\ s \in [1..Len(s) -> T]
  BY LenProperties
<1>2. I \in SUBSET (1..Len(s))
  BY DEF Positions
<1>3. c \in 0..Len(s)
  BY <1>1, <1>2, PositionsFinite
<1>4. \A k \in 1..c : Nth(I, k) \in 1..Len(s) /\ s[Nth(I, k)] \in S
  <2>1. \A k \in 1..c : Nth(I, k) \in I
    BY <1>1, <1>2, NthExists
  <2> QED BY <2>1 DEF Positions
<1>5. Only(s, S) = [k \in 1..c |-> s[Nth(I, k)]]
  BY DEF Only
<1> HIDE DEF I, c
<1>6. \A k \in 1..c : s[Nth(I, k)] \in T \cap S /\ s[Nth(I, k)] \in Range(s)
  BY <1>1, <1>4 DEF Range
<1>7. Only(s, S) \in [1..c -> T \cap S] /\ Only(s, S) \in [1..c -> T]
  BY <1>5, <1>6
<1>8. Only(s, S) \in Seq(T \cap S) /\ Only(s, S) \in Seq(T)
  BY <1>7, <1>3
<1>9. Len(Only(s, S)) = c
  BY <1>7, <1>3, <1>8
<1>10. Range(Only(s, S)) \subseteq Range(s) \cap S
  BY <1>5, <1>6 DEF Range
<1> QED BY <1>1, <1>3, <1>8, <1>9, <1>10

(***************************************************************************)
(* Every member of a set of positions is its k-th smallest for some k.     *)
(***************************************************************************)
LEMMA NthOnto ==
  ASSUME NEW n \in Nat, NEW I \in SUBSET (1..n), NEW i \in I
  PROVE  \E k \in 1..Cardinality(I) : Nth(I, k) = i
<1> DEFINE UpTo(m) == {j \in I : j <= m}
           k == Cardinality(UpTo(i))
<1>1. IsFiniteSet(I) /\ Cardinality(I) \in Nat
  BY PositionsFinite
<1>2. \A m \in I : /\ IsFiniteSet(UpTo(m)) /\ Cardinality(UpTo(m)) \in Nat
                   /\ Cardinality(UpTo(m)) <= Cardinality(I)
  BY <1>1, FS_Subset, FS_CardinalityType
<1>3. k \in 1..Cardinality(I)
  <2>1. i \in UpTo(i)
    OBVIOUS
  <2>2. UpTo(i) # {}
    BY <2>1
  <2> HIDE DEF UpTo
  <2>3. k # 0
    BY <1>2, <2>2, FS_EmptySet
  <2> QED BY <1>1, <1>2, <2>3
<1>4. ASSUME NEW a \in I, NEW b \in I, a < b
      PROVE  Cardinality(UpTo(a)) # Cardinality(UpTo(b))
  <2>1. UpTo(a) \subseteq UpTo(b) /\ b \in UpTo(b) /\ b \notin UpTo(a)
    <3>1. \A j \in I : j <= a => j <= b
      BY <1>4
    <3>2. b <= b /\ ~(b <= a)
      BY <1>4
    <3> QED BY <3>1, <3>2
  <2> HIDE DEF UpTo
  <2> QED BY <1>2, <2>1, FS_Subset
<1>5. \A a \in I : Cardinality(UpTo(a)) = k => a = i
  <2> SUFFICES ASSUME NEW a \in I, Cardinality(UpTo(a)) = k, a # i PROVE FALSE
    OBVIOUS
  <2>1. a \in Int /\ i \in Int
    OBVIOUS
  <2>2. a < i \/ i < a
    BY <2>1
  <2> HIDE DEF UpTo
  <2> QED BY <1>4, <2>2 DEF k
<1>6. Nth(I, k) = i
  BY <1>5 DEF Nth
<1> QED BY <1>3, <1>6

(***************************************************************************)
(* The filter Only loses none of the tracks it is to keep.                 *)
(***************************************************************************)
LEMMA OnlyKeeps ==
  ASSUME NEW T, NEW s \in Seq(T), NEW S
  PROVE  Range(s) \cap S \subseteq Range(Only(s, S))
<1> DEFINE I == Positions(s, S)
<1>1. Len(s) \in Nat /\ DOMAIN s = 1..Len(s)
  BY LenProperties
<1>2. I \in SUBSET (1..Len(s))
  BY DEF Positions
<1> SUFFICES ASSUME NEW t \in Range(s) \cap S PROVE t \in Range(Only(s, S))
  OBVIOUS
<1>3. PICK i \in I : s[i] = t
  BY <1>1 DEF Range, Positions
<1>4. PICK k \in 1..Cardinality(I) : Nth(I, k) = i
  BY <1>1, <1>2, NthOnto
<1>5. Only(s, S)[k] = t /\ k \in DOMAIN Only(s, S)
  BY <1>3, <1>4 DEF Only
<1> QED BY <1>5 DEF Range

(***************************************************************************)
(* filterOut keeps the type and drops the track.                           *)
(***************************************************************************)
LEMMA WithoutType ==
  ASSUME NEW T, NEW s \in Seq(T), NEW t
  PROVE  /\ Without(s, t) \in Seq(T)
         /\ Range(Without(s, t)) \subseteq Range(s) \ {t}
BY OnlyType DEF Without

(***************************************************************************)
(* filterOut drops no other track.                                         *)
(***************************************************************************)
LEMMA WithoutKeeps ==
  ASSUME NEW T, NEW s \in Seq(T), NEW t
  PROVE  Range(s) \ {t} \subseteq Range(Without(s, t))
BY OnlyKeeps DEF Without

(***************************************************************************)
(* The tracks of a concatenation are the tracks of its parts.              *)
(***************************************************************************)
LEMMA ConcatRange ==
  ASSUME NEW T, NEW s \in Seq(T), NEW u \in Seq(T)
  PROVE  Range(s \o u) = Range(s) \cup Range(u)
<1>1. /\ Len(s) \in Nat /\ DOMAIN s = 1..Len(s)
      /\ Len(u) \in Nat /\ DOMAIN u = 1..Len(u)
      /\ DOMAIN (s \o u) = 1..(Len(s) + Len(u))
      /\ \A i \in 1..(Len(s) + Len(u)) :
           (s \o u)[i] = IF i <= Len(s) THEN s[i] ELSE u[i - Len(s)]
  BY LenProperties, ConcatProperties
<1>2. ASSUME NEW t \in Range(s \o u) PROVE t \in Range(s) \cup Range(u)
  <2>1. PICK i \in 1..(Len(s) + Len(u)) : (s \o u)[i] = t
    BY <1>1, <1>2 DEF Range
  <2>2. CASE i <= Len(s)
    <3>1. i \in 1..Len(s) /\ t = s[i]
      BY <1>1, <2>1, <2>2
    <3> QED BY <1>1, <3>1 DEF Range
  <2>3. CASE ~(i <= Len(s))
    <3>1. i - Len(s) \in 1..Len(u) /\ t = u[i - Len(s)]
      BY <1>1, <2>1, <2>3
    <3> QED BY <1>1, <3>1 DEF Range
  <2> QED BY <2>2, <2>3
<1>3. ASSUME NEW t \in Range(s) PROVE t \in Range(s \o u)
  <2>1. PICK i \in 1..Len(s) : s[i] = t
    BY <1>1, <1>3 DEF Range
  <2>2. i \in 1..(Len(s) + Len(u)) /\ (s \o u)[i] = t
    BY <1>1, <2>1
  <2> QED BY <1>1, <2>2 DEF Range
<1>4. ASSUME NEW t \in Range(u) PROVE t \in Range(s \o u)
  <2>1. PICK i \in 1..Len(u) : u[i] = t
    BY <1>1, <1>4 DEF Range
  <2>2. Len(s) + i \in 1..(Len(s) + Len(u)) /\ (s \o u)[Len(s) + i] = t
    BY <1>1, <2>1
  <2> QED BY <1>1, <2>2 DEF Range
<1> QED BY <1>2, <1>3, <1>4

(***************************************************************************)
(* Truncation keeps the type and bounds the length.                        *)
(***************************************************************************)
LEMMA TakeType ==
  ASSUME NEW T, NEW s \in Seq(T), NEW n \in Nat
  PROVE  Take(s, n) \in Seq(T) /\ Len(Take(s, n)) <= n
<1> DEFINE m == IF Len(s) < n THEN Len(s) ELSE n
<1>1. Len(s) \in Nat /\ m \in Int /\ m <= n /\ m >= 0
  BY LenProperties
<1>2. \A i \in 1..m : s[i] \in T
  BY LenProperties
<1>3. /\ SubSeq(s, 1, m) \in Seq(T)
      /\ Len(SubSeq(s, 1, m)) = IF 1 <= m THEN m - 1 + 1 ELSE 0
  <2> HIDE DEF m
  <2> QED BY <1>1, <1>2, SubSeqProperties
<1> QED BY <1>1, <1>3 DEF Take

(***************************************************************************)
(* A capped push keeps the type and the cap, and every entry it returns is *)
(* an old one or the pushed one.                                           *)
(***************************************************************************)
LEMMA PushCappedType ==
  ASSUME NEW T, NEW s \in Seq(T), NEW e \in T, NEW n \in Nat \ {0}
  PROVE  /\ PushCapped(s, e, n) \in Seq(T)
         /\ Len(PushCapped(s, e, n)) <= n
         /\ Range(PushCapped(s, e, n)) \subseteq Range(s) \cup {e}
<1> DEFINE t == Append(s, e)
           u == SubSeq(t, Len(t) - n + 1, Len(t))
<1>1. /\ t \in Seq(T) /\ Len(s) \in Nat /\ Len(t) = Len(s) + 1
      /\ \A i \in 1..Len(t) : t[i] = IF i <= Len(s) THEN s[i] ELSE e
  BY LenProperties, AppendProperties
<1>2. \A i \in 1..Len(t) : t[i] \in Range(s) \cup {e}
  BY <1>1, LenProperties DEF Range
<1>3. CASE Len(t) > n
  <2>1. PushCapped(s, e, n) = u
    BY <1>3 DEF PushCapped
  <2>2. \A i \in Len(t) - n + 1 .. Len(t) : i \in 1..Len(t) /\ t[i] \in T
    BY <1>1, <1>3, LenProperties
  <2>3. /\ u \in Seq(T) /\ Len(u) = n
        /\ \A i \in 1..n : u[i] = t[Len(t) - n + 1 + i - 1]
    <3>1. Len(t) \in Int /\ Len(t) - n + 1 \in Int /\ Len(t) - n + 1 <= Len(t)
      BY <1>1
    <3> HIDE DEF t
    <3> QED BY <3>1, <2>2, SubSeqProperties
  <2>4. \A i \in 1..n : Len(t) - n + 1 + i - 1 \in 1..Len(t)
    BY <1>1, <1>3
  <2>5. \A i \in 1..n : u[i] \in Range(s) \cup {e}
    BY <2>3, <2>4, <1>2
  <2>6. DOMAIN u = 1..n
    BY <2>3, LenProperties
  <2>7. Range(u) \subseteq Range(s) \cup {e}
    BY <2>5, <2>6 DEF Range
  <2>8. Len(u) <= n
    BY <2>3
  <2> HIDE DEF u
  <2> QED BY <2>1, <2>3, <2>7, <2>8
<1>4. CASE ~(Len(t) > n)
  <2>1. PushCapped(s, e, n) = t
    BY <1>4 DEF PushCapped
  <2>2. DOMAIN t = 1..Len(t)
    BY <1>1, LenProperties
  <2>3. Range(t) \subseteq Range(s) \cup {e}
    BY <1>2, <2>2 DEF Range
  <2>4. Len(t) <= n
    BY <1>1, <1>4
  <2> QED BY <2>1, <1>1, <2>3, <2>4
<1> QED BY <1>3, <1>4

(***************************************************************************)
(* The filter Only repeats no track that its argument has once.            *)
(***************************************************************************)
LEMMA OnlyDupFree ==
  ASSUME NEW T, NEW s \in Seq(T), NEW S, IsDuplicateFree(s)
  PROVE  IsDuplicateFree(Only(s, S))
<1> DEFINE I == Positions(s, S)
           c == Cardinality(I)
           nth(k) == Nth(I, k)
<1>1. Len(s) \in Nat
  BY LenProperties
<1>2. I \in SUBSET (1..Len(s))
  BY DEF Positions
<1>3. c \in Nat
  BY <1>1, <1>2, PositionsFinite
<1>4. \A k \in 1..c : nth(k) \in 1..Len(s)
                      /\ Cardinality({j \in I : j <= nth(k)}) = k
  BY <1>1, <1>2, NthExists
<1>5. Only(s, S) = [k \in 1..c |-> s[nth(k)]]
  BY DEF Only
<1> HIDE DEF I, c, nth
<1>6. Len(Only(s, S)) = c
  BY <1>3, <1>5
<1>7. ASSUME NEW a \in 1..c, NEW b \in 1..c, s[nth(a)] = s[nth(b)]
      PROVE  a = b
  <2>1. nth(a) = nth(b)
    BY <1>4, <1>7 DEF IsDuplicateFree
  <2> QED BY <1>4, <2>1
<1> QED BY <1>5, <1>6, <1>7 DEF IsDuplicateFree

(***************************************************************************)
(* Dropping a track leaves no track twice.                                 *)
(***************************************************************************)
LEMMA WithoutDupFree ==
  ASSUME NEW T, NEW s \in Seq(T), NEW t, IsDuplicateFree(s)
  PROVE  IsDuplicateFree(Without(s, t))
BY OnlyDupFree DEF Without

(***************************************************************************)
(* Two sequences without a common track make one without repetition.       *)
(***************************************************************************)
LEMMA ConcatDupFree ==
  ASSUME NEW T, NEW s \in Seq(T), NEW u \in Seq(T),
         IsDuplicateFree(s), IsDuplicateFree(u), Range(s) \cap Range(u) = {}
  PROVE  IsDuplicateFree(s \o u)
<1>1. /\ Len(s) \in Nat /\ DOMAIN s = 1..Len(s)
      /\ Len(u) \in Nat /\ DOMAIN u = 1..Len(u)
      /\ Len(s \o u) = Len(s) + Len(u)
      /\ \A i \in 1..(Len(s) + Len(u)) :
           (s \o u)[i] = IF i <= Len(s) THEN s[i] ELSE u[i - Len(s)]
  BY LenProperties, ConcatProperties
<1>2. \A i \in 1..(Len(s) + Len(u)) :
        IF i <= Len(s) THEN i \in 1..Len(s) /\ (s \o u)[i] = s[i]
        ELSE i - Len(s) \in 1..Len(u) /\ (s \o u)[i] = u[i - Len(s)]
  BY <1>1
<1>3. \A i \in 1..Len(s), j \in 1..Len(u) : s[i] # u[j]
  BY <1>1 DEF Range
<1>4. ASSUME NEW i \in 1..(Len(s) + Len(u)), NEW j \in 1..(Len(s) + Len(u)),
             (s \o u)[i] = (s \o u)[j]
      PROVE  i = j
  <2>1. CASE i <= Len(s) /\ j <= Len(s)
    BY <1>2, <1>4, <2>1 DEF IsDuplicateFree
  <2>2. CASE ~(i <= Len(s)) /\ ~(j <= Len(s))
    <3>1. i - Len(s) = j - Len(s)
      BY <1>2, <1>4, <2>2 DEF IsDuplicateFree
    <3> QED BY <1>1, <3>1
  <2>3. CASE i <= Len(s) /\ ~(j <= Len(s))
    BY <1>2, <1>3, <1>4, <2>3
  <2>4. CASE ~(i <= Len(s)) /\ j <= Len(s)
    BY <1>2, <1>3, <1>4, <2>4
  <2> QED BY <2>1, <2>2, <2>3, <2>4
<1> QED BY <1>1, <1>4 DEF IsDuplicateFree

(***************************************************************************)
(* One track, or none, is no repetition; the range of one track is itself. *)
(***************************************************************************)
LEMMA ShortDupFree ==
  ASSUME NEW T, NEW t \in T
  PROVE  /\ IsDuplicateFree(<<>>) /\ Range(<<>>) = {}
         /\ <<t>> \in Seq(T) /\ IsDuplicateFree(<<t>>) /\ Range(<<t>>) = {t}
<1>1. /\ Len(<<>>) = 0 /\ DOMAIN <<>> = {}
      /\ Len(<<t>>) = 1 /\ DOMAIN <<t>> = {1} /\ <<t>>[1] = t
  OBVIOUS
<1>2. \A i, j \in 1..1 : i = j
  OBVIOUS
<1>3. \A i \in 1..0 : FALSE
  OBVIOUS
<1> QED BY <1>1, <1>2, <1>3 DEF IsDuplicateFree, Range

(***************************************************************************)
(* Truncation repeats no track and invents none.                           *)
(***************************************************************************)
LEMMA TakeDupFree ==
  ASSUME NEW T, NEW s \in Seq(T), NEW n \in Nat
  PROVE  /\ Range(Take(s, n)) \subseteq Range(s)
         /\ IsDuplicateFree(s) => IsDuplicateFree(Take(s, n))
<1> DEFINE m == IF Len(s) < n THEN Len(s) ELSE n
           u == SubSeq(s, 1, m)
<1>1. /\ Len(s) \in Nat /\ DOMAIN s = 1..Len(s)
      /\ m \in Nat /\ m <= Len(s)
  BY LenProperties
<1>2. /\ u \in Seq(T)
      /\ Len(u) = IF 1 <= m THEN m - 1 + 1 ELSE 0
      /\ \A i \in 1..(m - 1 + 1) : u[i] = s[1 + i - 1]
  <2>1. \A i \in 1..m : s[i] \in T
    BY <1>1, LenProperties
  <2> HIDE DEF m
  <2> QED BY <1>1, <2>1, SubSeqProperties
<1>3. Take(s, n) = u
  BY DEF Take
<1> HIDE DEF m, u
<1>4. Len(u) = m /\ \A i \in 1..m : u[i] = s[i] /\ i \in 1..Len(s)
  BY <1>1, <1>2
<1>5. DOMAIN u = 1..m
  BY <1>2, <1>4, LenProperties
<1>6. Range(u) \subseteq Range(s)
  BY <1>1, <1>4, <1>5 DEF Range
<1>7. IsDuplicateFree(s) => IsDuplicateFree(u)
  BY <1>4 DEF IsDuplicateFree
<1> QED BY <1>3, <1>6, <1>7

(***************************************************************************)
(* The head of a queue without repetition is not in its tail.              *)
(***************************************************************************)
LEMMA TailDupFree ==
  ASSUME NEW T, NEW s \in Seq(T), s # <<>>, IsDuplicateFree(s)
  PROVE  /\ IsDuplicateFree(Tail(s))
         /\ Head(s) \in Range(s) /\ Range(Tail(s)) \subseteq Range(s)
         /\ Head(s) \notin Range(Tail(s))
<1>1. /\ Len(s) \in Nat /\ Len(s) # 0 /\ DOMAIN s = 1..Len(s)
      /\ Tail(s) \in Seq(T) /\ Len(Tail(s)) = Len(s) - 1
      /\ \A i \in 1..Len(Tail(s)) : Tail(s)[i] = s[i + 1]
      /\ Head(s) = s[1]
  BY EmptySeq, LenProperties, HeadTailProperties
<1>2. DOMAIN Tail(s) = 1..(Len(s) - 1)
  BY <1>1, LenProperties
<1>3. \A i \in 1..(Len(s) - 1) : /\ Tail(s)[i] = s[i + 1] /\ i + 1 \in 1..Len(s)
                                 /\ i + 1 # 1
  BY <1>1
<1>4. 1 \in 1..Len(s)
  BY <1>1
<1>5. \A i, j \in 1..(Len(s) - 1) : i + 1 = j + 1 => i = j
  BY <1>1
<1>6. IsDuplicateFree(Tail(s))
  <2> SUFFICES ASSUME NEW i \in 1..(Len(s) - 1), NEW j \in 1..(Len(s) - 1),
                      Tail(s)[i] = Tail(s)[j]
               PROVE  i = j
    BY <1>1 DEF IsDuplicateFree
  <2>1. i + 1 = j + 1
    BY <1>3 DEF IsDuplicateFree
  <2> QED BY <2>1, <1>5
<1>7. \A i \in 1..(Len(s) - 1) : Tail(s)[i] # Head(s)
  BY <1>1, <1>3, <1>4 DEF IsDuplicateFree
<1> QED BY <1>1, <1>2, <1>3, <1>4, <1>6, <1>7 DEF Range

-----------------------------------------------------------------------------
(* One session.                                                            *)

(***************************************************************************)
(* The two halves of the queue are sequences of tracks.                    *)
(***************************************************************************)
LEMMA HalvesType ==
  ASSUME LiveTypeOK
  PROVE  /\ Pins \in Seq(Tracks) /\ AutoPart \in Seq(Tracks)
         /\ Len(AutoPart) \in Nat
<1>1. queue \in Seq(Tracks)
  BY DEF LiveTypeOK
<1>2. Pins \in Seq(Tracks) /\ AutoPart \in Seq(Tracks)
  BY <1>1, OnlyType DEF Pins, AutoPart
<1> QED BY <1>2, LenProperties

(***************************************************************************)
(* Persisting a typed session gives a typed row.                           *)
(***************************************************************************)
LEMMA PersistType ==
  ASSUME Persist, LiveTypeOK'
  PROVE  RowTypeOK'
BY DEF Persist, LiveTypeOK, RowTypeOK

(***************************************************************************)
(* Starting a refill keeps the control state typed.                        *)
(***************************************************************************)
LEMMA SpawnType ==
  ASSUME ProcTypeOK, NEW done, NEW seed \in Tracks \cup {NoTrack},
         Spawn(done, seed)
  PROVE  /\ pc' \in [Procs -> PCs]
         /\ anchor' \in [Fillers -> Tracks \cup {NoTrack}]
<1>1. PICK f \in Fillers :
        /\ pc' = [p \in Procs |-> IF p = f THEN "gate"
                                  ELSE IF p \in done THEN "idle" ELSE pc[p]]
        /\ anchor' = [anchor EXCEPT ![f] = seed]
  BY DEF Spawn
<1> QED BY <1>1 DEF ProcTypeOK, PCs

(***************************************************************************)
(* Every state the session can be published in is typed.                   *)
(***************************************************************************)
LEMMA TypeInit == Init => TypeOK
<1> SUFFICES ASSUME Init PROVE TypeOK
  OBVIOUS
<1> USE CatalogAssumption, KindAssumption, ProcAssumption, LimitAssumption
<1>1. queue \in Seq(Tracks)
  <2>1. Take(Listed(Prefetch, Tracks \ {Seed}), Prefetch) \in Seq(Tracks)
    <3>1. Prefetch + Slack \in Nat
      OBVIOUS
    <3>2. Take(Catalog, Prefetch + Slack) \in Seq(Tracks)
      BY <3>1, TakeType
    <3>3. Listed(Prefetch, Tracks \ {Seed}) \in Seq(Tracks)
      BY <3>2, OnlyType DEF Listed
    <3> QED BY <3>3, TakeType
  <2>2. \A n \in 0..Prefetch :
          [1..n -> Tracks \ {Seed}] \subseteq Seq(Tracks)
    OBVIOUS
  <2>3. <<>> \in Seq(Tracks)
    BY EmptySeq
  <2> QED BY <2>1, <2>2, <2>3 DEF Init, InitQueue
<1>2. Range(AlbumQueue) \subseteq Tracks
  BY LenProperties DEF Range
<1>3. LiveTypeOK
  <2>1. /\ status \in {"playing", "stopped"} /\ now \in Tracks
        /\ pinned \subseteq Tracks /\ recent \subseteq Tracks
    BY <1>2, Zenon DEF Init
  <2>2. sources \in [Tracks -> SourceTags]
    BY DEF Init, SourceTags
  <2>3. history \in Seq(Tracks) /\ Len(history) <= HistoryCap
    BY EmptySeq DEF Init
  <2> QED BY <1>1, <2>1, <2>2, <2>3 DEF LiveTypeOK
<1>4. BridgeTypeOK
  <2>1. /\ 1 \in 0..CadenceMax /\ 0 \in 0..CadenceMax
        /\ CadenceMin..CadenceMax \subseteq 0..CadenceMax
    OBVIOUS
  <2>2. since \in 0..CadenceMax /\ interval \in 0..CadenceMax
    BY <2>1 DEF Init
  <2>3. bridgeQueued \in BOOLEAN
    BY Zenon DEF Init
  <2> QED BY <2>2, <2>3 DEF BridgeTypeOK
<1>5. RowTypeOK
  BY <1>1 DEF Init, RowTypeOK
<1>6. ProcTypeOK
  <2>1. pc \in [Procs -> PCs] /\ anchor \in [Fillers -> Tracks \cup {NoTrack}]
    BY DEF Init, PCs
  <2>2. call \in [Callers -> CallType]
    BY DEF Init, NoCall, CallType, SourceTags
  <2>3. fill \in [Procs -> FillType]
    BY DEF Init, NoFill, FillType
  <2> QED BY <2>1, <2>2, <2>3 DEF ProcTypeOK
<1>7. /\ latest \in Fillers \cup {NoFiller} /\ skips \subseteq Tracks
      /\ calls \in 0..MaxCalls /\ restarts \in 0..MaxRestarts
  BY DEF Init
<1> QED BY <1>3, <1>4, <1>5, <1>6, <1>7 DEF TypeOK

(***************************************************************************)
(* advanceLocked, from whatever queue it finds, keeps the types.           *)
(***************************************************************************)
LEMMA AdvanceType ==
  ASSUME TypeOK, NEW c \in Callers, NEW q \in Seq(Tracks), AdvanceFrom(c, q)
  PROVE  TypeOK'
<1> USE LimitAssumption, ProcAssumption DEF Procs
<1>1. UNCHANGED <<bridgeVars, latest, skips, fill, anchor, budgetVars>>
  BY DEF AdvanceFrom
<1>2. LiveTypeOK' /\ RowTypeOK' /\ pc' \in [Procs -> PCs]
      /\ call' \in [Callers -> CallType]
  <2>1. CASE StopAtEnd(c)
    <3>1. LiveTypeOK'
      BY <2>1, EmptySeq DEF StopAtEnd, TypeOK, LiveTypeOK
    <3>2. RowTypeOK'
      BY <2>1, <3>1, PersistType DEF StopAtEnd
    <3>3. pc' \in [Procs -> PCs] /\ call' \in [Callers -> CallType]
      BY <2>1 DEF StopAtEnd, TypeOK, ProcTypeOK, PCs, NoCall, CallType, SourceTags
    <3> QED BY <3>1, <3>2, <3>3
  <2>2. CASE q # <<>> /\ PopNext(c, q)
    <3>1. Head(q) \in Tracks /\ Tail(q) \in Seq(Tracks)
      BY <2>2, HeadTailProperties
    <3>2. /\ PushCapped(history, now, HistoryCap) \in Seq(Tracks)
          /\ Len(PushCapped(history, now, HistoryCap)) <= HistoryCap
      <4>1. history \in Seq(Tracks) /\ now \in Tracks
        BY DEF TypeOK, LiveTypeOK
      <4> QED BY <4>1, PushCappedType
    <3>3. sources' \in [Tracks -> SourceTags]
      BY <2>2 DEF PopNext, TypeOK, LiveTypeOK, SourceTags
    <3>4. LiveTypeOK'
      BY <2>2, <3>1, <3>2, <3>3 DEF PopNext, TypeOK, LiveTypeOK
    <3>5. RowTypeOK' /\ pc' \in [Procs -> PCs]
      BY <2>2 DEF PopNext, TypeOK, RowTypeOK, ProcTypeOK, PCs
    <3>6. call' \in [Callers -> CallType]
      <4>1. sources[Head(q)] \in SourceTags
        BY <3>1 DEF TypeOK, LiveTypeOK
      <4>2. call' = [call EXCEPT ![c] = [call[c] EXCEPT !.next = Head(q),
                                           !.src = sources[Head(q)]]]
        BY <2>2 DEF PopNext, TypeOK, ProcTypeOK, CallType
      <4> QED BY <3>1, <4>1, <4>2 DEF TypeOK, ProcTypeOK, CallType
    <3> QED BY <3>4, <3>5, <3>6
  <2> QED BY <2>1, <2>2 DEF AdvanceFrom
<1>3. BridgeTypeOK'
  BY <1>1 DEF bridgeVars, TypeOK, BridgeTypeOK
<1>4. ProcTypeOK'
  BY <1>1, <1>2 DEF TypeOK, ProcTypeOK
<1> QED BY <1>1, <1>2, <1>3, <1>4 DEF TypeOK, budgetVars

(***************************************************************************)
(* Every step of a client call keeps the types.                            *)
(***************************************************************************)
LEMMA CallerType ==
  ASSUME TypeOK, NEW c \in Callers, CallerStep(c)
  PROVE  TypeOK'
<1> USE LimitAssumption, ProcAssumption
<1>1. ASSUME NEW sig \in Signals, NEW t \in Tracks, FeedbackBegin(c, sig, t)
      PROVE  TypeOK'
  <2>1. LiveTypeOK' /\ RowTypeOK'
    BY <1>1 DEF FeedbackBegin, liveVars, TypeOK, LiveTypeOK, RowTypeOK
  <2>2. BridgeTypeOK'
    BY <1>1 DEF FeedbackBegin, bridgeVars, TypeOK, BridgeTypeOK
  <2>3. ProcTypeOK'
    BY <1>1 DEF FeedbackBegin, TypeOK, ProcTypeOK, PCs, NoCall, CallType,
                SourceTags, AllSignals
  <2> QED BY <1>1, <2>1, <2>2, <2>3 DEF FeedbackBegin, MayCall, TypeOK
<1>2. Without(queue, call[c].track) \in Seq(Tracks)
  <2>1. queue \in Seq(Tracks)
    BY DEF TypeOK, LiveTypeOK
  <2> QED BY <2>1, WithoutType
<1>3. CASE FeedbackAdvance(c)
  BY <1>2, <1>3, AdvanceType DEF FeedbackAdvance
<1>4. CASE FeedbackAdvanceEmpty(c)
  <2>1. LiveTypeOK' /\ RowTypeOK'
    BY <1>2, <1>4 DEF FeedbackAdvanceEmpty, TypeOK, LiveTypeOK, RowTypeOK
  <2>2. BridgeTypeOK'
    BY <1>4 DEF FeedbackAdvanceEmpty, bridgeVars, TypeOK, BridgeTypeOK
  <2>3. ProcTypeOK'
    BY <1>4 DEF FeedbackAdvanceEmpty, TypeOK, ProcTypeOK, PCs
  <2> QED BY <1>4, <2>1, <2>2, <2>3 DEF FeedbackAdvanceEmpty, budgetVars, TypeOK
<1>5. CASE FeedbackOther(c)
  <2>1. LiveTypeOK'
    BY <1>2, <1>5 DEF FeedbackOther, TypeOK, LiveTypeOK
  <2>2. RowTypeOK'
    BY <1>5, <2>1, PersistType DEF FeedbackOther
  <2>3. BridgeTypeOK'
    BY <1>5 DEF FeedbackOther, bridgeVars, TypeOK, BridgeTypeOK
  <2>4. /\ pc' \in [Procs -> PCs]
        /\ anchor' \in [Fillers -> Tracks \cup {NoTrack}]
    <3>1. call[c].track \in Tracks \cup {NoTrack} /\ ProcTypeOK
      BY DEF TypeOK, ProcTypeOK, CallType
    <3>2. CASE Spawn({c}, call[c].track)
      BY <3>1, <3>2, SpawnType
    <3>3. CASE Spawn({c}, NoTrack)
      BY <3>1, <3>3, SpawnType
    <3>4. CASE pc' = [pc EXCEPT ![c] = "idle"] /\ UNCHANGED anchor
      BY <3>1, <3>4 DEF ProcTypeOK, PCs
    <3> QED BY <1>5, <3>2, <3>3, <3>4 DEF FeedbackOther
  <2>5. call' \in [Callers -> CallType] /\ UNCHANGED fill
    BY <1>5 DEF FeedbackOther, TypeOK, ProcTypeOK, NoCall, CallType, SourceTags
  <2>6. ProcTypeOK'
    BY <2>4, <2>5 DEF TypeOK, ProcTypeOK
  <2> QED BY <1>5, <2>1, <2>2, <2>3, <2>6 DEF FeedbackOther, budgetVars, TypeOK
<1>6. CASE AdvanceResume(c)
  <2>1. CASE status = "stopped"
    <3>1. /\ UNCHANGED <<liveVars, bridgeVars, latest, skips, row, fill, anchor,
                         budgetVars>>
          /\ pc' = [pc EXCEPT ![c] = "idle"]
          /\ call' = [call EXCEPT ![c] = NoCall]
      BY <1>6, <2>1 DEF AdvanceResume
    <3>2. LiveTypeOK' /\ RowTypeOK'
      BY <3>1 DEF liveVars, TypeOK, LiveTypeOK, RowTypeOK
    <3>3. BridgeTypeOK'
      BY <3>1 DEF bridgeVars, TypeOK, BridgeTypeOK
    <3>4. ProcTypeOK'
      BY <3>1 DEF TypeOK, ProcTypeOK, PCs, NoCall, CallType, SourceTags
    <3> QED BY <3>1, <3>2, <3>3, <3>4 DEF budgetVars, TypeOK
  <2>2. CASE status # "stopped"
    <3>1. AdvanceFrom(c, queue) /\ queue \in Seq(Tracks)
      BY <1>6, <2>2 DEF AdvanceResume, TypeOK, LiveTypeOK
    <3> QED BY <3>1, AdvanceType
  <2> QED BY <2>1, <2>2
<1>7. CASE TrackStarted(c)
  <2>1. LiveTypeOK' /\ UNCHANGED <<latest, skips, fill, budgetVars>>
    BY <1>7 DEF TrackStarted, liveVars, TypeOK, LiveTypeOK
  <2>2. RowTypeOK'
    <3>1. CASE Persist
      BY <2>1, <3>1, PersistType
    <3>2. CASE UNCHANGED row
      BY <3>2 DEF TypeOK, RowTypeOK
    <3> QED BY <1>7, <3>1, <3>2 DEF TrackStarted
  <2>3. BridgeTypeOK'
    <3>1. CASE UNCHANGED bridgeVars
      BY <3>1 DEF bridgeVars, TypeOK, BridgeTypeOK
    <3>2. CASE ApplyTrackStarted(call[c].src)
      <4>1. /\ since' \in 0..CadenceMax
            /\ interval' \in 0..CadenceMax
        <5>1. /\ since \in 0..CadenceMax /\ interval \in 0..CadenceMax
              /\ Min(since + 1, CadenceMax) \in 0..CadenceMax
              /\ 0 \in 0..CadenceMax
              /\ CadenceMin..CadenceMax \subseteq 0..CadenceMax
          BY DEF TypeOK, BridgeTypeOK, Min
        <5> QED BY <3>2, <5>1 DEF ApplyTrackStarted
      <4>2. bridgeQueued' \in BOOLEAN
        BY <3>2, Zenon DEF ApplyTrackStarted, TypeOK, BridgeTypeOK
      <4> QED BY <4>1, <4>2 DEF BridgeTypeOK
    <3> QED BY <1>7, <3>1, <3>2 DEF TrackStarted
  <2>4. /\ pc' \in [Procs -> PCs]
        /\ anchor' \in [Fillers -> Tracks \cup {NoTrack}]
    <3>1. CASE pc' = [pc EXCEPT ![c] = "idle"] /\ UNCHANGED anchor
      BY <3>1 DEF TypeOK, ProcTypeOK, PCs
    <3>2. CASE Spawn({c}, NoTrack)
      BY <3>2, SpawnType DEF TypeOK
    <3> QED BY <1>7, <3>1, <3>2 DEF TrackStarted
  <2>5. call' \in [Callers -> CallType]
    BY <1>7 DEF TrackStarted, TypeOK, ProcTypeOK, NoCall, CallType, SourceTags
  <2>6. ProcTypeOK'
    BY <2>1, <2>4, <2>5 DEF TypeOK, ProcTypeOK
  <2> QED BY <2>1, <2>2, <2>3, <2>6 DEF budgetVars, TypeOK
<1>8. CASE Back(c)
  <2>1. history \in Seq(Tracks) /\ history # <<>> /\ queue \in Seq(Tracks)
        /\ now \in Tracks
    BY <1>8 DEF Back, TypeOK, LiveTypeOK
  <2>2. Len(history) \in 1..Len(history) /\ Len(history) - 1 \in Int
    BY <2>1, EmptySeq, LenProperties
  <2>3. history[Len(history)] \in Tracks
    BY <2>1, <2>2, ElementOfSeq
  <2>4. history' \in Seq(Tracks) /\ Len(history') <= HistoryCap
    <3>1. \A i \in 1..(Len(history) - 1) : history[i] \in Tracks
      BY <2>1, <2>2, LenProperties
    <3>2. Len(history) <= HistoryCap
      BY DEF TypeOK, LiveTypeOK
    <3> DEFINE n == Len(history) - 1
               h == SubSeq(history, 1, n)
    <3>3. n \in Int /\ n >= 0 /\ n < Len(history)
      BY <2>2
    <3>4. /\ h \in Seq(Tracks)
          /\ Len(h) = IF 1 <= n THEN n - 1 + 1 ELSE 0
      <4> HIDE DEF n
      <4> QED BY <3>1, <3>3, SubSeqProperties DEF n
    <3>5. Len(h) <= HistoryCap
      BY <2>2, <3>2, <3>3, <3>4
    <3>6. history' = h
      BY <1>8 DEF Back
    <3> QED BY <3>4, <3>5, <3>6
  <2>5. queue' \in Seq(Tracks)
    <3>1. Without(queue, now) \in Seq(Tracks) /\ <<now>> \in Seq(Tracks)
      BY <2>1, WithoutType
    <3> QED BY <1>8, <3>1, ConcatProperties DEF Back
  <2>6. LiveTypeOK' /\ RowTypeOK'
    BY <1>8, <2>3, <2>4, <2>5 DEF Back, TypeOK, LiveTypeOK, RowTypeOK
  <2>7. BridgeTypeOK'
    BY <1>8 DEF Back, bridgeVars, TypeOK, BridgeTypeOK
  <2>8. ProcTypeOK'
    BY <1>8, <2>3 DEF Back, TypeOK, ProcTypeOK, PCs, NoCall, CallType, SourceTags
  <2>9. /\ calls' \in 0..MaxCalls
        /\ UNCHANGED <<latest, skips, restarts>>
    <3>1. calls \in 0..MaxCalls /\ calls < MaxCalls /\ calls' = calls + 1
      BY <1>8 DEF Back, MayCall, TypeOK
    <3> QED BY <1>8, <3>1 DEF Back
  <2> QED BY <2>6, <2>7, <2>8, <2>9 DEF TypeOK
<1> QED BY <1>1, <1>3, <1>4, <1>5, <1>6, <1>7, <1>8 DEF CallerStep

(***************************************************************************)
(* A queue edit keeps the types, given typed parts of the live session.    *)
(***************************************************************************)
LEMMA EditType ==
  ASSUME TypeOK, EditQueue, queue' \in Seq(Tracks), pinned' \subseteq Tracks,
         sources' \in [Tracks -> SourceTags], skips' \subseteq Tracks
  PROVE  TypeOK'
<1> USE LimitAssumption, ProcAssumption
<1>1. LiveTypeOK'
  BY DEF EditQueue, TypeOK, LiveTypeOK
<1>2. RowTypeOK'
  BY <1>1, PersistType DEF EditQueue
<1>3. BridgeTypeOK'
  BY DEF EditQueue, bridgeVars, TypeOK, BridgeTypeOK
<1>4. ProcTypeOK'
  <2>1. /\ pc' \in [Procs -> PCs]
        /\ anchor' \in [Fillers -> Tracks \cup {NoTrack}]
    BY SpawnType DEF EditQueue, TypeOK
  <2> QED BY <2>1 DEF EditQueue, TypeOK, ProcTypeOK
<1>5. calls' \in 0..MaxCalls /\ UNCHANGED <<latest, restarts>>
  <2>1. calls \in 0..MaxCalls /\ calls < MaxCalls /\ calls' = calls + 1
    BY DEF EditQueue, MayCall, TypeOK
  <2> QED BY <2>1 DEF EditQueue
<1> QED BY <1>1, <1>2, <1>3, <1>4, <1>5 DEF TypeOK

(***************************************************************************)
(* InjectQueue, RemoveFromQueue and ReorderQueue keep the types.           *)
(***************************************************************************)
LEMMA QueueEditType == TypeOK /\ QueueEdit => TypeOK'
<1> SUFFICES ASSUME TypeOK, QueueEdit PROVE TypeOK'
  OBVIOUS
<1>1. /\ queue \in Seq(Tracks) /\ pinned \subseteq Tracks
      /\ sources \in [Tracks -> SourceTags] /\ skips \subseteq Tracks
  BY DEF TypeOK, LiveTypeOK
<1>2. ASSUME NEW t \in Tracks, NEW position \in {"next", "end"},
             InjectQueue(t, position)
      PROVE  TypeOK'
  <2> DEFINE q    == Without(queue, t)
             pins == Only(q, pinned)
             auto == Only(q, Tracks \ pinned)
  <2>1. pins \in Seq(Tracks) /\ auto \in Seq(Tracks)
    BY <1>1, WithoutType, OnlyType
  <2>2. /\ <<t>> \o pins \in Seq(Tracks) /\ Append(pins, t) \in Seq(Tracks)
    <3> HIDE DEF pins
    <3> QED BY <2>1, ConcatProperties, AppendProperties
  <2>3. queue' = (IF position = "next" THEN <<t>> \o pins ELSE Append(pins, t))
                   \o auto
    BY <1>2 DEF InjectQueue
  <2>4. queue' \in Seq(Tracks)
    <3> HIDE DEF pins, auto
    <3> QED BY <2>1, <2>2, <2>3, ConcatProperties
  <2>5. EditQueue
    BY <1>2 DEF InjectQueue
  <2>6. /\ pinned' \subseteq Tracks /\ skips' \subseteq Tracks
        /\ sources' \in [Tracks -> SourceTags]
    BY <1>1, <1>2 DEF InjectQueue, SourceTags
  <2> QED BY <2>4, <2>5, <2>6, EditType
<1>3. ASSUME NEW t \in Tracks, RemoveFromQueue(t)
      PROVE  TypeOK'
  <2>1. Without(queue, t) \in Seq(Tracks)
    BY <1>1, WithoutType
  <2>2. /\ queue' \in Seq(Tracks) /\ EditQueue
        /\ pinned' \subseteq Tracks /\ skips' \subseteq Tracks
        /\ sources' \in [Tracks -> SourceTags]
    BY <1>1, <1>3, <2>1 DEF RemoveFromQueue, SourceTags
  <2> QED BY <2>2, EditType
<1>4. ASSUME NEW ordered \in Orders, ReorderQueue(ordered)
      PROVE  TypeOK'
  <2>1. Range(queue) \subseteq Tracks /\ Len(queue) \in Nat
    BY <1>1, LenProperties DEF Range
  <2>2. PICK n \in 1..Len(queue) : ordered \in [1..n -> Range(queue)]
    BY DEF Orders
  <2>3. ordered \in Seq(Tracks)
    BY <2>1, <2>2
  <2>4. Range(ordered) \subseteq Tracks
    BY <2>1, <2>2 DEF Range
  <2>5. Only(AutoPart, Tracks \ Range(ordered)) \in Seq(Tracks)
    <3>1. AutoPart \in Seq(Tracks)
      BY HalvesType DEF TypeOK
    <3> QED BY <3>1, OnlyType
  <2>6. queue' \in Seq(Tracks)
    BY <1>4, <2>3, <2>5, ConcatProperties DEF ReorderQueue
  <2>7. /\ EditQueue /\ pinned' \subseteq Tracks /\ skips' \subseteq Tracks
        /\ sources' \in [Tracks -> SourceTags]
    BY <1>1, <1>4, <2>4 DEF ReorderQueue, SourceTags
  <2> QED BY <2>6, <2>7, EditType
<1> QED BY <1>2, <1>3, <1>4 DEF QueueEdit

(***************************************************************************)
(* Stopping keeps the types, and so does reloading the session's row.      *)
(***************************************************************************)
LEMMA StopType == TypeOK /\ Stop => TypeOK'
<1> SUFFICES ASSUME TypeOK, Stop PROVE TypeOK'
  OBVIOUS
<1>1. LiveTypeOK'
  BY DEF Stop, TypeOK, LiveTypeOK
<1>2. RowTypeOK'
  BY <1>1, PersistType DEF Stop
<1>3. BridgeTypeOK'
  BY DEF Stop, bridgeVars, TypeOK, BridgeTypeOK
<1>4. ProcTypeOK'
  BY DEF Stop, procVars, TypeOK, ProcTypeOK
<1> QED BY <1>1, <1>2, <1>3, <1>4 DEF Stop, budgetVars, TypeOK

(***************************************************************************)
(* Reloading the session from its row keeps the types: the row is typed,   *)
(* and everything else starts empty.                                       *)
(***************************************************************************)
LEMMA RestartType == TypeOK /\ Restart => TypeOK'
<1> SUFFICES ASSUME TypeOK, Restart PROVE TypeOK'
  OBVIOUS
<1> USE LimitAssumption
<1>1. LiveTypeOK'
  BY EmptySeq DEF Restart, TypeOK, RowTypeOK, LiveTypeOK, NoSources, SourceTags
<1>2. BridgeTypeOK'
  <2>1. since' \in 0..CadenceMax /\ interval' \in 0..CadenceMax
    BY DEF Restart
  <2>2. bridgeQueued' \in BOOLEAN
    BY Zenon DEF Restart
  <2> QED BY <2>1, <2>2 DEF BridgeTypeOK
<1>3. ProcTypeOK'
  <2>1. /\ pc' \in [Procs -> PCs]
        /\ anchor' \in [Fillers -> Tracks \cup {NoTrack}]
    BY DEF Restart, PCs
  <2>2. call' \in [Callers -> CallType]
    BY DEF Restart, NoCall, CallType, SourceTags
  <2>3. fill' \in [Procs -> FillType]
    BY DEF Restart, NoFill, FillType
  <2> QED BY <2>1, <2>2, <2>3 DEF ProcTypeOK
<1>4. /\ restarts' \in 0..MaxRestarts /\ latest' = NoFiller
      /\ RowTypeOK' /\ UNCHANGED <<skips, calls>>
  <2>1. restarts \in 0..MaxRestarts /\ RowTypeOK
    BY DEF TypeOK
  <2> QED BY <2>1 DEF Restart, RowTypeOK
<1> QED BY <1>1, <1>2, <1>3, <1>4 DEF TypeOK

(***************************************************************************)
(* The commit of a refill gives a typed queue.                             *)
(***************************************************************************)
LEMMA CommitType ==
  ASSUME LiveTypeOK, NEW auto \in Seq(Tracks), CommitAuto(auto),
         sources' \in [Tracks -> SourceTags]
  PROVE  LiveTypeOK'
<1>1. Pins \o auto \in Seq(Tracks)
  BY HalvesType, ConcatProperties
<1>2. queue' \in Seq(Tracks)
  BY <1>1 DEF CommitAuto
<1> QED BY <1>2 DEF CommitAuto, LiveTypeOK

(***************************************************************************)
(* Returning from a fill keeps the control state typed.                    *)
(***************************************************************************)
LEMMA FillReturnType ==
  ASSUME ProcTypeOK, NEW p \in Procs, NEW next \in PCs, FillReturn(p, next),
         UNCHANGED <<call, anchor>>
  PROVE  ProcTypeOK'
<1>1. pc' \in [Procs -> PCs]
  BY DEF FillReturn, ProcTypeOK, PCs
<1>2. fill' \in [Procs -> FillType]
  <2>1. NoFill \in FillType
    BY LimitAssumption DEF NoFill, FillType
  <2> QED BY <2>1 DEF FillReturn, ProcTypeOK
<1> QED BY <1>1, <1>2 DEF ProcTypeOK

(***************************************************************************)
(* What the catalog fallback appends is a sequence of tracks.              *)
(***************************************************************************)
LEMMA FallbackType ==
  ASSUME LiveTypeOK, ProcTypeOK, NEW p \in Procs
  PROVE  AutoPart \o Take(FallbackTracks(p),
                         IF Len(AutoPart) < Prefetch
                         THEN Prefetch - Len(AutoPart) ELSE 1) \in Seq(Tracks)
<1> DEFINE room == IF Len(AutoPart) < Prefetch
                   THEN Prefetch - Len(AutoPart) ELSE 1
<1>1. FallbackTracks(p) \in Seq(Tracks)
  <2>1. fill[p].need + Slack \in Nat
    BY LimitAssumption DEF ProcTypeOK, FillType
  <2>2. Take(Catalog, fill[p].need + Slack) \in Seq(Tracks)
    BY <2>1, TakeType, CatalogAssumption
  <2> QED BY <2>2, OnlyType DEF FallbackTracks, Listed
<1>2. AutoPart \in Seq(Tracks) /\ room \in Nat
  BY HalvesType, LimitAssumption
<1> HIDE DEF room
<1>3. Take(FallbackTracks(p), room) \in Seq(Tracks)
  BY <1>1, <1>2, TakeType
<1>4. AutoPart \o Take(FallbackTracks(p), room) \in Seq(Tracks)
  BY <1>2, <1>3, ConcatProperties
<1> QED BY <1>4 DEF room

(***************************************************************************)
(* What a neighbour search appends is a sequence of tracks.                *)
(***************************************************************************)
LEMMA PicksType ==
  ASSUME LiveTypeOK, ProcTypeOK, NEW p \in Procs, NEW picks \in Picks(p)
  PROVE  Take(AutoPart \o Only(picks, Tracks \ Range(AutoPart)), Prefetch)
           \in Seq(Tracks)
<1> DEFINE fresh == Only(picks, Tracks \ Range(AutoPart))
<1>1. PICK n \in 0..fill[p].need : picks \in [1..n -> Tracks \ fill[p].exclude]
  BY DEF Picks
<1>2. fill[p].need \in Nat
  BY DEF ProcTypeOK, FillType
<1>3. picks \in Seq(Tracks)
  BY <1>1, <1>2
<1>4. fresh \in Seq(Tracks)
  BY <1>3, OnlyType
<1> HIDE DEF fresh
<1>5. AutoPart \o fresh \in Seq(Tracks)
  BY <1>4, HalvesType, ConcatProperties
<1>6. Take(AutoPart \o fresh, Prefetch) \in Seq(Tracks)
  BY <1>5, TakeType, LimitAssumption
<1> QED BY <1>6 DEF fresh

(***************************************************************************)
(* Every step of a refill keeps the types.                                 *)
(***************************************************************************)
LEMMA FillStepType ==
  ASSUME TypeOK, NEW p \in Procs, FillStep(p)
  PROVE  TypeOK'
<1> USE LimitAssumption, ProcAssumption
<1>1. /\ LiveTypeOK /\ BridgeTypeOK /\ RowTypeOK /\ ProcTypeOK
      /\ Pins \in Seq(Tracks) /\ AutoPart \in Seq(Tracks)
      /\ Len(AutoPart) \in Nat /\ fill[p] \in FillType
  BY HalvesType DEF TypeOK, ProcTypeOK
<1>2. CASE FillSnapshot(p)
  <2>1. /\ LiveTypeOK' /\ RowTypeOK' /\ BridgeTypeOK'
        /\ UNCHANGED <<latest, skips, calls, restarts>>
    BY <1>1, <1>2 DEF FillSnapshot, liveVars, bridgeVars, budgetVars,
                      LiveTypeOK, RowTypeOK, BridgeTypeOK
  <2>2. recent \cup Range(queue) \cup {now} \subseteq Tracks
    <3>1. recent \subseteq Tracks /\ queue \in Seq(Tracks) /\ now \in Tracks
      BY <1>1 DEF LiveTypeOK
    <3>2. Range(queue) \subseteq Tracks
      BY <3>1, LenProperties DEF Range
    <3> QED BY <3>1, <3>2
  <2>3. /\ (IF Len(AutoPart) < Prefetch THEN Prefetch - Len(AutoPart) ELSE 0)
             \in 0..Prefetch
        /\ since \in 0..CadenceMax
    BY <1>1 DEF BridgeTypeOK
  <2>4. fill' \in [Procs -> FillType]
    <3>1. [exclude |-> recent \cup Range(queue) \cup {now},
           need    |-> IF Len(AutoPart) < Prefetch
                       THEN Prefetch - Len(AutoPart) ELSE 0,
           since   |-> since, due |-> FALSE] \in FillType
      BY <2>2, <2>3 DEF FillType
    <3> QED BY <1>1, <1>2, <3>1 DEF FillSnapshot, ProcTypeOK
  <2>5. ProcTypeOK'
    BY <1>1, <1>2, <2>4 DEF FillSnapshot, ProcTypeOK, PCs
  <2> QED BY <2>1, <2>5 DEF TypeOK
<1>3. CASE FillSkips(p)
  <2>1. /\ LiveTypeOK' /\ RowTypeOK' /\ BridgeTypeOK'
        /\ UNCHANGED <<latest, skips, calls, restarts>>
    BY <1>1, <1>3 DEF FillSkips, liveVars, bridgeVars, budgetVars,
                      LiveTypeOK, RowTypeOK, BridgeTypeOK
  <2>4. ProcTypeOK'
    <3>1. CASE /\ fill' = [fill EXCEPT ![p].exclude = @ \cup skips]
               /\ pc' = [pc EXCEPT ![p] = "candidates"]
      <4>1. [fill[p] EXCEPT !.exclude = @ \cup skips] \in FillType
        <5>1. skips \subseteq Tracks
          BY DEF TypeOK
        <5> QED BY <1>1, <5>1 DEF FillType
      <4>2. fill' = [fill EXCEPT ![p] = [fill[p] EXCEPT !.exclude = @ \cup skips]]
        BY <3>1
      <4> QED BY <1>1, <1>3, <3>1, <4>1, <4>2 DEF FillSkips, ProcTypeOK, PCs
    <3>2. CASE FillReturn(p, "idle")
      BY <1>1, <1>3, <3>2, FillReturnType DEF FillSkips, PCs
    <3> QED BY <1>3, <3>1, <3>2 DEF FillSkips
  <2> QED BY <2>1, <2>4 DEF TypeOK
<1>4. ASSUME NEW auto \in Seq(Tracks), CommitAuto(auto),
             sources' \in [Tracks -> SourceTags], BridgeTypeOK',
             FillReturn(p, "persist")
      PROVE  TypeOK'
  <2>1. LiveTypeOK'
    BY <1>1, <1>4, CommitType
  <2>2. ProcTypeOK'
    BY <1>1, <1>4, FillReturnType DEF CommitAuto, PCs
  <2>3. RowTypeOK' /\ UNCHANGED <<latest, skips, calls, restarts>>
    BY <1>1, <1>4 DEF CommitAuto, RowTypeOK, budgetVars
  <2> QED BY <1>4, <2>1, <2>2, <2>3 DEF TypeOK
<1>5. ASSUME UNCHANGED <<sources, bridgeVars>>
      PROVE  sources' \in [Tracks -> SourceTags] /\ BridgeTypeOK'
  BY <1>1, <1>5 DEF LiveTypeOK, bridgeVars, BridgeTypeOK
<1>6. CASE FillEnough(p)
  <2>1. Take(AutoPart, Prefetch) \in Seq(Tracks)
    BY <1>1, TakeType
  <2>2. /\ CommitAuto(Take(AutoPart, Prefetch)) /\ FillReturn(p, "persist")
        /\ UNCHANGED <<sources, bridgeVars>>
    BY <1>6 DEF FillEnough
  <2> QED BY <1>4, <1>5, <2>1, <2>2
<1>7. CASE FillFallback(p)
  <2>1. /\ FillReturn(p, "persist")
        /\ UNCHANGED <<sources, bridgeVars>>
    BY <1>7 DEF FillFallback
  <2> QED BY <1>1, <1>4, <1>5, <1>7, <2>1, FallbackType DEF FillFallback
<1>8. CASE FillCandidates(p)
  <2>1. /\ LiveTypeOK' /\ RowTypeOK' /\ UNCHANGED <<latest, skips, calls, restarts>>
    BY <1>1, <1>8 DEF FillCandidates, liveVars, budgetVars, LiveTypeOK, RowTypeOK
  <2>2. interval' \in 0..CadenceMax
    BY <1>1, <1>8 DEF FillCandidates, BridgeTypeOK
  <2>3. BridgeTypeOK'
    BY <1>1, <1>8, <2>2 DEF FillCandidates, BridgeTypeOK
  <2>4. ProcTypeOK'
    <3>1. PICK due \in BOOLEAN : fill' = [fill EXCEPT ![p].due = due]
      <4>1. (RadioBridge /\ ~bridgeQueued /\ fill[p].since >= interval')
               \in BOOLEAN
        OBVIOUS
      <4> QED BY <1>8, <4>1, Zenon DEF FillCandidates
    <3>2. [fill[p] EXCEPT !.due = due] \in FillType
      BY <1>1 DEF FillType
    <3>3. fill' = [fill EXCEPT ![p] = [fill[p] EXCEPT !.due = due]]
      BY <3>1
    <3> QED BY <1>1, <1>8, <3>2, <3>3 DEF FillCandidates, ProcTypeOK, PCs
  <2> QED BY <2>1, <2>3, <2>4 DEF TypeOK
<1>9. ASSUME NEW picks \in Picks(p), NEW bridged \in BOOLEAN,
             FillCommit(p, picks, bridged)
      PROVE  TypeOK'
  <2> DEFINE bridge == bridged /\ picks[1] \notin Range(AutoPart)
             auto   == Take(AutoPart \o Only(picks, Tracks \ Range(AutoPart)),
                            Prefetch)
  <2>1. auto \in Seq(Tracks)
    BY <1>1, PicksType
  <2>2. /\ CommitAuto(auto)
        /\ sources' = IF bridge THEN [sources EXCEPT ![picks[1]] = "radio_bridge"]
                      ELSE sources
        /\ bridgeQueued' = (bridgeQueued \/ bridge)
        /\ FillReturn(p, "persist")
        /\ UNCHANGED <<since, interval>>
    BY <1>9 DEF FillCommit
  <2> HIDE DEF auto, bridge
  <2>3. sources' \in [Tracks -> SourceTags]
    BY <1>1, <2>2 DEF LiveTypeOK, SourceTags
  <2>4. bridgeQueued' \in BOOLEAN
    BY <2>2, Zenon
  <2>5. BridgeTypeOK'
    BY <1>1, <2>2, <2>4 DEF BridgeTypeOK
  <2> QED BY <1>4, <2>1, <2>2, <2>3, <2>5
<1> QED BY <1>2, <1>3, <1>6, <1>7, <1>8, <1>9 DEF FillStep

(***************************************************************************)
(* The first and the last critical section of a refill goroutine keep the  *)
(* types.                                                                  *)
(***************************************************************************)
LEMMA RefillStepType ==
  ASSUME TypeOK, NEW f \in Fillers, RefillStep(f)
  PROVE  TypeOK'
<1>1. /\ LiveTypeOK /\ BridgeTypeOK /\ RowTypeOK /\ ProcTypeOK
      /\ Pins \in Seq(Tracks)
  BY HalvesType DEF TypeOK
<1>2. CASE RefillGate(f)
  <2>1. queue' \in Seq(Tracks)
    BY <1>1, <1>2 DEF RefillGate, LiveTypeOK
  <2>2. LiveTypeOK' /\ RowTypeOK' /\ UNCHANGED <<skips, calls, restarts>>
    BY <1>1, <1>2, <2>1 DEF RefillGate, LiveTypeOK, RowTypeOK, budgetVars
  <2>3. BridgeTypeOK'
    BY <1>1, <1>2 DEF RefillGate, bridgeVars, BridgeTypeOK
  <2>4. ProcTypeOK' /\ latest' \in Fillers \cup {NoFiller}
    BY <1>1, <1>2 DEF RefillGate, ProcTypeOK, PCs, TypeOK
  <2> QED BY <2>2, <2>3, <2>4 DEF TypeOK
<1>3. CASE RefillPersist(f)
  <2>1. /\ LiveTypeOK' /\ BridgeTypeOK'
        /\ UNCHANGED <<latest, skips, calls, restarts>>
    BY <1>1, <1>3 DEF RefillPersist, liveVars, bridgeVars, budgetVars,
                      LiveTypeOK, BridgeTypeOK
  <2>2. RowTypeOK'
    BY <1>1, <1>3, <2>1, PersistType DEF RefillPersist, RowTypeOK
  <2>3. ProcTypeOK'
    BY <1>1, <1>3 DEF RefillPersist, ProcTypeOK, PCs
  <2> QED BY <2>1, <2>2, <2>3 DEF TypeOK
<1> QED BY <1>2, <1>3 DEF RefillStep

(***************************************************************************)
(* Every step keeps the types.                                             *)
(***************************************************************************)
LEMMA TypeStep == TypeOK /\ [Next]_vars => TypeOK'
<1> SUFFICES ASSUME TypeOK, [Next]_vars PROVE TypeOK'
  OBVIOUS
<1>1. CASE Next
  BY <1>1, CallerType, QueueEditType, StopType, RestartType, FillStepType,
     RefillStepType DEF Next, Step
<1>2. CASE UNCHANGED vars
  BY <1>2 DEF vars, liveVars, bridgeVars, procVars, budgetVars, TypeOK,
     LiveTypeOK, BridgeTypeOK, RowTypeOK, ProcTypeOK
<1> QED BY <1>1, <1>2

(***************************************************************************)
(* Type correctness: whatever calls, refills, stops and restarts           *)
(* interleave, the session, its row and every call in progress stay typed, *)
(* and the history stays within its cap.                                   *)
(***************************************************************************)
THEOREM TypeCorrect == Spec => []TypeOK
BY TypeInit, TypeStep, PTL DEF Spec

-----------------------------------------------------------------------------
(***************************************************************************)
(* The row and the session.  RowMatchesSession is not inductive: it allows *)
(* a lagging row beside a stopped session as long as some call owes a      *)
(* commit, and that call, finding the session stopped, commits nothing.    *)
(* The strengthening says that the session a call owes the commit of is    *)
(* playing.                                                                *)
(***************************************************************************)
RowLags == row.status # status \/ row.now # now

RowInv == RowLags => status = "playing" /\ \E c \in Callers : Owes(c)

(***************************************************************************)
(* A step that persists leaves no lag.                                     *)
(***************************************************************************)
LEMMA PersistNoLag == Persist => ~RowLags'
BY DEF Persist, RowLags

(***************************************************************************)
(* A step that changes neither the session's status and track nor the row, *)
(* and leaves the calls that owe a commit where they are, keeps RowInv.    *)
(***************************************************************************)
LEMMA RowFrame ==
  ASSUME RowInv, UNCHANGED <<status, now, row, call>>,
         \A c \in Callers : pc[c] = "started" => pc'[c] = "started"
  PROVE  RowInv'
BY DEF RowInv, RowLags, Owes

(***************************************************************************)
(* advanceLocked keeps RowInv: at the end of the queue it persists, else   *)
(* the call owes the commit of the track it just started.                  *)
(***************************************************************************)
LEMMA AdvanceRow ==
  ASSUME TypeOK, NEW c \in Callers, NEW q, AdvanceFrom(c, q)
  PROVE  RowInv'
<1>1. CASE StopAtEnd(c)
  BY <1>1, PersistNoLag DEF StopAtEnd, RowInv
<1>2. CASE PopNext(c, q)
  <2>1. pc'[c] = "started" /\ call'[c].next = now' /\ status' = "playing"
    BY <1>2, ProcAssumption DEF PopNext, TypeOK, ProcTypeOK, CallType, Procs
  <2> QED BY <2>1 DEF RowInv, Owes
<1> QED BY <1>1, <1>2 DEF AdvanceFrom

(***************************************************************************)
(* No step makes the row lag behind the session except the start of a      *)
(* track that the call in its unlocked window still owes to the row.       *)
(***************************************************************************)
LEMMA RowStep == TypeOK /\ RowInv /\ [Next]_vars => RowInv'
<1> SUFFICES ASSUME TypeOK, RowInv, [Next]_vars PROVE RowInv'
  OBVIOUS
<1> USE ProcAssumption DEF Procs
<1>0. pc \in [Procs -> PCs] /\ call \in [Callers -> CallType]
  BY DEF TypeOK, ProcTypeOK
<1>1. ASSUME NEW c \in Callers, NEW sig \in Signals, NEW t \in Tracks,
             FeedbackBegin(c, sig, t)
      PROVE  RowInv'
  <2>1. \A d \in Callers : Owes(d) => Owes(d)'
    BY <1>0, <1>1 DEF FeedbackBegin, Owes, liveVars
  <2> QED BY <1>1, <2>1 DEF FeedbackBegin, liveVars, RowInv, RowLags
<1>2. ASSUME NEW c \in Callers, FeedbackAdvance(c) PROVE RowInv'
  BY <1>2, AdvanceRow DEF FeedbackAdvance
<1>3. ASSUME NEW c \in Callers, FeedbackAdvanceEmpty(c) PROVE RowInv'
  <2>1. \A d \in Callers : pc[d] = "started" => pc'[d] = "started"
    BY <1>0, <1>3 DEF FeedbackAdvanceEmpty
  <2> QED BY <1>3, <2>1, RowFrame DEF FeedbackAdvanceEmpty
<1>4. ASSUME NEW c \in Callers, FeedbackOther(c) PROVE RowInv'
  BY <1>4, PersistNoLag DEF FeedbackOther, RowInv
<1>5. ASSUME NEW c \in Callers, AdvanceResume(c) PROVE RowInv'
  <2>1. CASE status # "stopped"
    BY <1>5, <2>1, AdvanceRow DEF AdvanceResume
  <2>2. CASE status = "stopped"
    <3>1. ~RowLags
      BY <2>2 DEF RowInv
    <3>2. UNCHANGED <<status, now, row>>
      BY <1>5, <2>2 DEF AdvanceResume, liveVars
    <3> QED BY <3>1, <3>2 DEF RowInv, RowLags
  <2> QED BY <2>1, <2>2
<1>6. ASSUME NEW c \in Callers, TrackStarted(c) PROVE RowInv'
  <2>1. UNCHANGED <<status, now>>
    BY <1>6 DEF TrackStarted, liveVars
  <2>2. CASE Persist
    BY <2>2, PersistNoLag DEF RowInv
  <2>3. CASE status = "stopped" /\ UNCHANGED row
    BY <2>1, <2>3 DEF RowInv, RowLags
  <2>4. CASE /\ now # call[c].next /\ UNCHANGED row
             /\ pc' = [pc EXCEPT ![c] = "idle"]
    <3>1. call' = [call EXCEPT ![c] = NoCall]
      BY <1>6 DEF TrackStarted
    <3>2. \A d \in Callers : Owes(d) => Owes(d)'
      BY <1>0, <2>1, <2>4, <3>1 DEF Owes
    <3> QED BY <2>1, <2>4, <3>2 DEF RowInv, RowLags
  <2> QED BY <1>6, <2>2, <2>3, <2>4 DEF TrackStarted
<1>7. ASSUME NEW c \in Callers, Back(c) PROVE RowInv'
  <2>1. /\ pc'[c] = "started" /\ status' = "playing"
        /\ call'[c].next = now'
    BY <1>0, <1>7 DEF Back, NoCall
  <2> QED BY <2>1 DEF RowInv, Owes
<1>8. CASE QueueEdit
  BY <1>8, PersistNoLag DEF QueueEdit, InjectQueue, RemoveFromQueue,
     ReorderQueue, EditQueue, RowInv
<1>9. CASE Stop
  BY <1>9, PersistNoLag DEF Stop, RowInv
<1>10. CASE Restart
  BY <1>10 DEF Restart, RowInv, RowLags
<1>11. ASSUME NEW p \in Procs, FillStep(p) PROVE RowInv'
  <2>1. UNCHANGED <<status, now, row, call>>
    BY <1>11 DEF FillStep, FillSnapshot, FillSkips, FillEnough, FillFallback,
       FillCandidates, FillCommit, CommitAuto, liveVars
  <2>2. pc[p] # "started" /\ \A d \in Procs \ {p} : pc'[d] = pc[d]
    BY <1>0, <1>11 DEF FillStep, FillSnapshot, FillSkips, FillEnough,
       FillFallback, FillCandidates, FillCommit, FillReturn
  <2> QED BY <2>1, <2>2, RowFrame
<1>12. ASSUME NEW f \in Fillers, RefillStep(f) PROVE RowInv'
  <2>1. CASE Persist
    BY <2>1, PersistNoLag DEF RowInv
  <2>2. CASE UNCHANGED <<status, now, row, call>>
    <3>1. \A d \in Callers : pc'[d] = pc[d]
      BY <1>0, <1>12 DEF RefillStep, RefillGate, RefillPersist
    <3> QED BY <2>2, <3>1, RowFrame
  <2> QED BY <1>12, <2>1, <2>2 DEF RefillStep, RefillGate, RefillPersist, liveVars
<1>13. CASE UNCHANGED vars
  BY <1>13 DEF vars, liveVars, procVars, RowInv, RowLags, Owes
<1> QED
  BY <1>1, <1>2, <1>3, <1>4, <1>5, <1>6, <1>7, <1>8, <1>9, <1>10, <1>11,
     <1>12, <1>13 DEF Next, Step, CallerStep

(***************************************************************************)
(* A restart resumes the listener's track and status unless a call is just *)
(* then between starting a track and committing it (advanceLocked, Back,   *)
(* Stop, scheduleQueueRefill).                                             *)
(***************************************************************************)
THEOREM RowMatches == Spec => []RowMatchesSession
<1>1. Init => RowInv
  BY DEF Init, RowInv, RowLags
<1>2. RowInv => RowMatchesSession
  BY DEF RowInv, RowLags, RowMatchesSession
<1> QED BY <1>1, <1>2, RowStep, TypeCorrect, PTL DEF Spec

-----------------------------------------------------------------------------
(***************************************************************************)
(* Every track Back can return to is recorded as played: what enters the   *)
(* history enters Recent in the same critical section, and Recent only     *)
(* shrinks together with the history (restart).                            *)
(***************************************************************************)
LEMMA HistoryStep == TypeOK /\ HistoryIsPlayed /\ [Next]_vars => HistoryIsPlayed'
<1> SUFFICES ASSUME TypeOK, HistoryIsPlayed, [Next]_vars PROVE HistoryIsPlayed'
  OBVIOUS
<1>0. history \in Seq(Tracks) /\ now \in Tracks
  BY DEF TypeOK, LiveTypeOK
<1>1. CASE UNCHANGED <<recent, history>>
  BY <1>1 DEF HistoryIsPlayed
<1>2. ASSUME NEW c \in Callers, NEW q, AdvanceFrom(c, q) PROVE HistoryIsPlayed'
  <2>1. CASE StopAtEnd(c)
    BY <1>1, <2>1 DEF StopAtEnd
  <2>2. CASE PopNext(c, q)
    <3>1. Range(PushCapped(history, now, HistoryCap)) \subseteq
            Range(history) \cup {now}
      BY <1>0, LimitAssumption, PushCappedType
    <3> QED BY <2>2, <3>1 DEF PopNext, HistoryIsPlayed
  <2> QED BY <1>2, <2>1, <2>2 DEF AdvanceFrom
<1>3. ASSUME NEW c \in Callers, Back(c) PROVE HistoryIsPlayed'
  <2> DEFINE n == Len(history) - 1
             h == SubSeq(history, 1, n)
  <2>1. history' = h /\ recent' = recent
    BY <1>3 DEF Back
  <2>2. /\ n \in Int /\ n < Len(history)
        /\ \A i \in 1..n : history[i] \in Range(history)
    BY <1>0, LenProperties DEF Range
  <2>3. h \in Seq(Range(history))
    <3> HIDE DEF n
    <3> QED BY <2>2, SubSeqProperties
  <2>4. Range(h) \subseteq Range(history)
    <3> HIDE DEF h
    <3> QED BY <2>3, LenProperties DEF Range
  <2> QED BY <2>1, <2>4 DEF HistoryIsPlayed
<1>4. ASSUME NEW c \in Callers, CallerStep(c) PROVE HistoryIsPlayed'
  <2>1. ASSUME NEW sig \in Signals, NEW t \in Tracks, FeedbackBegin(c, sig, t)
        PROVE  HistoryIsPlayed'
    BY <1>1, <2>1 DEF FeedbackBegin, liveVars
  <2>2. CASE FeedbackAdvance(c)
    BY <1>2, <2>2 DEF FeedbackAdvance
  <2>3. CASE FeedbackAdvanceEmpty(c) \/ FeedbackOther(c) \/ TrackStarted(c)
    BY <1>1, <2>3 DEF FeedbackAdvanceEmpty, FeedbackOther, TrackStarted, liveVars
  <2>4. CASE AdvanceResume(c)
    BY <1>1, <1>2, <2>4 DEF AdvanceResume, liveVars
  <2> QED BY <1>3, <1>4, <2>1, <2>2, <2>3, <2>4 DEF CallerStep
<1>5. CASE QueueEdit \/ Stop
  BY <1>1, <1>5 DEF QueueEdit, InjectQueue, RemoveFromQueue, ReorderQueue,
     EditQueue, Stop
<1>6. CASE Restart
  BY <1>6 DEF Restart, HistoryIsPlayed, Range
<1>7. ASSUME NEW p \in Procs, FillStep(p) PROVE HistoryIsPlayed'
  BY <1>1, <1>7 DEF FillStep, FillSnapshot, FillSkips, FillEnough, FillFallback,
     FillCandidates, FillCommit, CommitAuto, liveVars
<1>8. ASSUME NEW f \in Fillers, RefillStep(f) PROVE HistoryIsPlayed'
  BY <1>1, <1>8 DEF RefillStep, RefillGate, RefillPersist, liveVars
<1>9. CASE UNCHANGED vars
  BY <1>1, <1>9 DEF vars, liveVars
<1> QED BY <1>4, <1>5, <1>6, <1>7, <1>8, <1>9 DEF Next, Step

(***************************************************************************)
(* No refill that starts now offers a track the listener can go Back to.   *)
(***************************************************************************)
THEOREM HistoryPlayed == Spec => []HistoryIsPlayed
<1>1. Init => HistoryIsPlayed
  BY DEF Init, HistoryIsPlayed, Range
<1> QED BY <1>1, HistoryStep, TypeCorrect, PTL DEF Spec

-----------------------------------------------------------------------------
(***************************************************************************)
(* Only these steps change the status or the playing track of a stopped    *)
(* session.                                                                *)
(***************************************************************************)
LEMMA StopStep ==
  ASSUME TypeOK, Next, status = "stopped", status' # "stopped" \/ now' # now
  PROVE  \/ restarts' # restarts
         \/ \E c \in Callers : pc[c] = "feedback" /\ call[c].track = now
<1>1. ASSUME NEW c \in Callers, CallerStep(c)
      PROVE  pc[c] = "feedback" /\ call[c].track = now
  BY <1>1 DEF CallerStep, FeedbackBegin, FeedbackAdvance, FeedbackAdvanceEmpty,
     FeedbackOther, AdvanceResume, TrackStarted, Back, liveVars
<1>2. ~QueueEdit /\ ~Stop
  BY DEF QueueEdit, InjectQueue, RemoveFromQueue, ReorderQueue, EditQueue, Stop
<1>3. CASE Restart
  BY <1>3 DEF Restart, TypeOK
<1>4. \A p \in Procs : ~FillStep(p)
  BY DEF FillStep, FillSnapshot, FillSkips, FillEnough, FillFallback,
     FillCandidates, FillCommit, CommitAuto, liveVars
<1>5. \A f \in Fillers : ~RefillStep(f)
  BY DEF RefillStep, RefillGate, RefillPersist, liveVars
<1> QED BY <1>1, <1>2, <1>3, <1>4, <1>5 DEF Next, Step

(***************************************************************************)
(* A stop holds against everything that was under way (refills, advances   *)
(* and Backs in their unlocked windows) and against queue edits.           *)
(***************************************************************************)
THEOREM StopHolds == Spec => StopHoldsInFlight
<1>1. /\ TypeOK
      /\ [Next]_vars
      => [status = "stopped" /\ (status' # "stopped" \/ now' # now)
            => \/ restarts' # restarts
               \/ \E c \in Callers : pc[c] = "feedback" /\ call[c].track = now]_vars
  BY StopStep
<1> QED BY <1>1, TypeCorrect, PTL DEF Spec, StopHoldsInFlight

-----------------------------------------------------------------------------
(***************************************************************************)
(* The commit of a refill keeps every pin.                                 *)
(***************************************************************************)
LEMMA CommitKeepsPins ==
  ASSUME LiveTypeOK, NEW auto \in Seq(Tracks), CommitAuto(auto)
  PROVE  pinned \cap Range(queue) \subseteq Range(queue')
<1>1. queue \in Seq(Tracks) /\ Pins \in Seq(Tracks)
  BY HalvesType DEF LiveTypeOK
<1>2. Range(queue) \cap pinned \subseteq Range(Pins)
  BY <1>1, OnlyKeeps DEF Pins
<1>3. Range(Pins \o auto) = Range(Pins) \cup Range(auto)
  BY <1>1, ConcatRange
<1> QED BY <1>2, <1>3 DEF CommitAuto

(***************************************************************************)
(* advanceLocked takes nothing but the head from its queue.                *)
(***************************************************************************)
LEMMA AdvanceKeeps ==
  ASSUME NEW c \in Callers, NEW q \in Seq(Tracks), AdvanceFrom(c, q)
  PROVE  \A t \in Range(q) : t \in Range(queue') \/ t = now'
<1>1. CASE q = <<>>
  BY <1>1 DEF Range
<1>2. CASE q # <<>> /\ PopNext(c, q)
  <2>1. /\ Len(q) \in Nat /\ DOMAIN q = 1..Len(q)
        /\ Tail(q) \in Seq(Tracks) /\ Len(Tail(q)) = Len(q) - 1
        /\ \A i \in 1..Len(Tail(q)) : Tail(q)[i] = q[i + 1]
        /\ Head(q) = q[1]
    BY <1>2, LenProperties, HeadTailProperties
  <2>2. DOMAIN Tail(q) = 1..(Len(q) - 1)
    BY <2>1, LenProperties
  <2>3. ASSUME NEW i \in 1..Len(q), i # 1
        PROVE  q[i] \in Range(Tail(q))
    <3>1. i - 1 \in 1..Len(Tail(q)) /\ Tail(q)[i - 1] = q[i]
      BY <2>1, <2>3
    <3> QED BY <2>1, <2>2, <3>1 DEF Range
  <2>4. \A t \in Range(q) : t \in Range(Tail(q)) \/ t = Head(q)
    BY <2>1, <2>3 DEF Range
  <2> QED BY <1>2, <2>4 DEF PopNext
<1> QED BY <1>1, <1>2 DEF AdvanceFrom

(***************************************************************************)
(* What may happen to a pinned queued track in one step.                   *)
(***************************************************************************)
LEMMA PinStep ==
  ASSUME TypeOK, Next, NEW t \in pinned \cap Range(queue)
  PROVE  \/ t \in Range(queue') \/ t = now'
         \/ calls' # calls \/ restarts' # restarts
         \/ \E c \in Callers : pc[c] = "feedback" /\ call[c].track = t
<1> DEFINE Kept == t \in Range(queue') \/ t = now'
           Named(c) == pc[c] = "feedback" /\ call[c].track = t
<1>0. /\ LiveTypeOK /\ queue \in Seq(Tracks) /\ Pins \in Seq(Tracks)
      /\ AutoPart \in Seq(Tracks) /\ Len(AutoPart) \in Nat /\ t \in Range(Pins)
      /\ calls \in Nat /\ restarts \in Nat
  BY HalvesType, OnlyKeeps, LimitAssumption DEF TypeOK, LiveTypeOK, Pins
<1>1. CASE UNCHANGED queue
  BY <1>1
<1>2. ASSUME NEW c \in Callers, CallerStep(c)
      PROVE  Kept \/ calls' # calls \/ Named(c)
  <2>1. /\ Without(queue, call[c].track) \in Seq(Tracks)
        /\ t # call[c].track => t \in Range(Without(queue, call[c].track))
    BY <1>0, WithoutType, WithoutKeeps
  <2>2. CASE FeedbackAdvance(c)
    BY <2>1, <2>2, AdvanceKeeps DEF FeedbackAdvance
  <2>3. CASE FeedbackAdvanceEmpty(c)
    BY <2>1, <2>3 DEF FeedbackAdvanceEmpty, Range
  <2>4. CASE FeedbackOther(c)
    BY <1>1, <2>1, <2>4 DEF FeedbackOther
  <2>5. CASE AdvanceResume(c)
    BY <1>0, <1>1, <2>5, AdvanceKeeps DEF AdvanceResume, liveVars
  <2>6. CASE TrackStarted(c)
    BY <1>1, <2>6 DEF TrackStarted, liveVars
  <2>7. CASE Back(c) \/ \E sig \in Signals, u \in Tracks : FeedbackBegin(c, sig, u)
    <3>1. calls' = calls + 1
      BY <2>7 DEF Back, FeedbackBegin
    <3> QED BY <1>0, <3>1
  <2> QED BY <1>2, <2>2, <2>3, <2>4, <2>5, <2>6, <2>7 DEF CallerStep
<1>3. CASE QueueEdit
  <2>1. calls' = calls + 1
    BY <1>3 DEF QueueEdit, InjectQueue, RemoveFromQueue, ReorderQueue, EditQueue
  <2> QED BY <1>0, <2>1
<1>4. CASE Stop
  BY <1>1, <1>4 DEF Stop
<1>5. CASE Restart
  BY <1>0, <1>5 DEF Restart
<1>6. ASSUME NEW p \in Procs, FillStep(p) PROVE Kept
  <2>1. CASE UNCHANGED queue
    BY <2>1
  <2>2. ASSUME NEW auto \in Seq(Tracks), CommitAuto(auto) PROVE Kept
    BY <1>0, <2>2, CommitKeepsPins
  <2>3. CASE FillEnough(p)
    <3>1. Take(AutoPart, Prefetch) \in Seq(Tracks)
      BY <1>0, TakeType, LimitAssumption
    <3> QED BY <2>2, <2>3, <3>1 DEF FillEnough
  <2>4. CASE FillFallback(p)
    BY <1>0, <2>2, <2>4, FallbackType DEF FillFallback, TypeOK
  <2>5. ASSUME NEW picks \in Picks(p), NEW bridged \in BOOLEAN,
               FillCommit(p, picks, bridged)
        PROVE  Kept
    BY <1>0, <2>2, <2>5, PicksType DEF FillCommit, TypeOK
  <2> QED BY <1>6, <2>1, <2>3, <2>4, <2>5
      DEF FillStep, FillSnapshot, FillSkips, FillCandidates, liveVars
<1>7. ASSUME NEW f \in Fillers, RefillStep(f) PROVE Kept
  BY <1>0, <1>7 DEF RefillStep, RefillGate, RefillPersist, liveVars
<1> QED BY <1>2, <1>3, <1>4, <1>5, <1>6, <1>7 DEF Next, Step

(***************************************************************************)
(* No refill, no advance of another call and no stop loses a pinned track. *)
(***************************************************************************)
THEOREM PinsAreKept == Spec => PinsSurvive
<1>1. /\ TypeOK
      /\ [Next]_vars
      => [\A t \in pinned \cap Range(queue) :
            \/ t \in Range(queue') \/ t = now'
            \/ calls' # calls \/ restarts' # restarts
            \/ \E c \in Callers : pc[c] = "feedback" /\ call[c].track = t]_vars
  BY PinStep
<1> QED BY <1>1, TypeCorrect, PTL DEF Spec, PinsSurvive

-----------------------------------------------------------------------------
(***************************************************************************)
(* An album session never searches: its calls do not wait for a refill and *)
(* its refill goroutines stop at the gate.                                 *)
(***************************************************************************)
AlbumInv ==
  /\ \A c \in Callers : pc[c] \in {"idle", "feedback", "started"}
  /\ \A f \in Fillers : pc[f] \in {"idle", "gate"}

(***************************************************************************)
(* Starting a refill and letting calls return keeps the album invariant.   *)
(***************************************************************************)
LEMMA AlbumSpawn ==
  ASSUME AlbumInv, NEW done, NEW seed, Spawn(done, seed)
  PROVE  AlbumInv'
BY ProcAssumption DEF AlbumInv, Spawn, Procs

(***************************************************************************)
(* In an album session no call ever waits for a refill: the queue is never *)
(* filled, so advanceLocked never releases live.mu for one.                *)
(***************************************************************************)
LEMMA AlbumStep ==
  ASSUME kind = "album", TypeOK, AlbumInv, [Next]_vars
  PROVE  AlbumInv'
<1> USE ProcAssumption DEF Procs
<1>0. pc \in [Procs -> PCs]
  BY DEF TypeOK, ProcTypeOK
<1>1. ASSUME NEW c \in Callers, NEW s \in {"idle", "feedback", "started"},
             pc' = [pc EXCEPT ![c] = s]
      PROVE  AlbumInv'
  BY <1>0, <1>1 DEF AlbumInv
<1>2. ASSUME NEW f \in Fillers, pc' = [pc EXCEPT ![f] = "idle"]
      PROVE  AlbumInv'
  BY <1>0, <1>2 DEF AlbumInv
<1>3. CASE UNCHANGED pc
  BY <1>3 DEF AlbumInv
<1>4. ASSUME NEW c \in Callers, CallerStep(c) PROVE AlbumInv'
  <2>1. CASE \E q : AdvanceFrom(c, q)
    BY <1>1, <2>1 DEF AdvanceFrom, StopAtEnd, PopNext
  <2>2. CASE Back(c) \/ \E sig \in Signals, t \in Tracks : FeedbackBegin(c, sig, t)
    BY <1>1, <2>2 DEF Back, FeedbackBegin
  <2>3. CASE FeedbackOther(c) \/ TrackStarted(c)
    BY <1>1, <2>3, AlbumSpawn DEF FeedbackOther, TrackStarted
  <2>4. ~FeedbackAdvanceEmpty(c) /\ ~AdvanceResume(c)
    BY DEF FeedbackAdvanceEmpty, AdvanceResume, AlbumInv
  <2> QED BY <1>4, <2>1, <2>2, <2>3, <2>4 DEF CallerStep, FeedbackAdvance
<1>5. CASE QueueEdit
  BY <1>5, AlbumSpawn DEF QueueEdit, InjectQueue, RemoveFromQueue, ReorderQueue,
     EditQueue
<1>6. CASE Stop
  BY <1>3, <1>6 DEF Stop, procVars
<1>7. CASE Restart
  BY <1>7 DEF Restart, AlbumInv
<1>8. \A p \in Procs : ~FillStep(p)
  BY DEF FillStep, FillSnapshot, FillSkips, FillEnough, FillFallback,
     FillCandidates, FillCommit, AlbumInv
<1>9. ASSUME NEW f \in Fillers, RefillStep(f) PROVE AlbumInv'
  BY <1>2, <1>9 DEF RefillStep, RefillGate, RefillPersist
<1>10. CASE UNCHANGED vars
  BY <1>3, <1>10 DEF vars, procVars
<1> QED BY <1>4, <1>5, <1>6, <1>7, <1>8, <1>9, <1>10 DEF Next, Step

(***************************************************************************)
(* In an album session the playing track changes only by a client's new    *)
(* call, by a restart, or by a feedback call that still names it.          *)
(***************************************************************************)
LEMMA AlbumAdvance ==
  ASSUME kind = "album", TypeOK, AlbumInv, Next, now' # now
  PROVE  \/ calls' # calls \/ restarts' # restarts
         \/ \E c \in Callers : /\ pc[c] = "feedback" /\ pc'[c] = "started"
                              /\ call[c].track = now
<1>0. calls \in Nat /\ restarts \in Nat /\ pc \in [Procs -> PCs]
  BY LimitAssumption DEF TypeOK, ProcTypeOK
<1>1. ASSUME NEW c \in Callers, CallerStep(c)
      PROVE  \/ calls' # calls
             \/ /\ pc[c] = "feedback" /\ pc'[c] = "started"
                /\ call[c].track = now
  <2>1. CASE Back(c)
    <3>1. calls' = calls + 1
      BY <2>1 DEF Back
    <3> QED BY <1>0, <3>1
  <2>2. CASE FeedbackAdvance(c)
    BY <1>0, <2>2, ProcAssumption DEF FeedbackAdvance, AdvanceFrom, StopAtEnd,
       PopNext, Procs
  <2>3. ~AdvanceResume(c)
    BY DEF AdvanceResume, AlbumInv
  <2> QED BY <1>1, <2>1, <2>2, <2>3 DEF CallerStep, FeedbackBegin,
          FeedbackAdvanceEmpty, FeedbackOther, TrackStarted, liveVars
<1>2. ~QueueEdit /\ ~Stop
  BY DEF QueueEdit, InjectQueue, RemoveFromQueue, ReorderQueue, EditQueue, Stop
<1>3. CASE Restart
  BY <1>0, <1>3 DEF Restart
<1>4. \A p \in Procs : ~FillStep(p)
  BY DEF FillStep, FillSnapshot, FillSkips, FillEnough, FillFallback,
     FillCandidates, FillCommit, CommitAuto, liveVars
<1>5. \A f \in Fillers : ~RefillStep(f)
  BY DEF RefillStep, RefillGate, RefillPersist, liveVars
<1> QED BY <1>1, <1>2, <1>3, <1>4, <1>5 DEF Next, Step

(***************************************************************************)
(* An album advances once per track that ends, however many clients report *)
(* the end and however their calls interleave.                             *)
(***************************************************************************)
THEOREM AlbumAdvancesOnce == Spec => OneAdvancePerEnd
<1>1. Init => (kind = "album" => AlbumInv)
  BY DEF Init, AlbumInv, Procs
<1>2. TypeOK /\ (kind = "album" => AlbumInv) /\ [Next]_vars
        => (kind = "album" => AlbumInv)'
  <2>1. [Next]_vars => kind' = kind
    BY DEF Next, vars
  <2> QED BY <2>1, AlbumStep
<1>3. /\ TypeOK /\ (kind = "album" => AlbumInv)
      /\ [Next]_vars
      => [kind = "album" /\ now' # now =>
            \/ calls' # calls \/ restarts' # restarts
            \/ \E c \in Callers : /\ pc[c] = "feedback" /\ pc'[c] = "started"
                                 /\ call[c].track = now]_vars
  BY AlbumAdvance
<1> QED BY <1>1, <1>2, <1>3, TypeCorrect, PTL DEF Spec, OneAdvancePerEnd

-----------------------------------------------------------------------------
(* A quiet client.                                                         *)

(***************************************************************************)
(* A client that waits for the refills of its last call never has two      *)
(* things under way at once: of all calls and refill goroutines at most    *)
(* one is busy (a call hands over to the refill it schedules).             *)
(***************************************************************************)
Solo == \A p, q \in Procs : pc[p] # "idle" /\ pc[q] # "idle" => p = q

\* Every call and refill but p is idle, or a goroutine that is to begin.
Rest(p) == \A q \in Procs \ {p} : pc[q] \in {"idle", "gate"}

(***************************************************************************)
(* The only busy process goes on, or hands over to a refill.               *)
(***************************************************************************)
LEMMA SoloMove ==
  ASSUME pc \in [Procs -> PCs], NEW p \in Procs, NEW next,
         \A q \in Procs \ {p} : pc[q] = "idle",
         pc' = [pc EXCEPT ![p] = next]
  PROVE  Solo' /\ Rest(p)' /\ pc'[p] = next
BY DEF Solo, Rest

(***************************************************************************)
(* Handing over to a refill goroutine leaves that goroutine alone.         *)
(***************************************************************************)
LEMMA SoloSpawn ==
  ASSUME pc \in [Procs -> PCs], NEW done, NEW seed, Spawn(done, seed),
         \A q \in Procs \ done : pc[q] = "idle"
  PROVE  Solo' /\ \A q \in Procs : pc'[q] \in {"idle", "gate"}
<1>1. PICK f \in Fillers :
        pc' = [p \in Procs |-> IF p = f THEN "gate"
                               ELSE IF p \in done THEN "idle" ELSE pc[p]]
  BY DEF Spawn
<1>2. \A q \in Procs : pc'[q] = IF q = f THEN "gate" ELSE "idle"
  BY <1>1
<1> QED BY <1>2 DEF Solo

(***************************************************************************)
(* While a client call is served nothing else is busy, and it ends idle,   *)
(* in the unlocked window of its advance, or in front of its own refill.   *)
(***************************************************************************)
LEMMA CallerMoves ==
  ASSUME QuietClient, TypeOK, Solo, NEW c \in Callers, CallerStep(c)
  PROVE  /\ \A q \in Procs \ {c} : pc[q] = "idle"
         /\ Solo' /\ Rest(c)'
         /\ pc'[c] \in {"idle", "gate", "feedback", "started", "snapshot"}
<1>1. pc \in [Procs -> PCs] /\ c \in Procs
  BY DEF TypeOK, ProcTypeOK, Procs
<1>2. \A q \in Procs \ {c} : pc[q] = "idle"
  <2>1. CASE Idle
    BY <2>1 DEF Idle
  <2>2. CASE pc[c] # "idle"
    BY <1>1, <2>2 DEF Solo
  <2> QED BY <2>1, <2>2 DEF CallerStep, FeedbackBegin, FeedbackAdvance,
      FeedbackAdvanceEmpty, FeedbackOther, AdvanceResume, TrackStarted, Back,
      MayCall
<1>3. ASSUME NEW next \in {"idle", "feedback", "started", "snapshot"},
             pc' = [pc EXCEPT ![c] = next]
      PROVE  /\ Solo' /\ Rest(c)'
             /\ pc'[c] \in {"idle", "gate", "feedback", "started", "snapshot"}
  BY <1>1, <1>2, <1>3, SoloMove
<1>4. ASSUME NEW seed, Spawn({c}, seed)
      PROVE  /\ Solo' /\ Rest(c)'
             /\ pc'[c] \in {"idle", "gate", "feedback", "started", "snapshot"}
  BY <1>1, <1>2, <1>4, SoloSpawn DEF Rest
<1>5. ASSUME NEW q, AdvanceFrom(c, q)
      PROVE  \E next \in {"idle", "started"} : pc' = [pc EXCEPT ![c] = next]
  BY <1>5 DEF AdvanceFrom, StopAtEnd, PopNext
<1>6. CASE FeedbackAdvance(c) \/ AdvanceResume(c)
  BY <1>2, <1>3, <1>5, <1>6 DEF FeedbackAdvance, AdvanceResume
<1>7. CASE FeedbackOther(c)
  BY <1>2, <1>3, <1>4, <1>7 DEF FeedbackOther
<1>8. CASE TrackStarted(c)
  BY <1>2, <1>3, <1>4, <1>8 DEF TrackStarted
<1>9. CASE \/ \E sig \in Signals, t \in Tracks : FeedbackBegin(c, sig, t)
           \/ FeedbackAdvanceEmpty(c) \/ Back(c)
  BY <1>2, <1>3, <1>9 DEF FeedbackBegin, FeedbackAdvanceEmpty, Back
<1> QED BY <1>2, <1>6, <1>7, <1>8, <1>9 DEF CallerStep

(***************************************************************************)
(* A queue edit finds everything settled and starts one refill.            *)
(***************************************************************************)
LEMMA EditMoves ==
  ASSUME QuietClient, TypeOK, EditQueue
  PROVE  Idle /\ Solo' /\ \A q \in Procs : pc'[q] \in {"idle", "gate"}
<1>1. pc \in [Procs -> PCs]
  BY DEF TypeOK, ProcTypeOK
<1>2. Idle
  BY DEF EditQueue, MayCall
<1> QED BY <1>1, <1>2, SoloSpawn DEF EditQueue, Idle

(***************************************************************************)
(* A refill that is under way is the only thing under way.                 *)
(***************************************************************************)
LEMMA FillMoves ==
  ASSUME TypeOK, Solo, NEW p \in Procs,
         FillStep(p) \/ RefillStep(p)
  PROVE  /\ pc[p] # "idle" /\ \A q \in Procs \ {p} : pc[q] = "idle"
         /\ Solo' /\ \A q \in Procs \ {p} : pc'[q] = "idle"
<1>1. pc \in [Procs -> PCs]
  BY DEF TypeOK, ProcTypeOK
<1>2. pc[p] # "idle" /\ \E next : pc' = [pc EXCEPT ![p] = next]
  <2>1. CASE FillSkips(p)
    BY <2>1 DEF FillSkips, FillReturn
  <2>2. CASE FillStep(p) /\ ~FillSkips(p)
    BY <2>2 DEF FillStep, FillSnapshot, FillEnough, FillFallback,
       FillCandidates, FillCommit, FillReturn
  <2>3. CASE RefillStep(p)
    BY <2>3 DEF RefillStep, RefillGate, RefillPersist
  <2> QED BY <2>1, <2>2, <2>3
<1>3. \A q \in Procs \ {p} : pc[q] = "idle"
  BY <1>2 DEF Solo
<1> QED BY <1>1, <1>2, <1>3, SoloMove

(***************************************************************************)
(* No step of a quiet client's session makes two of them busy.             *)
(***************************************************************************)
LEMMA SoloStep ==
  ASSUME QuietClient, TypeOK, Solo, [Next]_vars
  PROVE  Solo'
<1>1. ASSUME NEW c \in Callers, CallerStep(c) PROVE Solo'
  BY <1>1, CallerMoves
<1>2. CASE QueueEdit
  BY <1>2, EditMoves DEF QueueEdit, InjectQueue, RemoveFromQueue, ReorderQueue
<1>3. CASE Stop \/ UNCHANGED vars
  BY <1>3 DEF Solo, Stop, vars, procVars
<1>4. CASE Restart
  BY <1>4 DEF Restart, Solo
<1>5. ASSUME NEW p \in Procs, FillStep(p) PROVE Solo'
  BY <1>5, FillMoves
<1>6. ASSUME NEW f \in Fillers, RefillStep(f) PROVE Solo'
  BY <1>6, FillMoves DEF Procs
<1> QED BY <1>1, <1>2, <1>3, <1>4, <1>5, <1>6
    DEF Next, Step

(***************************************************************************)
(* No track is queued twice, in the session or in its row.                 *)
(***************************************************************************)
QueuedOnce == IsDuplicateFree(queue) /\ IsDuplicateFree(row.queue)

Searching == {"skips", "candidates", "commit"}

(***************************************************************************)
(* What a refill saw when it started still holds at its commit: it leaves  *)
(* out all that is queued or playing, and a bridge is due only if none is  *)
(* on its way.  (A client that does not wait breaks this.)                 *)
(***************************************************************************)
SearchIsCurrent ==
  \A p \in Procs :
    /\ pc[p] \in Searching => Range(queue) \cup {now} \subseteq fill[p].exclude
    /\ pc[p] = "commit" /\ fill[p].due => ~bridgeQueued

(***************************************************************************)
(* The two halves of a queue without repetition have no common track and   *)
(* only tracks of the queue.                                               *)
(***************************************************************************)
LEMMA HalvesDupFree ==
  ASSUME LiveTypeOK, IsDuplicateFree(queue)
  PROVE  /\ Pins \in Seq(Tracks) /\ IsDuplicateFree(Pins)
         /\ AutoPart \in Seq(Tracks) /\ IsDuplicateFree(AutoPart)
         /\ Range(Pins) \subseteq Range(queue) \cap pinned
         /\ Range(AutoPart) \subseteq Range(queue) \ pinned
<1>1. queue \in Seq(Tracks)
  BY DEF LiveTypeOK
<1>2. /\ Range(Pins) \subseteq Range(queue) \cap pinned
      /\ Range(AutoPart) \subseteq Range(queue) \cap (Tracks \ pinned)
  BY <1>1, OnlyType DEF Pins, AutoPart
<1>3. IsDuplicateFree(Pins) /\ IsDuplicateFree(AutoPart)
  BY <1>1, OnlyDupFree DEF Pins, AutoPart
<1> QED BY <1>2, <1>3, HalvesType

(***************************************************************************)
(* What a commit may append: an automatic part without repetition whose    *)
(* tracks are in the automatic part already, or are new to the queue.      *)
(***************************************************************************)
Addable(auto, exclude) ==
  /\ auto \in Seq(Tracks) /\ IsDuplicateFree(auto)
  /\ Range(auto) \subseteq Range(AutoPart) \cup (Tracks \ exclude)

(***************************************************************************)
(* A commit of such a part behind the pins leaves each track once, and adds *)
(* nothing that the refill was to leave out.                               *)
(***************************************************************************)
LEMMA CommitOnce ==
  ASSUME LiveTypeOK, IsDuplicateFree(queue), NEW exclude,
         Range(queue) \subseteq exclude,
         NEW auto, Addable(auto, exclude), CommitAuto(auto)
  PROVE  /\ IsDuplicateFree(queue')
         /\ Range(queue') \subseteq Range(queue) \cup (Tracks \ exclude)
<1>1. /\ Pins \in Seq(Tracks) /\ IsDuplicateFree(Pins)
      /\ Range(Pins) \subseteq Range(queue) \cap pinned
      /\ Range(AutoPart) \subseteq Range(queue) \ pinned
  BY HalvesDupFree
<1>2. Range(Pins) \cap Range(auto) = {}
  BY <1>1 DEF Addable
<1>3. IsDuplicateFree(Pins \o auto)
  BY <1>1, <1>2, ConcatDupFree DEF Addable
<1>4. Range(Pins \o auto) = Range(Pins) \cup Range(auto)
  BY <1>1, ConcatRange DEF Addable
<1> QED BY <1>1, <1>3, <1>4 DEF Addable, CommitAuto

(***************************************************************************)
(* A truncated automatic part may be committed.                            *)
(***************************************************************************)
LEMMA EnoughAddable ==
  ASSUME LiveTypeOK, IsDuplicateFree(queue), NEW exclude
  PROVE  /\ Addable(Take(AutoPart, Prefetch), exclude)
         /\ Addable(AutoPart, exclude)
BY HalvesDupFree, TakeType, TakeDupFree, LimitAssumption DEF Addable

(***************************************************************************)
(* So may the tracks of the catalog fallback: the catalog has no track     *)
(* twice, and the excluded ones are left out.                              *)
(***************************************************************************)
LEMMA FallbackAddable ==
  ASSUME LiveTypeOK, ProcTypeOK, IsDuplicateFree(queue), NEW p \in Procs
  PROVE  Addable(AutoPart \o Take(FallbackTracks(p),
                                  IF Len(AutoPart) < Prefetch
                                  THEN Prefetch - Len(AutoPart) ELSE 1),
                 fill[p].exclude)
<1> DEFINE room == IF Len(AutoPart) < Prefetch
                   THEN Prefetch - Len(AutoPart) ELSE 1
           listed == FallbackTracks(p)
           S == Tracks \ (fill[p].exclude \cup Range(AutoPart))
<1>1. AutoPart \in Seq(Tracks) /\ IsDuplicateFree(AutoPart) /\ room \in Nat
  BY HalvesDupFree, HalvesType, LimitAssumption
<1>2. /\ listed \in Seq(Tracks) /\ IsDuplicateFree(listed)
      /\ Range(listed) \subseteq S
  <2>1. fill[p].need + Slack \in Nat
    BY LimitAssumption DEF ProcTypeOK, FillType
  <2>2. /\ Take(Catalog, fill[p].need + Slack) \in Seq(Tracks)
        /\ IsDuplicateFree(Take(Catalog, fill[p].need + Slack))
    BY <2>1, TakeType, TakeDupFree, CatalogAssumption
  <2>3. listed = Only(Take(Catalog, fill[p].need + Slack), S)
    BY DEF FallbackTracks, Listed
  <2> HIDE DEF S, listed
  <2> QED BY <2>2, <2>3, OnlyType, OnlyDupFree
<1> HIDE DEF room, listed
<1>3. /\ Take(listed, room) \in Seq(Tracks) /\ IsDuplicateFree(Take(listed, room))
      /\ Range(Take(listed, room)) \subseteq S
  BY <1>1, <1>2, TakeType, TakeDupFree
<1> DEFINE u == Take(listed, room)
<1> HIDE DEF u
<1>4. /\ AutoPart \o u \in Seq(Tracks) /\ IsDuplicateFree(AutoPart \o u)
      /\ Range(AutoPart \o u) = Range(AutoPart) \cup Range(u)
  BY <1>1, <1>3, ConcatDupFree, ConcatRange, ConcatProperties DEF u
<1>5. Addable(AutoPart \o u, fill[p].exclude)
  BY <1>3, <1>4 DEF Addable, u
<1> QED BY <1>5 DEF u, room, listed

(***************************************************************************)
(* So may the picks of the neighbour search, whatever it picks: none is    *)
(* excluded, and those queued meanwhile are left out.                      *)
(***************************************************************************)
LEMMA PicksAddable ==
  ASSUME LiveTypeOK, ProcTypeOK, IsDuplicateFree(queue),
         NEW p \in Procs, NEW picks \in Picks(p)
  PROVE  Addable(Take(AutoPart \o Only(picks, Tracks \ Range(AutoPart)), Prefetch),
                 fill[p].exclude)
<1> DEFINE fresh == Only(picks, Tracks \ Range(AutoPart))
           auto == Take(AutoPart \o fresh, Prefetch)
<1>1. PICK n \in 0..fill[p].need : /\ picks \in [1..n -> Tracks \ fill[p].exclude]
                                   /\ IsDuplicateFree(picks)
  BY DEF Picks
<1>2. n \in Nat
  BY DEF ProcTypeOK, FillType
<1>3. picks \in Seq(Tracks) /\ Range(picks) \subseteq Tracks \ fill[p].exclude
  BY <1>1, <1>2 DEF Range
<1>4. /\ fresh \in Seq(Tracks) /\ IsDuplicateFree(fresh)
      /\ Range(fresh) \subseteq Range(picks) \cap (Tracks \ Range(AutoPart))
  BY <1>1, <1>3, OnlyType, OnlyDupFree
<1> HIDE DEF fresh
<1>5. AutoPart \in Seq(Tracks) /\ IsDuplicateFree(AutoPart)
  BY HalvesDupFree
<1>6. /\ AutoPart \o fresh \in Seq(Tracks) /\ IsDuplicateFree(AutoPart \o fresh)
      /\ Range(AutoPart \o fresh) = Range(AutoPart) \cup Range(fresh)
  BY <1>4, <1>5, ConcatDupFree, ConcatRange, ConcatProperties
<1>7. /\ auto \in Seq(Tracks) /\ IsDuplicateFree(auto)
      /\ Range(auto) \subseteq Range(AutoPart \o fresh)
  BY <1>6, TakeType, TakeDupFree, LimitAssumption
<1> HIDE DEF auto
<1>8. Addable(auto, fill[p].exclude)
  BY <1>3, <1>4, <1>6, <1>7 DEF Addable
<1> QED BY <1>8 DEF auto, fresh

(***************************************************************************)
(* The commit of a refill: its queue has every track once, and nothing new *)
(* that the refill was to leave out.                                       *)
(***************************************************************************)
LEMMA FillOnce ==
  ASSUME TypeOK, QueuedOnce, SearchIsCurrent, NEW p \in Procs, FillStep(p)
  PROVE  /\ IsDuplicateFree(queue') /\ UNCHANGED row
         /\ \/ UNCHANGED queue
            \/ /\ pc[p] \in {"candidates", "commit"}
               /\ Range(queue') \subseteq Range(queue) \cup (Tracks \ fill[p].exclude)
<1>1. LiveTypeOK /\ ProcTypeOK /\ IsDuplicateFree(queue)
  BY DEF TypeOK, QueuedOnce
<1>2. UNCHANGED row
  BY DEF FillStep, FillSnapshot, FillSkips, FillEnough, FillFallback,
     FillCandidates, FillCommit, CommitAuto
<1>3. CASE FillSnapshot(p) \/ FillSkips(p) \/ FillCandidates(p)
  BY <1>1, <1>2, <1>3 DEF FillSnapshot, FillSkips, FillCandidates, liveVars
<1>4. ASSUME NEW auto, Addable(auto, fill[p].exclude), CommitAuto(auto),
             pc[p] \in {"candidates", "commit"}
      PROVE  /\ IsDuplicateFree(queue')
             /\ Range(queue') \subseteq Range(queue) \cup (Tracks \ fill[p].exclude)
  <2>1. Range(queue) \subseteq fill[p].exclude
    BY <1>4 DEF SearchIsCurrent, Searching
  <2> QED BY <1>1, <1>4, <2>1, CommitOnce
<1>5. CASE FillEnough(p)
  <2>1. /\ CommitAuto(Take(AutoPart, Prefetch)) /\ pc[p] = "candidates"
        /\ Addable(Take(AutoPart, Prefetch), fill[p].exclude)
    BY <1>1, <1>5, EnoughAddable DEF FillEnough
  <2> QED BY <1>2, <1>4, <2>1
<1>6. CASE FillFallback(p)
  BY <1>1, <1>2, <1>4, <1>6, EnoughAddable, FallbackAddable DEF FillFallback
<1>7. ASSUME NEW picks \in Picks(p), NEW bridged \in BOOLEAN,
             FillCommit(p, picks, bridged)
      PROVE  /\ IsDuplicateFree(queue')
             /\ pc[p] \in {"candidates", "commit"}
             /\ Range(queue') \subseteq Range(queue) \cup (Tracks \ fill[p].exclude)
  <2>1. Addable(Take(AutoPart \o Only(picks, Tracks \ Range(AutoPart)), Prefetch),
                fill[p].exclude)
    BY <1>1, PicksAddable
  <2> QED BY <1>4, <1>7, <2>1 DEF FillCommit
<1> QED BY <1>2, <1>3, <1>5, <1>6, <1>7 DEF FillStep

(***************************************************************************)
(* Every queue edit leaves each track once.  What it adds was not skipped  *)
(* and is not playing; what it marks as skipped it takes from the queue;   *)
(* and it tags no track as a bridge.                                       *)
(***************************************************************************)
LEMMA EditOnce ==
  ASSUME TypeOK, QueuedOnce, QueueEdit
  PROVE  /\ QueuedOnce' /\ EditQueue
         /\ \A u \in Range(queue') : u \in Range(queue) \/ (u \notin skips' /\ u # now)
         /\ \A u \in skips' : u \in skips \/ u \in Range(queue) \ Range(queue')
         /\ BridgeTracks' \subseteq BridgeTracks
<1>1. /\ LiveTypeOK /\ queue \in Seq(Tracks) /\ IsDuplicateFree(queue)
      /\ sources \in [Tracks -> SourceTags]
  BY DEF TypeOK, LiveTypeOK, QueuedOnce
<1>2. EditQueue
  BY DEF QueueEdit, InjectQueue, RemoveFromQueue, ReorderQueue
<1>6. row'.queue = queue'
  BY <1>2 DEF EditQueue, Persist
<1>3. ASSUME NEW t \in Tracks, NEW position \in {"next", "end"},
             InjectQueue(t, position)
      PROVE  /\ IsDuplicateFree(queue')
             /\ Range(queue') \subseteq Range(queue) \cup {t}
             /\ t \notin skips /\ t # now /\ skips' = skips
             /\ BridgeTracks' \subseteq BridgeTracks
  <2> DEFINE q    == Without(queue, t)
             pins == Only(q, pinned)
             auto == Only(q, Tracks \ pinned)
             head == IF position = "next" THEN <<t>> \o pins ELSE Append(pins, t)
  <2>1. /\ q \in Seq(Tracks) /\ IsDuplicateFree(q)
        /\ Range(q) \subseteq Range(queue) \ {t}
    BY <1>1, WithoutType, WithoutDupFree
  <2> HIDE DEF q
  <2>2. /\ pins \in Seq(Tracks) /\ IsDuplicateFree(pins)
        /\ Range(pins) \subseteq Range(q) \cap pinned
        /\ auto \in Seq(Tracks) /\ IsDuplicateFree(auto)
        /\ Range(auto) \subseteq Range(q) \cap (Tracks \ pinned)
    BY <2>1, OnlyType, OnlyDupFree
  <2> HIDE DEF pins, auto
  <2> DEFINE one == <<t>>
  <2>3. /\ one \in Seq(Tracks) /\ IsDuplicateFree(one) /\ Range(one) = {t}
        /\ Append(pins, t) = pins \o one
    BY <2>2, ShortDupFree, AppendIsConcat
  <2>4. head = IF position = "next" THEN one \o pins ELSE pins \o one
    BY <2>3
  <2> HIDE DEF one
  <2>5. Range(one) \cap Range(pins) = {} /\ Range(pins) \cap Range(one) = {}
    BY <2>1, <2>2, <2>3
  <2>6. /\ one \o pins \in Seq(Tracks) /\ IsDuplicateFree(one \o pins)
        /\ Range(one \o pins) = {t} \cup Range(pins)
    BY <2>2, <2>3, <2>5, ConcatProperties, ConcatDupFree, ConcatRange
  <2>7. /\ pins \o one \in Seq(Tracks) /\ IsDuplicateFree(pins \o one)
        /\ Range(pins \o one) = {t} \cup Range(pins)
    BY <2>2, <2>3, <2>5, ConcatProperties, ConcatDupFree, ConcatRange
  <2>8. /\ head \in Seq(Tracks) /\ IsDuplicateFree(head)
        /\ Range(head) = {t} \cup Range(pins)
    BY <2>4, <2>6, <2>7
  <2> HIDE DEF head
  <2>9. Range(head) \cap Range(auto) = {}
    BY <2>1, <2>2, <2>8
  <2>10. IsDuplicateFree(head \o auto)
         /\ Range(head \o auto) = Range(head) \cup Range(auto)
    BY <2>2, <2>8, <2>9, ConcatDupFree, ConcatRange
  <2>11. queue' = head \o auto
    BY <1>3 DEF InjectQueue, head, pins, auto, q
  <2>12. BridgeTracks' \subseteq BridgeTracks
    BY <1>1, <1>3 DEF InjectQueue, BridgeTracks
  <2> QED BY <1>3, <2>1, <2>2, <2>8, <2>10, <2>11, <2>12 DEF InjectQueue
<1>4. ASSUME NEW t \in Tracks, RemoveFromQueue(t)
      PROVE  /\ IsDuplicateFree(queue')
             /\ Range(queue') \subseteq Range(queue) \ {t}
             /\ t \in Range(queue) /\ skips' = skips \cup {t}
             /\ BridgeTracks' \subseteq BridgeTracks
  <2>1. /\ IsDuplicateFree(Without(queue, t))
        /\ Range(Without(queue, t)) \subseteq Range(queue) \ {t}
    BY <1>1, WithoutType, WithoutDupFree
  <2>2. BridgeTracks' \subseteq BridgeTracks
    BY <1>1, <1>4 DEF RemoveFromQueue, BridgeTracks
  <2> QED BY <1>4, <2>1, <2>2 DEF RemoveFromQueue
<1>5. ASSUME NEW ordered \in Orders, ReorderQueue(ordered)
      PROVE  /\ IsDuplicateFree(queue')
             /\ Range(queue') \subseteq Range(queue) /\ skips' = skips
             /\ BridgeTracks' \subseteq BridgeTracks
  <2> DEFINE rest == Only(AutoPart, Tracks \ Range(ordered))
  <2>1. Range(queue) \subseteq Tracks /\ Len(queue) \in Nat
    BY <1>1, LenProperties DEF Range
  <2>2. PICK n \in 1..Len(queue) : /\ ordered \in [1..n -> Range(queue)]
                                   /\ IsDuplicateFree(ordered)
    BY DEF Orders
  <2>3. ordered \in Seq(Tracks) /\ Range(ordered) \subseteq Range(queue)
    BY <2>1, <2>2 DEF Range
  <2>4. /\ rest \in Seq(Tracks) /\ IsDuplicateFree(rest)
        /\ Range(rest) \subseteq Range(AutoPart) \cap (Tracks \ Range(ordered))
        /\ Range(AutoPart) \subseteq Range(queue)
    BY <1>1, HalvesDupFree, OnlyType, OnlyDupFree
  <2> HIDE DEF rest
  <2>5. Range(ordered) \cap Range(rest) = {}
    BY <2>4
  <2>6. IsDuplicateFree(ordered \o rest)
        /\ Range(ordered \o rest) = Range(ordered) \cup Range(rest)
    BY <2>2, <2>3, <2>4, <2>5, ConcatDupFree, ConcatRange
  <2>7. queue' = ordered \o rest /\ skips' = skips
    BY <1>5 DEF ReorderQueue, rest
  <2>8. BridgeTracks' \subseteq BridgeTracks
    BY <1>1, <1>5 DEF ReorderQueue, BridgeTracks
  <2> QED BY <2>3, <2>4, <2>6, <2>7, <2>8
<1> QED BY <1>2, <1>3, <1>4, <1>5, <1>6 DEF QueueEdit, QueuedOnce

(***************************************************************************)
(* advanceLocked from a queue without repetition: it stops with nothing    *)
(* queued, or plays a track that is then no longer queued.                 *)
(***************************************************************************)
LEMMA AdvanceOnce ==
  ASSUME NEW c \in Callers, NEW q \in Seq(Tracks), IsDuplicateFree(q),
         AdvanceFrom(c, q)
  PROVE  /\ IsDuplicateFree(queue') /\ Range(queue') \subseteq Range(q)
         /\ UNCHANGED row \/ row'.queue = queue'
         /\ \/ status' = "stopped" /\ queue' = <<>> /\ UNCHANGED <<now, recent>>
            \/ /\ now' \in Range(q) \ Range(queue')
               /\ recent' = recent \cup {now}
<1>1. CASE StopAtEnd(c)
  <2>1. IsDuplicateFree(<<>>) /\ Range(<<>>) = {}
    BY ShortDupFree, CatalogAssumption
  <2> QED BY <1>1, <2>1 DEF StopAtEnd, Persist
<1>2. CASE q # <<>> /\ PopNext(c, q)
  BY <1>2, TailDupFree DEF PopNext
<1> QED BY <1>1, <1>2 DEF AdvanceFrom

(***************************************************************************)
(* Back puts the track that was playing in front, and nowhere else.        *)
(***************************************************************************)
LEMMA BackOnce ==
  ASSUME TypeOK, QueuedOnce, NEW c \in Callers, Back(c)
  PROVE  IsDuplicateFree(queue') /\ Range(queue') \subseteq Range(queue) \cup {now}
<1>1. queue \in Seq(Tracks) /\ IsDuplicateFree(queue) /\ now \in Tracks
  BY DEF TypeOK, LiveTypeOK, QueuedOnce
<1> DEFINE q == Without(queue, now)
           one == <<now>>
<1>2. /\ q \in Seq(Tracks) /\ IsDuplicateFree(q)
      /\ Range(q) \subseteq Range(queue) \ {now}
  BY <1>1, WithoutType, WithoutDupFree
<1>3. queue' = one \o q
  BY DEF Back
<1>4. one \in Seq(Tracks) /\ IsDuplicateFree(one) /\ Range(one) = {now}
  BY <1>1, ShortDupFree
<1> HIDE DEF q, one
<1>5. Range(one) \cap Range(q) = {}
  BY <1>2, <1>4
<1>6. IsDuplicateFree(one \o q) /\ Range(one \o q) = {now} \cup Range(q)
  BY <1>2, <1>4, <1>5, ConcatDupFree, ConcatRange
<1> QED BY <1>2, <1>3, <1>6

(***************************************************************************)
(* Every step of a client call leaves each track once.                     *)
(***************************************************************************)
LEMMA CallerOnce ==
  ASSUME TypeOK, QueuedOnce, NEW c \in Callers, CallerStep(c)
  PROVE  QueuedOnce'
<1>1. /\ queue \in Seq(Tracks) /\ IsDuplicateFree(queue)
      /\ Without(queue, call[c].track) \in Seq(Tracks)
      /\ IsDuplicateFree(Without(queue, call[c].track))
  BY WithoutType, WithoutDupFree DEF TypeOK, LiveTypeOK, QueuedOnce
<1>2. ASSUME IsDuplicateFree(queue'), UNCHANGED row \/ row'.queue = queue'
      PROVE  QueuedOnce'
  BY <1>2 DEF QueuedOnce
<1>3. CASE \/ \E sig \in Signals, t \in Tracks : FeedbackBegin(c, sig, t)
           \/ TrackStarted(c)
  <2>1. UNCHANGED queue
    BY <1>3 DEF FeedbackBegin, TrackStarted, liveVars
  <2>2. UNCHANGED row \/ Persist
    BY <1>3 DEF FeedbackBegin, TrackStarted
  <2> QED BY <1>1, <1>2, <2>1, <2>2 DEF Persist
<1>4. CASE FeedbackAdvance(c)
  BY <1>1, <1>2, <1>4, AdvanceOnce DEF FeedbackAdvance
<1>5. CASE FeedbackAdvanceEmpty(c)
  BY <1>1, <1>2, <1>5 DEF FeedbackAdvanceEmpty
<1>6. CASE FeedbackOther(c)
  BY <1>1, <1>2, <1>6 DEF FeedbackOther, Persist
<1>7. CASE AdvanceResume(c)
  BY <1>1, <1>2, <1>7, AdvanceOnce DEF AdvanceResume, liveVars
<1>8. CASE Back(c)
  BY <1>2, <1>8, BackOnce DEF Back
<1> QED BY <1>3, <1>4, <1>5, <1>6, <1>7, <1>8 DEF CallerStep

(***************************************************************************)
(* No step queues a track twice, as long as what every refill saw still    *)
(* holds.                                                                  *)
(***************************************************************************)
LEMMA OnceStep ==
  ASSUME TypeOK, QueuedOnce, SearchIsCurrent, [Next]_vars
  PROVE  QueuedOnce'
<1>1. ASSUME NEW c \in Callers, CallerStep(c) PROVE QueuedOnce'
  BY <1>1, CallerOnce
<1>2. CASE QueueEdit
  BY <1>2, EditOnce
<1>3. CASE Stop \/ UNCHANGED vars
  BY <1>3 DEF Stop, Persist, vars, liveVars, QueuedOnce
<1>4. CASE Restart
  BY <1>4 DEF Restart, QueuedOnce
<1>5. ASSUME NEW p \in Procs, FillStep(p) PROVE QueuedOnce'
  BY <1>5, FillOnce DEF QueuedOnce
<1>6. ASSUME NEW f \in Fillers, RefillStep(f) PROVE QueuedOnce'
  <2>1. IsDuplicateFree(queue) /\ IsDuplicateFree(row.queue) /\ IsDuplicateFree(Pins)
    BY HalvesDupFree DEF TypeOK, QueuedOnce
  <2>2. CASE RefillGate(f)
    BY <2>1, <2>2 DEF RefillGate, QueuedOnce
  <2>3. CASE RefillPersist(f)
    BY <2>1, <2>3 DEF RefillPersist, liveVars, Persist, QueuedOnce
  <2> QED BY <1>6, <2>2, <2>3 DEF RefillStep
<1> QED BY <1>1, <1>2, <1>3, <1>4, <1>5, <1>6 DEF Next, Step

(***************************************************************************)
(* Nothing changes what a refill has seen while it searches, because       *)
(* nothing else is under way: Stop alone can come between, and it leaves   *)
(* the queue and the playing track as they are.                            *)
(***************************************************************************)
LEMMA CurrentStep ==
  ASSUME QuietClient, TypeOK, Solo, SearchIsCurrent, [Next]_vars
  PROVE  SearchIsCurrent'
<1>0. fill \in [Procs -> FillType] /\ pc \in [Procs -> PCs]
  BY DEF TypeOK, ProcTypeOK
<1>1. ASSUME \A p \in Procs : pc'[p] \notin Searching PROVE SearchIsCurrent'
  BY <1>1 DEF SearchIsCurrent, Searching
<1>2. ASSUME NEW c \in Callers, CallerStep(c) PROVE SearchIsCurrent'
  <2>1. /\ \A q \in Procs \ {c} : pc'[q] \in {"idle", "gate"}
        /\ pc'[c] \in {"idle", "gate", "feedback", "started", "snapshot"}
    BY <1>2, CallerMoves DEF Rest
  <2> QED BY <1>1, <2>1 DEF Searching
<1>3. CASE QueueEdit
  <2>1. EditQueue
    BY <1>3 DEF QueueEdit, InjectQueue, RemoveFromQueue, ReorderQueue
  <2>2. \A q \in Procs : pc'[q] \in {"idle", "gate"}
    BY <2>1, EditMoves
  <2> QED BY <1>1, <2>2 DEF Searching
<1>4. CASE Stop \/ UNCHANGED vars
  BY <1>4 DEF Stop, vars, liveVars, bridgeVars, procVars, SearchIsCurrent
<1>5. CASE Restart
  BY <1>1, <1>5 DEF Restart, Searching
<1>6. ASSUME NEW f \in Fillers, RefillStep(f) PROVE SearchIsCurrent'
  <2>1. f \in Procs /\ \A q \in Procs \ {f} : pc'[q] = "idle"
    BY <1>6, FillMoves DEF Procs
  <2>2. pc'[f] \in {"idle", "snapshot"}
    BY <1>0, <1>6, <2>1 DEF RefillStep, RefillGate, RefillPersist
  <2> QED BY <1>1, <2>1, <2>2 DEF Searching
<1>7. ASSUME NEW p \in Procs, FillStep(p) PROVE SearchIsCurrent'
  <2>1. \A q \in Procs \ {p} : pc'[q] = "idle"
    BY <1>7, FillMoves
  <2>2. ASSUME pc'[p] \notin Searching PROVE SearchIsCurrent'
    BY <1>1, <2>1, <2>2 DEF Searching
  <2>3. ASSUME /\ Range(queue') \cup {now'} \subseteq fill'[p].exclude
               /\ pc'[p] = "commit" /\ fill'[p].due => ~bridgeQueued'
        PROVE  SearchIsCurrent'
    BY <2>1, <2>3 DEF SearchIsCurrent, Searching
  <2>4. CASE FillSnapshot(p)
    <3>1. /\ fill'[p].exclude = recent \cup Range(queue) \cup {now}
          /\ pc'[p] = "skips" /\ UNCHANGED <<queue, now>>
      BY <1>0, <2>4 DEF FillSnapshot, liveVars
    <3> QED BY <2>3, <3>1
  <2>5. CASE FillSkips(p)
    <3>1. UNCHANGED <<queue, now>> /\ pc[p] = "skips"
      BY <2>5 DEF FillSkips, liveVars
    <3>2. CASE FillReturn(p, "idle")
      <4>1. pc'[p] \in {"idle", "resume"}
        BY <1>0, <3>2 DEF FillReturn
      <4> QED BY <2>2, <4>1 DEF Searching
    <3>3. CASE /\ fill' = [fill EXCEPT ![p].exclude = @ \cup skips]
               /\ pc' = [pc EXCEPT ![p] = "candidates"]
      <4>1. fill'[p].exclude = fill[p].exclude \cup skips /\ pc'[p] = "candidates"
        BY <1>0, <3>3 DEF FillType
      <4>2. Range(queue) \cup {now} \subseteq fill[p].exclude
        BY <3>1 DEF SearchIsCurrent, Searching
      <4> QED BY <2>3, <3>1, <4>1, <4>2
    <3> QED BY <2>5, <3>2, <3>3 DEF FillSkips
  <2>6. CASE FillCandidates(p)
    <3>1. UNCHANGED <<queue, now, bridgeQueued>> /\ pc[p] = "candidates"
      BY <2>6 DEF FillCandidates, liveVars
    <3>2. /\ fill'[p].exclude = fill[p].exclude
          /\ fill'[p].due => ~bridgeQueued
      BY <1>0, <2>6 DEF FillCandidates, FillType
    <3>3. Range(queue) \cup {now} \subseteq fill[p].exclude
      BY <3>1 DEF SearchIsCurrent, Searching
    <3> QED BY <2>3, <3>1, <3>2, <3>3
  <2>7. CASE FillReturn(p, "persist")
    <3>1. pc'[p] \in {"persist", "resume"}
      BY <1>0, <2>7 DEF FillReturn
    <3> QED BY <2>2, <3>1 DEF Searching
  <2> QED BY <1>7, <2>4, <2>5, <2>6, <2>7
      DEF FillStep, FillEnough, FillFallback, FillCommit
<1> QED BY <1>2, <1>3, <1>4, <1>5, <1>6, <1>7 DEF Next, Step

-----------------------------------------------------------------------------
(***************************************************************************)
(* The bridge the session knows of: at most one track is tagged, only      *)
(* while BridgeQueued is set, and none once the bridge has been taken from *)
(* the queue and waits for applyTrackStarted to clear BridgeQueued.        *)
(***************************************************************************)
BridgeKnown ==
  /\ \A t, u \in BridgeTracks : t = u
  /\ BridgeTracks # {} => bridgeQueued
  /\ \A c \in Callers :
       pc[c] = "started" /\ call[c].src = "radio_bridge" => BridgeTracks = {}

(***************************************************************************)
(* A step that tags nothing, leaves BridgeQueued set and takes no bridge   *)
(* from the queue keeps the bridge known.                                  *)
(***************************************************************************)
LEMMA BridgeFrame ==
  ASSUME BridgeKnown, BridgeTracks' \subseteq BridgeTracks,
         bridgeQueued => bridgeQueued',
         \A c \in Callers : pc'[c] = "started" /\ call'[c].src = "radio_bridge"
           => \/ BridgeTracks' = {}
              \/ pc[c] = "started" /\ call[c].src = "radio_bridge"
  PROVE  BridgeKnown'
BY DEF BridgeKnown

(***************************************************************************)
(* advanceLocked forgets the tag of the track it plays.                    *)
(***************************************************************************)
LEMMA BridgeAdvance ==
  ASSUME TypeOK, BridgeKnown, NEW c \in Callers,
         \A d \in Callers \ {c} : pc'[d] # "started",
         NEW q \in Seq(Tracks), AdvanceFrom(c, q)
  PROVE  BridgeKnown'
<1>1. /\ sources \in [Tracks -> SourceTags] /\ pc \in [Procs -> PCs]
      /\ call \in [Callers -> CallType] /\ c \in Procs
  BY DEF TypeOK, LiveTypeOK, ProcTypeOK, Procs
<1>2. UNCHANGED bridgeQueued
  BY DEF AdvanceFrom, bridgeVars
<1>3. CASE StopAtEnd(c)
  <2>1. UNCHANGED sources /\ pc'[c] = "idle"
    BY <1>1, <1>3 DEF StopAtEnd
  <2>2. BridgeTracks' = BridgeTracks
    BY <2>1 DEF BridgeTracks
  <2> QED BY <1>2, <2>1, <2>2, BridgeFrame
<1>4. CASE q # <<>> /\ PopNext(c, q)
  <2>1. Head(q) \in Tracks
    BY <1>4, HeadTailProperties
  <2>2. /\ sources' = [sources EXCEPT ![Head(q)] = "none"]
        /\ call'[c].src = sources[Head(q)]
    BY <1>1, <1>4 DEF PopNext, CallType
  <2>3. BridgeTracks' = BridgeTracks \ {Head(q)}
    BY <1>1, <2>1, <2>2 DEF BridgeTracks
  <2>4. call'[c].src = "radio_bridge" => BridgeTracks' = {}
    BY <2>1, <2>2, <2>3 DEF BridgeTracks, BridgeKnown
  <2> QED BY <1>2, <2>3, <2>4, BridgeFrame
<1> QED BY <1>3, <1>4 DEF AdvanceFrom

(***************************************************************************)
(* Only the commit of a refill that found no bridge on its way tags one.   *)
(***************************************************************************)
LEMMA BridgeFill ==
  ASSUME QuietClient, TypeOK, Solo, SearchIsCurrent, BridgeKnown,
         NEW p \in Procs, FillStep(p)
  PROVE  BridgeKnown'
<1>1. sources \in [Tracks -> SourceTags] /\ fill[p] \in FillType
  BY DEF TypeOK, LiveTypeOK, ProcTypeOK
<1>2. \A c \in Callers : pc'[c] # "started"
  <2>1. /\ \A q \in Procs \ {p} : pc'[q] = "idle"
        /\ pc \in [Procs -> PCs]
    BY FillMoves DEF TypeOK, ProcTypeOK
  <2>2. pc'[p] # "started"
    BY <2>1 DEF FillStep, FillSnapshot, FillSkips, FillEnough, FillFallback,
       FillCandidates, FillCommit, FillReturn
  <2> QED BY <2>1, <2>2 DEF Procs
<1>3. CASE UNCHANGED <<sources, bridgeQueued>>
  <2>1. BridgeTracks' = BridgeTracks
    BY <1>3 DEF BridgeTracks
  <2> QED BY <1>2, <1>3, <2>1, BridgeFrame
<1>4. ASSUME NEW picks \in Picks(p), NEW bridged \in BOOLEAN,
             FillCommit(p, picks, bridged), ~UNCHANGED <<sources, bridgeQueued>>
      PROVE  BridgeKnown'
  <2>1. /\ bridged /\ pc[p] = "commit" /\ fill[p].due
        /\ sources' = [sources EXCEPT ![picks[1]] = "radio_bridge"]
        /\ bridgeQueued'
    <3>1. bridgeQueued \in BOOLEAN
      BY DEF TypeOK, BridgeTypeOK
    <3> QED BY <1>4, <3>1, Zenon DEF FillCommit
  <2>2. ~bridgeQueued /\ BridgeTracks = {}
    BY <2>1 DEF SearchIsCurrent, BridgeKnown
  <2>3. BridgeTracks' \subseteq {picks[1]}
    BY <1>1, <2>1, <2>2 DEF BridgeTracks
  <2> QED BY <1>2, <2>1, <2>3 DEF BridgeKnown
<1> QED BY <1>3, <1>4 DEF FillStep, FillSnapshot, FillSkips, FillEnough,
    FillFallback, FillCandidates, liveVars, bridgeVars

(***************************************************************************)
(* Every step keeps the bridge known.                                      *)
(***************************************************************************)
LEMMA BridgeStep ==
  ASSUME QuietClient, TypeOK, Solo, QueuedOnce, SearchIsCurrent, BridgeKnown,
         [Next]_vars
  PROVE  BridgeKnown'
<1>0. /\ pc \in [Procs -> PCs] /\ call \in [Callers -> CallType]
      /\ queue \in Seq(Tracks) /\ sources \in [Tracks -> SourceTags]
  BY DEF TypeOK, LiveTypeOK, ProcTypeOK
<1>1. ASSUME UNCHANGED <<sources, bridgeQueued>>,
             \A c \in Callers : pc'[c] = "started"
               => \/ call'[c].src = "none"
                  \/ pc[c] = "started" /\ UNCHANGED call
      PROVE  BridgeKnown'
  <2>1. BridgeTracks' = BridgeTracks
    BY <1>1 DEF BridgeTracks
  <2> QED BY <1>1, <2>1, BridgeFrame
<1>2. ASSUME NEW c \in Callers, CallerStep(c) PROVE BridgeKnown'
  <2>1. /\ \A d \in Callers \ {c} : pc'[d] \in {"idle", "gate"}
        /\ \A d \in Callers \ {c} : pc[d] = "idle"
    BY <1>2, CallerMoves DEF Rest, Procs
  <2>2. CASE FeedbackAdvance(c)
    <3>1. Without(queue, call[c].track) \in Seq(Tracks)
      BY <1>0, WithoutType
    <3> QED BY <2>1, <2>2, <3>1, BridgeAdvance DEF FeedbackAdvance
  <2>3. CASE AdvanceResume(c) /\ status # "stopped"
    BY <1>0, <2>1, <2>3, BridgeAdvance DEF AdvanceResume
  <2>4. ASSUME UNCHANGED <<sources, bridgeQueued>>, pc'[c] # "started"
        PROVE  BridgeKnown'
    BY <1>1, <2>1, <2>4
  <2>5. CASE \/ \E sig \in Signals, t \in Tracks : FeedbackBegin(c, sig, t)
             \/ FeedbackAdvanceEmpty(c)
             \/ AdvanceResume(c) /\ status = "stopped"
    <3>1. c \in Procs
      BY DEF Procs
    <3> QED BY <1>0, <2>4, <2>5, <3>1 DEF FeedbackBegin, FeedbackAdvanceEmpty,
        AdvanceResume, liveVars, bridgeVars
  <2>6. CASE FeedbackOther(c)
    <3>1. pc'[c] # "started"
      BY <1>0, <2>6 DEF FeedbackOther, Spawn, Procs
    <3> QED BY <2>4, <2>6, <3>1 DEF FeedbackOther, bridgeVars
  <2>7. CASE Back(c)
    <3>1. call'[c].src = "none"
      BY <1>0, <2>7 DEF Back, NoCall
    <3> QED BY <1>1, <2>1, <2>7, <3>1 DEF Back, bridgeVars
  <2>8. CASE TrackStarted(c)
    <3>1. /\ pc[c] = "started" /\ UNCHANGED sources
          /\ pc'[c] # "started"
      BY <1>0, <2>8 DEF TrackStarted, liveVars, Spawn, Procs
    <3>2. CASE UNCHANGED bridgeQueued
      BY <2>4, <3>1, <3>2
    <3>3. CASE call[c].src = "radio_bridge"
      <4>1. BridgeTracks = {} /\ BridgeTracks' = BridgeTracks
        BY <3>1, <3>3 DEF BridgeKnown, BridgeTracks
      <4> QED BY <4>1 DEF BridgeKnown
    <3> QED BY <2>8, <3>2, <3>3 DEF TrackStarted, ApplyTrackStarted, bridgeVars
  <2> QED BY <1>2, <2>2, <2>3, <2>5, <2>6, <2>7, <2>8 DEF CallerStep
<1>3. CASE QueueEdit
  <2>1. EditQueue /\ BridgeTracks' \subseteq BridgeTracks
    BY <1>3, EditOnce
  <2>2. \A q \in Procs : pc'[q] \in {"idle", "gate"}
    BY <2>1, EditMoves
  <2> QED BY <2>1, <2>2, BridgeFrame DEF EditQueue, bridgeVars, Procs
<1>4. CASE Stop \/ UNCHANGED vars
  BY <1>1, <1>4 DEF Stop, vars, liveVars, bridgeVars, procVars
<1>5. CASE Restart
  <2>1. BridgeTracks' = {}
    BY <1>5 DEF Restart, NoSources, BridgeTracks
  <2> QED BY <2>1 DEF BridgeKnown
<1>6. ASSUME NEW p \in Procs, FillStep(p) PROVE BridgeKnown'
  BY <1>6, BridgeFill
<1>7. ASSUME NEW f \in Fillers, RefillStep(f) PROVE BridgeKnown'
  <2>1. f \in Procs /\ \A q \in Procs \ {f} : pc'[q] = "idle"
    BY <1>7, FillMoves DEF Procs
  <2>2. pc'[f] # "started"
    BY <1>0, <1>7, <2>1 DEF RefillStep, RefillGate, RefillPersist
  <2> QED BY <1>1, <1>7, <2>1, <2>2 DEF RefillStep, RefillGate, RefillPersist,
      liveVars, bridgeVars, Procs
<1> QED BY <1>2, <1>3, <1>4, <1>5, <1>6, <1>7 DEF Next, Step

\* A feedback call that will take t from the queue has stored its skip.
Pending(t) ==
  \E c \in Callers :
    pc[c] = "feedback" /\ call[c].sig \in DropSignals /\ call[c].track = t

\* A call waits in its advance for the refill that gives it the next track.
Advancing ==
  \E c \in Callers : pc[c] \in {"snapshot", "resume"} \cup Searching

(***************************************************************************)
(* Why a settled session offers no skipped track.  SkippedStaysOut is not  *)
(* inductive: between storing a skip and editing the queue a feedback call *)
(* leaves the track queued; Back returns the playing track to the queue,   *)
(* so what plays must not be skipped either, unless it has been recorded   *)
(* as played or is about to end; and a refill must know the skips when it  *)
(* commits.                                                                *)
(***************************************************************************)
SkipsKnown ==
  /\ \A t \in Range(queue) \cap skips : t \in recent \/ Pending(t)
  /\ now \in skips =>
       now \in recent \/ status = "stopped" \/ Pending(now) \/ Advancing
  /\ now \in Range(queue) => now \in recent
  /\ \A p \in Procs : pc[p] \in {"candidates", "commit"} => skips \subseteq fill[p].exclude

(***************************************************************************)
(* With no call in an unlocked window and no search past its skip query,   *)
(* the plain form is enough.                                               *)
(***************************************************************************)
LEMMA SkipsRest ==
  ASSUME \A t \in Range(queue') \cap skips' : t \in recent',
         now' \in skips' => \/ now' \in recent' \/ status' = "stopped"
                            \/ Pending(now)' \/ Advancing',
         now' \in Range(queue') => now' \in recent',
         \A p \in Procs : pc'[p] \notin {"candidates", "commit"}
  PROVE  SkipsKnown'
BY DEF SkipsKnown

(***************************************************************************)
(* advanceLocked from a queue whose skipped tracks have all been played:   *)
(* it plays none of the others.                                            *)
(***************************************************************************)
LEMMA SkipsAdvance ==
  ASSUME NEW c \in Callers, NEW q \in Seq(Tracks), IsDuplicateFree(q),
         AdvanceFrom(c, q), Range(q) \cap skips \subseteq recent,
         \A p \in Procs : pc'[p] \notin {"candidates", "commit"}
  PROVE  SkipsKnown'
<1>1. UNCHANGED skips
  BY DEF AdvanceFrom
<1>2. Range(queue') \subseteq Range(q)
  BY AdvanceOnce
<1>3. CASE status' = "stopped" /\ queue' = <<>> /\ UNCHANGED <<now, recent>>
  <2>1. Range(queue') = {}
    BY <1>3, ShortDupFree, CatalogAssumption
  <2> QED BY <1>3, <2>1, SkipsRest
<1>4. CASE now' \in Range(q) \ Range(queue') /\ recent' = recent \cup {now}
  BY <1>1, <1>2, <1>4, SkipsRest
<1> QED BY <1>3, <1>4, AdvanceOnce

(***************************************************************************)
(* Every step of a client call keeps the skips known.                      *)
(***************************************************************************)
LEMMA SkipsCaller ==
  ASSUME QuietClient, TypeOK, Solo, QueuedOnce, HistoryIsPlayed, SkipsKnown,
         NEW c \in Callers, CallerStep(c)
  PROVE  SkipsKnown'
<1>0. /\ pc \in [Procs -> PCs] /\ call \in [Callers -> CallType] /\ c \in Procs
      /\ queue \in Seq(Tracks) /\ IsDuplicateFree(queue)
  BY DEF TypeOK, LiveTypeOK, ProcTypeOK, Procs, QueuedOnce
<1>1. /\ \A q \in Procs \ {c} : pc[q] = "idle"
      /\ \A q \in Procs : pc'[q] \notin {"candidates", "commit"}
  BY CallerMoves DEF Rest
<1>2. \A t : Pending(t) =>
        /\ pc[c] = "feedback" /\ call[c].sig \in DropSignals /\ call[c].track = t
  BY <1>1 DEF Pending, Procs
<1>3. Advancing => pc[c] \in {"snapshot", "resume"} \cup Searching
  BY <1>1 DEF Advancing, Searching, Procs
<1> DEFINE q == Without(queue, call[c].track)
<1>4. /\ q \in Seq(Tracks) /\ IsDuplicateFree(q)
      /\ Range(q) \subseteq Range(queue) \ {call[c].track}
  BY <1>0, WithoutType, WithoutDupFree
<1>5. Range(q) \cap skips \subseteq recent
  BY <1>2, <1>4 DEF SkipsKnown
<1> HIDE DEF q
<1>6. ASSUME NEW sig \in Signals, NEW t \in Tracks, FeedbackBegin(c, sig, t)
      PROVE  SkipsKnown'
  <2>1. /\ pc[c] = "idle" /\ pc'[c] = "feedback" /\ UNCHANGED liveVars
        /\ call'[c].sig = sig /\ call'[c].track = t
        /\ skips' = IF sig \in SkipSignals THEN skips \cup {t} ELSE skips
    BY <1>0, <1>6 DEF FeedbackBegin, NoCall
  <2>2. sig \in SkipSignals => Pending(t)'
    BY <2>1 DEF Pending, SkipSignals, DropSignals
  <2>3. \A u \in skips' : u \in skips \/ Pending(u)'
    BY <2>1, <2>2
  <2>4. ~Advancing /\ \A u : ~Pending(u)
    BY <1>2, <1>3, <2>1 DEF Searching
  <2>5. UNCHANGED <<queue, now, recent, status>>
    BY <2>1 DEF liveVars
  <2> HIDE DEF q
  <2> QED BY <1>1, <2>3, <2>4, <2>5 DEF SkipsKnown
<1>7. CASE FeedbackAdvance(c)
  BY <1>1, <1>4, <1>5, <1>7, SkipsAdvance DEF FeedbackAdvance, q
<1>8. CASE FeedbackAdvanceEmpty(c)
  <2>1. /\ pc'[c] = "snapshot" /\ queue' = <<>>
    BY <1>0, <1>8 DEF FeedbackAdvanceEmpty
  <2>2. Advancing' /\ Range(queue') = {}
    BY <2>1 DEF Advancing, Range
  <2> QED BY <1>1, <2>2, SkipsRest
<1>9. CASE FeedbackOther(c)
  <2>1. /\ pc[c] = "feedback" /\ ~(call[c].sig \in DropSignals /\ call[c].track = now)
        /\ queue' = IF call[c].sig \in DropSignals THEN q ELSE queue
        /\ UNCHANGED <<status, now, recent, skips>>
    BY <1>9 DEF FeedbackOther, q
  <2>2. ~Advancing /\ ~Pending(now)
    BY <1>2, <1>3, <2>1 DEF Searching
  <2>3. Range(queue') \subseteq Range(queue) /\ Range(queue') \cap skips \subseteq recent
    BY <1>2, <1>4, <1>5, <2>1 DEF SkipsKnown
  <2> QED BY <1>1, <2>1, <2>2, <2>3, SkipsRest DEF SkipsKnown
<1>10. CASE AdvanceResume(c)
  <2>1. Range(queue) \cap skips \subseteq recent
    BY <1>2, <1>10 DEF AdvanceResume, SkipsKnown
  <2>2. CASE status = "stopped"
    <3>1. UNCHANGED <<status, now, queue, recent, skips>>
      BY <1>10, <2>2 DEF AdvanceResume, liveVars
    <3> QED BY <1>1, <2>1, <2>2, <3>1, SkipsRest DEF SkipsKnown
  <2>3. CASE status # "stopped"
    BY <1>0, <1>1, <1>10, <2>1, <2>3, SkipsAdvance DEF AdvanceResume
  <2> QED BY <2>2, <2>3
<1>11. CASE TrackStarted(c)
  <2>1. UNCHANGED <<status, now, queue, recent, skips>> /\ pc[c] = "started"
    BY <1>11 DEF TrackStarted, liveVars
  <2>2. ~Advancing /\ \A u : ~Pending(u)
    BY <1>2, <1>3, <2>1 DEF Searching
  <2> QED BY <1>1, <2>1, <2>2, SkipsRest DEF SkipsKnown
<1>12. CASE Back(c)
  <2>1. /\ now' = history[Len(history)] /\ history # <<>> /\ status # "stopped"
        /\ UNCHANGED <<recent, skips>> /\ pc[c] = "idle"
    BY <1>12 DEF Back
  <2>2. now' \in recent
    <3>1. history \in Seq(Tracks)
      BY DEF TypeOK, LiveTypeOK
    <3>2. Len(history) \in DOMAIN history
      BY <2>1, <3>1, EmptySeq, LenProperties
    <3> QED BY <2>1, <3>2 DEF HistoryIsPlayed, Range
  <2>3. ~Advancing /\ \A u : ~Pending(u)
    BY <1>2, <1>3, <2>1 DEF Searching
  <2>4. Range(queue') \subseteq Range(queue) \cup {now}
    BY <1>12, BackOnce
  <2> QED BY <1>1, <2>1, <2>2, <2>3, <2>4, SkipsRest DEF SkipsKnown
<1> QED BY <1>6, <1>7, <1>8, <1>9, <1>10, <1>11, <1>12 DEF CallerStep

(***************************************************************************)
(* Every step of a refill keeps the skips known: it commits no skipped     *)
(* track, and not the playing one.                                         *)
(***************************************************************************)
LEMMA SkipsFill ==
  ASSUME TypeOK, Solo, QueuedOnce, SearchIsCurrent, SkipsKnown,
         NEW p \in Procs, FillStep(p)
  PROVE  SkipsKnown'
<1>0. pc \in [Procs -> PCs] /\ fill \in [Procs -> FillType]
  BY DEF TypeOK, ProcTypeOK
<1>1. /\ \A q \in Procs \ {p} : pc[q] = "idle"
      /\ \A q \in Procs \ {p} : pc'[q] = "idle"
      /\ pc[p] \in {"snapshot"} \cup Searching
  BY FillMoves DEF FillStep, FillSnapshot, FillSkips, FillEnough, FillFallback,
     FillCandidates, FillCommit, Searching
<1>2. UNCHANGED <<status, now, recent, skips>>
  BY DEF FillStep, FillSnapshot, FillSkips, FillEnough, FillFallback,
     FillCandidates, FillCommit, CommitAuto, liveVars
<1>3. \A t : ~Pending(t)
  BY <1>1 DEF Pending, Searching, Procs
<1>4. Advancing => Advancing'
  <2>1. p \in Callers => pc'[p] \in {"snapshot", "resume"} \cup Searching
    <3>1. ASSUME NEW next, FillReturn(p, next), p \in Callers PROVE pc'[p] = "resume"
      BY <1>0, <3>1 DEF FillReturn
    <3> QED BY <1>0, <3>1 DEF FillStep, FillSnapshot, FillSkips, FillEnough,
        FillFallback, FillCandidates, FillCommit, Searching
  <2>2. Advancing => p \in Callers
    BY <1>1 DEF Advancing, Searching, Procs
  <2> QED BY <2>1, <2>2 DEF Advancing
<1>5. Range(queue) \cap skips \subseteq recent
  BY <1>3 DEF SkipsKnown
<1>6. /\ Range(queue') \cap skips \subseteq recent
      /\ now \in Range(queue') => now \in recent
  <2>1. CASE UNCHANGED queue
    BY <1>5, <2>1 DEF SkipsKnown
  <2>2. CASE /\ pc[p] \in {"candidates", "commit"}
             /\ Range(queue') \subseteq Range(queue) \cup (Tracks \ fill[p].exclude)
    <3>1. skips \subseteq fill[p].exclude /\ now \in fill[p].exclude
      BY <2>2 DEF SkipsKnown, SearchIsCurrent, Searching
    <3> QED BY <1>5, <2>2, <3>1 DEF SkipsKnown
  <2> QED BY <2>1, <2>2, FillOnce
<1>7. now \in skips => now \in recent \/ status = "stopped" \/ Advancing'
  BY <1>3, <1>4 DEF SkipsKnown
<1>8. pc'[p] \in {"candidates", "commit"} => skips \subseteq fill'[p].exclude
  <2>1. CASE FillSkips(p)
    <3>1. CASE FillReturn(p, "idle")
      BY <1>0, <3>1 DEF FillReturn
    <3>2. CASE fill' = [fill EXCEPT ![p].exclude = @ \cup skips]
      BY <1>0, <3>2 DEF FillType
    <3> QED BY <2>1, <3>1, <3>2 DEF FillSkips
  <2>2. CASE FillCandidates(p)
    <3>1. fill'[p].exclude = fill[p].exclude /\ pc[p] = "candidates"
      BY <1>0, <2>2 DEF FillCandidates, FillType
    <3> QED BY <3>1 DEF SkipsKnown
  <2>3. CASE FillSnapshot(p)
    BY <1>0, <2>3 DEF FillSnapshot
  <2>4. CASE FillReturn(p, "persist")
    BY <1>0, <2>4 DEF FillReturn
  <2> QED BY <2>1, <2>2, <2>3, <2>4 DEF FillStep, FillEnough, FillFallback, FillCommit
<1> QED BY <1>1, <1>2, <1>6, <1>7, <1>8 DEF SkipsKnown

(***************************************************************************)
(* Without restarts, which forget what was played, every step keeps the    *)
(* skips known.                                                            *)
(***************************************************************************)
LEMMA SkipsStep ==
  ASSUME QuietClient, MaxRestarts = 0, TypeOK, Solo, QueuedOnce,
         SearchIsCurrent, HistoryIsPlayed, SkipsKnown, [Next]_vars
  PROVE  SkipsKnown'
<1>0. pc \in [Procs -> PCs]
  BY DEF TypeOK, ProcTypeOK
<1>1. ASSUME NEW c \in Callers, CallerStep(c) PROVE SkipsKnown'
  BY <1>1, SkipsCaller
<1>2. CASE QueueEdit
  <2>1. /\ EditQueue
        /\ \A u \in Range(queue') : u \in Range(queue) \/ (u \notin skips' /\ u # now)
        /\ \A u \in skips' : u \in skips \/ u \in Range(queue) \ Range(queue')
    BY <1>2, EditOnce
  <2>2. Idle /\ \A q \in Procs : pc'[q] \in {"idle", "gate"}
    BY <2>1, EditMoves
  <2>3. ~Advancing /\ \A u : ~Pending(u)
    BY <2>2 DEF Idle, Advancing, Pending, Searching, Procs
  <2>4. UNCHANGED <<status, now, recent>>
    BY <2>1 DEF EditQueue
  <2> QED BY <2>1, <2>2, <2>3, <2>4, SkipsRest DEF SkipsKnown
<1>3. CASE Stop
  BY <1>3 DEF Stop, procVars, SkipsKnown, Pending
<1>4. CASE UNCHANGED vars
  BY <1>4 DEF vars, liveVars, procVars, SkipsKnown, Pending, Advancing
<1>5. ~Restart
  BY LimitAssumption DEF Restart, TypeOK
<1>6. ASSUME NEW p \in Procs, FillStep(p) PROVE SkipsKnown'
  BY <1>6, SkipsFill
<1>7. ASSUME NEW f \in Fillers, RefillStep(f) PROVE SkipsKnown'
  <2>1. /\ f \in Procs /\ \A q \in Procs \ {f} : pc[q] = "idle"
        /\ \A q \in Procs \ {f} : pc'[q] = "idle" /\ pc[f] \in {"gate", "persist"}
    BY <1>7, FillMoves DEF Procs, RefillStep, RefillGate, RefillPersist
  <2>2. pc'[f] \in {"idle", "snapshot"}
    BY <1>0, <1>7, <2>1 DEF RefillStep, RefillGate, RefillPersist
  <2>3. UNCHANGED <<status, now, recent, skips>>
        /\ Range(queue') \subseteq Range(queue)
    <3>1. Range(Pins) \subseteq Range(queue)
      BY HalvesDupFree DEF TypeOK, QueuedOnce
    <3> QED BY <1>7, <3>1 DEF RefillStep, RefillGate, RefillPersist, liveVars
  <2>4. ~Advancing /\ \A u : ~Pending(u)
    BY <2>1, ProcAssumption DEF Advancing, Pending, Searching, Procs
  <2> QED BY <2>1, <2>2, <2>3, <2>4, SkipsRest DEF SkipsKnown
<1> QED BY <1>1, <1>2, <1>3, <1>4, <1>5, <1>6, <1>7 DEF Next, Step

-----------------------------------------------------------------------------
(***************************************************************************)
(* What holds between any two critical sections of a quiet client's        *)
(* session.                                                                *)
(***************************************************************************)
QuietInv == Solo /\ QueuedOnce /\ SearchIsCurrent /\ BridgeKnown

(***************************************************************************)
(* The session is published with each track once and nothing under way.    *)
(***************************************************************************)
LEMMA QuietInit == Init => QuietInv
<1> SUFFICES ASSUME Init PROVE QuietInv
  OBVIOUS
<1>1. IsDuplicateFree(queue)
  <2>1. IsDuplicateFree(<<>>) /\ IsDuplicateFree(AlbumQueue)
    BY ShortDupFree, CatalogAssumption, KindAssumption
  <2>2. IsDuplicateFree(Take(Listed(Prefetch, Tracks \ {Seed}), Prefetch))
    <3> DEFINE listed == Listed(Prefetch, Tracks \ {Seed})
               first == Take(Catalog, Prefetch + Slack)
    <3>1. Prefetch + Slack \in Nat /\ Prefetch \in Nat
      BY LimitAssumption
    <3>2. first \in Seq(Tracks) /\ IsDuplicateFree(first)
      BY <3>1, CatalogAssumption, TakeType, TakeDupFree
    <3>3. listed = Only(first, Tracks \ {Seed})
      BY DEF Listed
    <3> HIDE DEF first, listed
    <3>4. listed \in Seq(Tracks) /\ IsDuplicateFree(listed)
      BY <3>2, <3>3, OnlyType, OnlyDupFree
    <3> QED BY <3>1, <3>4, TakeDupFree DEF listed
  <2> QED BY <2>1, <2>2 DEF Init, InitQueue
<1>2. QueuedOnce
  BY <1>1 DEF Init, QueuedOnce
<1>3. \A p \in Procs : pc[p] = "idle"
  BY DEF Init
<1>4. Solo /\ SearchIsCurrent
  BY <1>3 DEF Solo, SearchIsCurrent, Searching
<1>5. BridgeTracks = {}
  BY DEF Init, BridgeTracks
<1> QED BY <1>2, <1>4, <1>5 DEF BridgeKnown, QuietInv

(***************************************************************************)
(* The four parts are preserved together.                                  *)
(***************************************************************************)
LEMMA QuietStep ==
  ASSUME QuietClient, TypeOK, QuietInv, [Next]_vars
  PROVE  QuietInv'
BY SoloStep, OnceStep, CurrentStep, BridgeStep DEF QuietInv

(***************************************************************************)
(* At first nothing is skipped.                                            *)
(***************************************************************************)
LEMMA SkipsInit == Init => SkipsKnown
<1> SUFFICES ASSUME Init PROVE SkipsKnown
  OBVIOUS
<1>1. skips = {} /\ recent = {now} /\ \A p \in Procs : pc[p] = "idle"
  BY DEF Init
<1> QED BY <1>1 DEF SkipsKnown

(***************************************************************************)
(* Of a client that waits for the refills of its last call, no settled     *)
(* session has a track twice in its queue (filterOut, splitQueue and the   *)
(* exclusions of fillQueueFrom).                                           *)
(***************************************************************************)
THEOREM QueuedOnlyOnce ==
  ASSUME QuietClient
  PROVE  Spec => []NoTrackQueuedTwice
<1>1. TypeOK /\ QuietInv /\ [Next]_vars => QuietInv'
  BY QuietStep
<1>2. QuietInv => NoTrackQueuedTwice
  BY DEF QuietInv, QueuedOnce, NoTrackQueuedTwice
<1> QED BY <1>1, <1>2, QuietInit, TypeCorrect, PTL DEF Spec

(***************************************************************************)
(* ... at most one bridge is queued or on its way, across advances, Backs, *)
(* stops and restarts (BridgeQueued and Sources in fillQueueFrom and       *)
(* applyTrackStarted).                                                     *)
(***************************************************************************)
THEOREM OneBridge ==
  ASSUME QuietClient
  PROVE  Spec => []SingleBridge
<1>1. TypeOK /\ QuietInv /\ [Next]_vars => QuietInv'
  BY QuietStep
<1>2. QuietInv => SingleBridge
  BY DEF QuietInv, BridgeKnown, SingleBridge
<1> QED BY <1>1, <1>2, QuietInit, TypeCorrect, PTL DEF Spec

(***************************************************************************)
(* ... and, until the server restarts, a settled session offers no track   *)
(* that was skipped, disliked, banned or removed, unless it was played     *)
(* before and Back returned it.                                            *)
(***************************************************************************)
THEOREM SkippedNotOffered ==
  ASSUME QuietClient, MaxRestarts = 0
  PROVE  Spec => []SkippedStaysOut
<1>1. TypeOK /\ QuietInv /\ [Next]_vars => QuietInv'
  BY QuietStep
<1>2. /\ TypeOK /\ QuietInv /\ HistoryIsPlayed /\ SkipsKnown
      /\ [Next]_vars
      => SkipsKnown'
  BY SkipsStep DEF QuietInv
<1>3. SkipsKnown => SkippedStaysOut
  BY DEF SkipsKnown, SkippedStaysOut, Idle, Pending, Procs
<1> QED
  BY <1>1, <1>2, <1>3, QuietInit, SkipsInit, TypeCorrect, HistoryPlayed, PTL
  DEF Spec

-----------------------------------------------------------------------------
(* The registry the session is in, with all the others, and its caps.      *)

CONSTANTS
  MaxCallers, MaxConcurrent, MaxLives, MaxPerUser, MaxRequests, RegMaxRestarts,
  NoSession, Owner, Sessions, TTL, Users

VARIABLES
  rowStat, rowAge, stat, age, inMap, regPc, at, op, todo, ids, room, found, scope,
  alone, requests, regRestarts

Reg == INSTANCE SessionRegistry
       WITH pc <- regPc, restarts <- regRestarts, MaxRestarts <- RegMaxRestarts

\* The Live objects of a user.
ActiveOf(u) == {l \in Reg!Active : Owner[l[1]] = u}

\* The Live a create has made and not registered yet, and its row.
Fresh(p)  == IF regPc[p] \in {"persist", "register"} THEN todo[p] ELSE {}
NewRow(p) == IF regPc[p] \in {"persist", "register"} THEN {at[p]} ELSE {}

\* Room for one more, once it has been made: of the user in memory, of the user in
\* the rows, of all users in memory.
UserRoom(p) ==
  scope[p] = "all" \/ regPc[p] \in {"rows", "select", "stopRows"}
    => Cardinality(ActiveOf(Owner[at[p]]) \ Fresh(p)) < MaxPerUser
RowRoom(p) ==
  LET rows == Reg!ActiveRows(Owner[at[p]]) IN
  /\ regPc[p] = "select" => Cardinality(rows) < room[p] + MaxPerUser
  /\ regPc[p] = "stopRows" => Cardinality(rows \ ids[p]) < MaxPerUser
  /\ scope[p] = "all" => Cardinality(rows \ NewRow(p)) < MaxPerUser
AllRoom(p) ==
  regPc[p] \in {"insert", "persist", "register"}
    => scope[p] = "all" /\ Cardinality(Reg!Active \ Fresh(p)) < MaxConcurrent

\* Where a create may stand, and where the other requests.
CreatePCs == {"stop", "count", "pick", "evict", "rows", "select", "stopRows",
              "insert", "persist", "register"}
UsePCs == {"load", "loadStale", "admit", "use", "refill"}

\* A create that nothing overlaps.
Room(p) ==
  /\ at[p] \in Sessions /\ regPc[p] \in CreatePCs
  /\ \A q \in Reg!Callers \ {p} : regPc[q] = "idle"
  /\ regPc[p] \in {"stop", "rows", "select", "stopRows"} => scope[p] = "user"
  /\ \A l, m \in Fresh(p) : l = m /\ l[1] = at[p]
  /\ UserRoom(p) /\ RowRoom(p) /\ AllRoom(p)

\* Where the goroutines stand.
ControlType ==
  /\ regPc \in [Reg!Procs -> CreatePCs \cup UsePCs \cup {"idle"}]
  /\ at \in [Reg!Procs -> Sessions \cup {NoSession}]
  /\ op \in [Reg!Procs -> {"none", "create", "poll", "stop", "act"}]
  /\ todo \in [Reg!Procs -> SUBSET Reg!Lives] /\ ids \in [Reg!Procs -> SUBSET Sessions]
  /\ room \in [Reg!Procs -> Nat] /\ found \in [Reg!Procs -> Reg!Statuses]
  /\ scope \in [Reg!Procs -> {"user", "all"}]
  /\ alone \subseteq Reg!Callers
  /\ regPc[Reg!Reaper] \in {"idle", "stop"}
  /\ \A q \in Reg!Callers : IF regPc[q] = "idle" THEN scope[q] = "user"
                                              ELSE at[q] \in Sessions

\* The types the caps depend on.
RegistryType ==
  /\ rowStat \in [Sessions -> Reg!Statuses] /\ stat \in [Reg!Lives -> Reg!Statuses]
  /\ inMap \in [Sessions -> {0} \cup Reg!Slots]
  /\ ControlType

\* The inductive invariant: every create nothing overlaps has the room it has made.
RoomInv == \A p \in alone : Room(p)

(***************************************************************************)
(* The registry counts with an instance of FiniteSets of its own: what is  *)
(* finite there is finite here.                                            *)
(***************************************************************************)
LEMMA SameFinite == \A S : Reg!IsFiniteSet(S) <=> IsFiniteSet(S)
BY DEF IsFiniteSet, Reg!IsFiniteSet

(***************************************************************************)
(* ... and has as many elements.                                           *)
(***************************************************************************)
LEMMA SameCount == \A S : Reg!Cardinality(S) = Cardinality(S)
BY DEF Cardinality, Reg!Cardinality

(***************************************************************************)
(* There are finitely many Live objects.                                   *)
(***************************************************************************)
LEMMA LivesFinite ==
  ASSUME Reg!SessionsFit, Reg!CapsFit
  PROVE  IsFiniteSet(Sessions) /\ IsFiniteSet(Reg!Lives)
<1>1. IsFiniteSet(Reg!Slots)
  BY FS_Interval DEF Reg!CapsFit, Reg!Slots
<1> QED BY <1>1, FS_Product, SameFinite DEF Reg!SessionsFit, Reg!Lives

(***************************************************************************)
(* The sessions a cap counts can be counted.                               *)
(***************************************************************************)
LEMMA ActiveFinite ==
  ASSUME Reg!SessionsFit, Reg!CapsFit
  PROVE  /\ \A S \in SUBSET Reg!Active : IsFiniteSet(S) /\ Cardinality(S) \in Nat
         /\ \A u : /\ IsFiniteSet(ActiveOf(u)) /\ ActiveOf(u) \subseteq Reg!Active
                   /\ IsFiniteSet(Reg!ActiveRows(u))
                   /\ Cardinality(Reg!ActiveRows(u)) \in Nat
<1>1. Reg!Active \subseteq Reg!Lives /\ \A u : ActiveOf(u) \subseteq Reg!Active
  BY DEF Reg!Active, Reg!Registered, ActiveOf
<1>2. \A u : Reg!ActiveRows(u) \subseteq Sessions
  BY DEF Reg!ActiveRows
<1> QED BY <1>1, <1>2, LivesFinite, FS_Subset, FS_CardinalityType

(***************************************************************************)
(* Fewer things take no more room.                                         *)
(***************************************************************************)
LEMMA Fewer ==
  ASSUME NEW S, NEW T, IsFiniteSet(T), S \subseteq T, NEW n \in Int, Cardinality(T) < n
  PROVE  Cardinality(S) < n
BY FS_Subset, FS_CardinalityType

(***************************************************************************)
(* One more takes one more.                                                *)
(***************************************************************************)
LEMMA OneMore ==
  ASSUME NEW S, NEW T, NEW x, IsFiniteSet(T), S \subseteq T \cup {x},
         NEW n \in Int, Cardinality(T \ {x}) < n
  PROVE  Cardinality(S) <= n
<1> DEFINE R == T \ {x}
<1>1. IsFiniteSet(R) /\ Cardinality(R) \in Nat /\ x \notin R
  BY FS_Subset, FS_CardinalityType
<1>2. IsFiniteSet(R \cup {x}) /\ Cardinality(R \cup {x}) = Cardinality(R) + 1
  <2> HIDE DEF R
  <2> QED BY <1>1, FS_AddElement
<1>3. S \subseteq R \cup {x}
  OBVIOUS
<1>4. Cardinality(S) <= Cardinality(R \cup {x}) /\ Cardinality(S) \in Nat
  <2> HIDE DEF R
  <2> QED BY <1>2, <1>3, FS_Subset, FS_CardinalityType
<1>5. Cardinality(R) < n
  OBVIOUS
<1> HIDE DEF R
<1> QED BY <1>1, <1>2, <1>4, <1>5

(***************************************************************************)
(* So many fewer make so much room.                                        *)
(***************************************************************************)
LEMMA Removed ==
  ASSUME NEW T, IsFiniteSet(T), NEW S \in SUBSET T, NEW r \in Nat, NEW n \in Nat \ {0},
         Cardinality(S) = r \/ S = T, Cardinality(T) < r + n
  PROVE  Cardinality(T \ S) < n
<1>1. /\ Cardinality(T \ S) = Cardinality(T) - Cardinality(T \cap S)
      /\ Cardinality(T) \in Nat
  BY FS_Difference, FS_CardinalityType
<1>2. CASE Cardinality(S) = r
  <2>1. T \cap S = S
    OBVIOUS
  <2>2. Cardinality(T \ S) = Cardinality(T) - r
    BY <1>1, <1>2, <2>1
  <2> QED BY <1>1, <2>2
<1>3. CASE S = T
  <2>1. T \ S = {}
    BY <1>3
  <2> QED BY <2>1, FS_EmptySet
<1> QED BY <1>2, <1>3

(***************************************************************************)
(* A step that activates nothing and leaves the create where it is keeps   *)
(* its room.                                                               *)
(***************************************************************************)
LEMMA RoomFrame ==
  ASSUME Reg!SessionsFit, Reg!CapsFit, NEW p, Room(p), room[p] \in Nat,
         Reg!Active' \subseteq Reg!Active,
         \A u : Reg!ActiveRows(u)' \subseteq Reg!ActiveRows(u),
         regPc'[p] = regPc[p], at'[p] = at[p], scope'[p] = scope[p],
         ids'[p] = ids[p], room'[p] = room[p],
         regPc[p] \in {"persist", "register"} => todo'[p] = todo[p],
         \A q \in Reg!Callers \ {p} : regPc'[q] = "idle"
  PROVE  Room(p)'
<1> DEFINE u == Owner[at[p]]
<1>1. /\ Fresh(p)' = Fresh(p) /\ NewRow(p)' = NewRow(p) /\ (Owner[at[p]])' = u
  BY DEF Fresh, NewRow
<1>2. ActiveOf(u)' \subseteq ActiveOf(u)
  BY DEF ActiveOf
<1>3. MaxPerUser \in Int /\ MaxConcurrent \in Int /\ room[p] + MaxPerUser \in Int
  BY DEF Reg!CapsFit
<1>4. UserRoom(p)'
  <2>1. /\ ActiveOf(u)' \ Fresh(p) \subseteq ActiveOf(u) \ Fresh(p)
        /\ IsFiniteSet(ActiveOf(u) \ Fresh(p))
    BY <1>2, ActiveFinite, FS_Subset
  <2> QED BY <1>1, <1>3, <2>1, Fewer DEF Room, UserRoom
<1>5. RowRoom(p)'
  <2>1. /\ Reg!ActiveRows(u)' \subseteq Reg!ActiveRows(u)
        /\ IsFiniteSet(Reg!ActiveRows(u))
        /\ Reg!ActiveRows(u)' \ ids[p] \subseteq Reg!ActiveRows(u) \ ids[p]
        /\ IsFiniteSet(Reg!ActiveRows(u) \ ids[p])
        /\ Reg!ActiveRows(u)' \ NewRow(p) \subseteq Reg!ActiveRows(u) \ NewRow(p)
        /\ IsFiniteSet(Reg!ActiveRows(u) \ NewRow(p))
    BY ActiveFinite, FS_Subset
  <2> QED BY <1>1, <1>3, <2>1, Fewer DEF Room, RowRoom
<1>6. AllRoom(p)'
  <2>1. /\ Reg!Active' \ Fresh(p) \subseteq Reg!Active \ Fresh(p)
        /\ IsFiniteSet(Reg!Active \ Fresh(p))
    BY ActiveFinite, FS_Subset
  <2> QED BY <1>1, <1>3, <2>1, Fewer DEF Room, AllRoom
<1> QED BY <1>1, <1>4, <1>5, <1>6 DEF Room

(***************************************************************************)
(* A write of a row keeps the rows typed.                                  *)
(***************************************************************************)
LEMMA WriteType ==
  ASSUME RegistryType, NEW s, NEW new \in Reg!Statuses, Reg!Write(s, new)
  PROVE  rowStat' \in [Sessions -> Reg!Statuses]
BY DEF RegistryType, Reg!Write

(***************************************************************************)
(* Leaving a Live keeps it typed.                                          *)
(***************************************************************************)
LEMMA LeaveType ==
  ASSUME RegistryType, NEW p, NEW l, NEW new \in Reg!Statuses, Reg!Leave(p, l, new)
  PROVE  stat' \in [Reg!Lives -> Reg!Statuses]
BY DEF RegistryType, Reg!Leave, Reg!Statuses

(***************************************************************************)
(* What enters the map is a Live with a status.                            *)
(***************************************************************************)
LEMMA EnterType ==
  ASSUME RegistryType, NEW l \in Reg!Lives, NEW new \in Reg!Statuses, Reg!Enter(l, new)
  PROVE  /\ stat' \in [Reg!Lives -> Reg!Statuses]
         /\ inMap' \in [Sessions -> {0} \cup Reg!Slots]
<1>1. l[2] \in Reg!Slots
  BY DEF Reg!Lives
<1>2. stat' \in [Reg!Lives -> Reg!Statuses]
  BY DEF RegistryType, Reg!Enter, Reg!Statuses
<1> QED BY <1>1, <1>2 DEF RegistryType, Reg!Enter

(***************************************************************************)
(* An answered request leaves its goroutine idle.                          *)
(***************************************************************************)
LEMMA ReturnType ==
  ASSUME RegistryType, NEW p \in Reg!Callers, Reg!Return(p)
  PROVE  ControlType'
<1>1. /\ p \in Reg!Procs /\ p # Reg!Reaper /\ Reg!Reaper \in Reg!Procs
      /\ Reg!Callers \subseteq Reg!Procs
  BY DEF Reg!Procs, Reg!Callers, Reg!Reaper
<1> QED BY <1>1
   DEF RegistryType, Reg!Return, ControlType, Reg!Statuses, CreatePCs, UsePCs

(***************************************************************************)
(* The types of the registry, which know of the reaper that it only        *)
(* reclaims, and of an idle caller that it has no scope left over.         *)
(***************************************************************************)
LEMMA RegistryTypeStep ==
  ASSUME Reg!SessionsFit, Reg!CapsFit, RegistryType, [Reg!Next]_(Reg!vars)
  PROVE  RegistryType'
<1>0. /\ Reg!Callers \subseteq Reg!Procs /\ Reg!Reaper \in Reg!Procs
      /\ Reg!Reaper \notin Reg!Callers
      /\ \A p \in Reg!Procs : p # Reg!Reaper => p \in Reg!Callers
      /\ \A p \in Reg!Callers : p # Reg!Reaper
  BY DEF Reg!Procs, Reg!Callers, Reg!Reaper
<1>a. ASSUME rowStat' \in [Sessions -> Reg!Statuses],
             stat' \in [Reg!Lives -> Reg!Statuses],
             inMap' \in [Sessions -> {0} \cup Reg!Slots], ControlType'
      PROVE  RegistryType'
  BY <1>a DEF RegistryType
<1>t. /\ rowStat \in [Sessions -> Reg!Statuses] /\ stat \in [Reg!Lives -> Reg!Statuses]
      /\ inMap \in [Sessions -> {0} \cup Reg!Slots] /\ ControlType
  BY DEF RegistryType
<1>w. "active" \in Reg!Statuses /\ "stopped" \in Reg!Statuses
  BY DEF Reg!Statuses
<1>1. CASE Reg!Reap
  <2>1. Reg!Active \subseteq Reg!Lives
    BY DEF Reg!Active, Reg!Registered
  <2>2. ControlType'
    BY <1>0, <1>1, <1>t, <2>1 DEF Reg!Reap, Reg!Collect, Reg!Goto, Reg!counters,
       ControlType, CreatePCs, UsePCs
  <2> QED BY <1>1, <1>a, <1>t, <2>2 DEF Reg!Reap, Reg!rowVars, Reg!liveVars
<1>2. ASSUME NEW p \in Reg!Procs, NEW l \in todo[p], Reg!StopIdle(p, l)
      PROVE  RegistryType'
  <2>1. /\ rowStat' \in [Sessions -> Reg!Statuses]
        /\ stat' \in [Reg!Lives -> Reg!Statuses]
    BY <1>2, <1>w, WriteType, LeaveType DEF Reg!StopIdle, Reg!StopLive
  <2>2. ControlType'
    BY <1>0, <1>2, <1>t DEF Reg!StopIdle, Reg!counters, ControlType
  <2> QED BY <1>2, <1>a, <1>t, <2>1, <2>2 DEF Reg!StopIdle
<1>3. ASSUME NEW p \in Reg!Procs, Reg!StopStale(p) PROVE RegistryType'
  <2>1. rowStat' \in [Sessions -> Reg!Statuses]
    BY <1>3, <1>t DEF Reg!StopStale, Reg!Statuses
  <2>2. ControlType'
    BY <1>0, <1>3, <1>t
       DEF Reg!StopStale, Reg!Goto, Reg!counters, ControlType, CreatePCs, UsePCs
  <2> QED BY <1>3, <1>a, <1>t, <2>1, <2>2 DEF Reg!StopStale, Reg!liveVars
<1>4. ASSUME NEW p \in Reg!Callers, NEW s \in Sessions, Reg!Create(p, s)
      PROVE  RegistryType'
  <2>1. Reg!Active \subseteq Reg!Lives
    BY DEF Reg!Active, Reg!Registered
  <2>2. alone' \subseteq Reg!Callers
    BY <1>4 DEF Reg!Create, Reg!Arrive
  <2>3. ControlType'
    BY <1>0, <1>4, <1>t, <2>1, <2>2
       DEF Reg!Create, Reg!Collect, Reg!Goto, ControlType, CreatePCs, UsePCs
  <2> QED BY <1>4, <1>a, <1>t, <2>3 DEF Reg!Create, Reg!rowVars, Reg!liveVars
<1>5. ASSUME NEW p \in Reg!Callers, NEW s \in Sessions,
             NEW what \in {"poll", "stop", "act"},
             Reg!Request(p, s, what)
      PROVE  RegistryType'
  <2>2. alone' \subseteq Reg!Callers
    BY <1>5 DEF Reg!Request, Reg!Arrive
  <2>3. /\ todo' \in [Reg!Procs -> SUBSET Reg!Lives]
        /\ \E next \in {"use", "load"} : regPc' = [regPc EXCEPT ![p] = next]
    <3>1. inMap[s] # 0 => <<s, inMap[s]>> \in Reg!Lives
      BY <1>t DEF Reg!Lives
    <3> QED BY <1>5, <1>t, <3>1 DEF Reg!Request, Reg!Lookup, Reg!Goto, ControlType
  <2>4. ControlType'
    BY <1>0, <1>5, <1>t, <2>2, <2>3 DEF Reg!Request, ControlType, CreatePCs, UsePCs
  <2> QED BY <1>5, <1>a, <1>t, <2>4 DEF Reg!Request, Reg!rowVars
<1>6. ASSUME NEW p \in Reg!Procs, Reg!CreateStep(p) PROVE RegistryType'
  <2>0. p \in Reg!Callers /\ at[p] \in Sessions
    <3>1. p # Reg!Reaper
      BY <1>6, <1>t DEF Reg!CreateStep, Reg!Count, Reg!Pick, Reg!Evict, Reg!CountRows,
         Reg!SelectRows,
         Reg!RowsEvicted, Reg!EvictRow, Reg!Insert, Reg!Persist, Reg!Register,
         ControlType
    <3>2. regPc[p] # "idle"
      BY <1>6 DEF Reg!CreateStep, Reg!Count, Reg!Pick, Reg!Evict, Reg!CountRows,
         Reg!SelectRows,
         Reg!RowsEvicted, Reg!EvictRow, Reg!Insert, Reg!Persist, Reg!Register
    <3> QED BY <1>0, <1>t, <3>1, <3>2 DEF ControlType
  <2>1. CASE Reg!Count(p)
    <3>1. ControlType'
      BY <1>0, <1>t, <2>0, <2>1
         DEF Reg!Count, Reg!Goto, Reg!counters, ControlType, CreatePCs, UsePCs
    <3> QED BY <1>a, <1>t, <2>1, <3>1 DEF Reg!Count, Reg!rowVars, Reg!liveVars
  <2>2. CASE Reg!Pick(p)
    <3>1. Reg!Counted(p) \subseteq Reg!Lives
      BY DEF Reg!Counted, Reg!Active, Reg!Registered
    <3>2. /\ todo' \in [Reg!Procs -> SUBSET Reg!Lives]
          /\ \E next \in {"evict", "rows", "insert"} :
               regPc' = [regPc EXCEPT ![p] = next]
      BY <1>t, <2>2, <3>1 DEF Reg!Pick, Reg!Goto, ControlType
    <3>3. ControlType'
      BY <1>0, <1>t, <2>0, <2>2, <3>2
         DEF Reg!Pick, Reg!counters, ControlType, CreatePCs, UsePCs
    <3> QED BY <1>a, <1>t, <2>2, <3>3 DEF Reg!Pick, Reg!rowVars, Reg!liveVars
  <2>3. CASE Reg!Evict(p)
    <3>1. /\ rowStat' \in [Sessions -> Reg!Statuses]
          /\ stat' \in [Reg!Lives -> Reg!Statuses]
      BY <1>w, <2>3, WriteType, LeaveType DEF Reg!Evict, Reg!StopLive
    <3>2. ControlType'
      BY <1>0, <1>t, <2>0, <2>3
         DEF Reg!Evict, Reg!Goto, Reg!counters, ControlType, CreatePCs, UsePCs
    <3> QED BY <1>a, <1>t, <2>3, <3>1, <3>2 DEF Reg!Evict
  <2>4. CASE Reg!CountRows(p)
    <3>1. /\ room' \in [Reg!Procs -> Nat] /\ scope' \in [Reg!Procs -> {"user", "all"}]
          /\ \A q \in Reg!Procs \ {p} : scope'[q] = scope[q]
          /\ \E next \in {"select", "count"} : regPc' = [regPc EXCEPT ![p] = next]
      <4> DEFINE n == Cardinality(Reg!ActiveRows(Owner[at[p]]))
      <4>1. n \in Nat /\ MaxPerUser \in Nat
        BY ActiveFinite DEF Reg!CapsFit
      <4>2. n >= MaxPerUser => n - MaxPerUser + 1 \in Nat
        <5> HIDE DEF n
        <5> QED BY <4>1
      <4> HIDE DEF n
      <4> QED BY <1>t, <2>4, <4>2, SameCount DEF Reg!CountRows, Reg!Goto, ControlType, n
    <3>2. ControlType'
      BY <1>0, <1>t, <2>0, <2>4, <3>1
         DEF Reg!CountRows, Reg!counters, ControlType, CreatePCs, UsePCs
    <3> QED BY <1>a, <1>t, <2>4, <3>2 DEF Reg!CountRows, Reg!rowVars, Reg!liveVars
  <2>5. CASE Reg!SelectRows(p)
    <3>1. ids' \in [Reg!Procs -> SUBSET Sessions]
      BY <1>t, <2>5 DEF Reg!SelectRows, Reg!ActiveRows, ControlType
    <3>2. ControlType'
      BY <1>0, <1>t, <2>0, <2>5, <3>1
         DEF Reg!SelectRows, Reg!Goto, Reg!counters, ControlType, CreatePCs, UsePCs
    <3> QED BY <1>a, <1>t, <2>5, <3>2 DEF Reg!SelectRows, Reg!rowVars, Reg!liveVars
  <2>6. ASSUME NEW s \in ids[p], Reg!EvictRow(p, s) PROVE RegistryType'
    <3>1. rowStat' \in [Sessions -> Reg!Statuses]
      BY <1>t, <1>w, <2>6, WriteType DEF Reg!EvictRow, Reg!rowVars
    <3>2. ControlType'
      BY <1>0, <1>t, <2>0, <2>6 DEF Reg!EvictRow, Reg!counters, ControlType
    <3> QED BY <1>a, <1>t, <2>6, <3>1, <3>2 DEF Reg!EvictRow, Reg!liveVars
  <2>7. CASE Reg!RowsEvicted(p)
    <3>1. ControlType'
      BY <1>0, <1>t, <2>0, <2>7
         DEF Reg!RowsEvicted, Reg!Goto, Reg!counters, ControlType, CreatePCs, UsePCs
    <3> QED BY <1>a, <1>t, <2>7, <3>1 DEF Reg!RowsEvicted, Reg!rowVars, Reg!liveVars
  <2>8. CASE Reg!Insert(p)
    <3>1. rowStat' \in [Sessions -> Reg!Statuses]
      BY <1>w, <2>8, WriteType DEF Reg!Insert
    <3>2. PICK k \in Reg!Slots : /\ stat' = [stat EXCEPT ![<<at[p], k>>] = "active"]
                                 /\ todo' = [todo EXCEPT ![p] = {<<at[p], k>>}]
      BY <2>8 DEF Reg!Insert, Reg!Free
    <3>3. <<at[p], k>> \in Reg!Lives
      BY <2>0 DEF Reg!Lives
    <3>4. ControlType'
      <4>1. /\ regPc' = [regPc EXCEPT ![p] = "persist"]
            /\ UNCHANGED <<at, op, ids, room, found, scope, alone>>
        BY <2>8 DEF Reg!Insert, Reg!Goto, Reg!counters
      <4>2. todo' \in [Reg!Procs -> SUBSET Reg!Lives]
        BY <1>t, <3>2, <3>3 DEF ControlType
      <4> QED BY <1>0, <1>t, <2>0, <4>1, <4>2 DEF ControlType, CreatePCs, UsePCs
    <3> QED BY <1>a, <1>t, <1>w, <2>8, <3>1, <3>2, <3>4 DEF Reg!Insert
  <2>9. CASE Reg!Persist(p)
    <3>1. rowStat' \in [Sessions -> Reg!Statuses]
      BY <1>w, <2>9, WriteType DEF Reg!Persist
    <3>2. ControlType'
      BY <1>0, <1>t, <2>0, <2>9
         DEF Reg!Persist, Reg!Goto, Reg!counters, ControlType, CreatePCs, UsePCs
    <3> QED BY <1>a, <1>t, <2>9, <3>1, <3>2 DEF Reg!Persist, Reg!liveVars
  <2>10. CASE Reg!Register(p)
    <3>1. PICK l \in todo[p] : Reg!Enter(l, stat[l])
      BY <2>10 DEF Reg!Register
    <3>2. l \in Reg!Lives /\ stat[l] \in Reg!Statuses
      BY <1>t, <2>0 DEF ControlType, Reg!Procs
    <3>3. ControlType'
      BY <2>0, <2>10, ReturnType DEF Reg!Register
    <3> QED BY <1>a, <1>t, <2>10, <3>1, <3>2, <3>3, EnterType
       DEF Reg!Register, Reg!rowVars
  <2> QED BY <1>6, <2>1, <2>2, <2>3, <2>4, <2>5, <2>6, <2>7, <2>8, <2>9, <2>10
      DEF Reg!CreateStep
<1>7. ASSUME NEW p \in Reg!Procs, Reg!UseStep(p) PROVE RegistryType'
  <2>0. p \in Reg!Callers /\ at[p] \in Sessions
    <3>1. p # Reg!Reaper /\ regPc[p] # "idle"
      BY <1>7, <1>t DEF Reg!UseStep, Reg!Load, Reg!LoadStale, Reg!Admit, Reg!Use,
         Reg!Refill, ControlType
    <3> QED BY <1>0, <1>t, <3>1 DEF ControlType
  <2>1. CASE Reg!Load(p)
    <3>1. /\ found' \in [Reg!Procs -> Reg!Statuses]
          /\ \E next \in {"loadStale", "admit"} : regPc' = [regPc EXCEPT ![p] = next]
      BY <1>t, <2>0, <2>1 DEF Reg!Load, Reg!Goto, ControlType
    <3>2. ControlType'
      BY <1>0, <1>t, <2>0, <2>1, <3>1
         DEF Reg!Load, Reg!counters, ControlType, CreatePCs, UsePCs
    <3> QED BY <1>a, <1>t, <2>1, <3>2 DEF Reg!Load, Reg!rowVars, Reg!liveVars
  <2>2. CASE Reg!LoadStale(p)
    <3>1. rowStat' \in [Sessions -> Reg!Statuses]
      BY <1>w, <2>2, WriteType DEF Reg!LoadStale
    <3>2. PICK k \in Reg!Slots : /\ stat' = [stat EXCEPT ![<<at[p], k>>] = "stopped"]
                                 /\ todo' = [todo EXCEPT ![p] = {<<at[p], k>>}]
      BY <2>2 DEF Reg!LoadStale, Reg!Free
    <3>3. <<at[p], k>> \in Reg!Lives
      BY <2>0 DEF Reg!Lives
    <3>4. ControlType'
      <4>1. /\ regPc' = [regPc EXCEPT ![p] = "use"]
            /\ UNCHANGED <<at, op, ids, room, found, scope, alone>>
        BY <2>2 DEF Reg!LoadStale, Reg!Goto, Reg!counters
      <4>2. todo' \in [Reg!Procs -> SUBSET Reg!Lives]
        BY <1>t, <3>2, <3>3 DEF ControlType
      <4> QED BY <1>0, <1>t, <2>0, <4>1, <4>2 DEF ControlType, CreatePCs, UsePCs
    <3> QED BY <1>a, <1>t, <1>w, <2>2, <3>1, <3>2, <3>4 DEF Reg!LoadStale
  <2>3. CASE Reg!Admit(p)
    <3>1. PICK k \in Reg!Slots : /\ Reg!Enter(<<at[p], k>>, found[p])
                                 /\ todo' = [todo EXCEPT ![p] = {<<at[p], k>>}]
      BY <2>3 DEF Reg!Admit, Reg!Free
    <3>2. <<at[p], k>> \in Reg!Lives /\ found[p] \in Reg!Statuses
      BY <1>t, <2>0 DEF Reg!Lives, ControlType
    <3>3. /\ stat' \in [Reg!Lives -> Reg!Statuses]
          /\ inMap' \in [Sessions -> {0} \cup Reg!Slots]
      BY <3>1, <3>2, EnterType
    <3>4. found' \in [Reg!Procs -> Reg!Statuses]
      BY <1>t, <2>3 DEF Reg!Admit, ControlType, Reg!Statuses
    <3>5. ControlType'
      <4>1. /\ regPc' = [regPc EXCEPT ![p] = "use"]
            /\ UNCHANGED <<at, op, ids, room, scope, alone>>
        BY <2>3 DEF Reg!Admit, Reg!Goto, Reg!counters
      <4>2. todo' \in [Reg!Procs -> SUBSET Reg!Lives]
        BY <1>t, <3>1, <3>2 DEF ControlType
      <4> QED BY <1>0, <1>t, <2>0, <3>4, <4>1, <4>2 DEF ControlType, CreatePCs, UsePCs
    <3> QED BY <1>a, <1>t, <2>3, <3>3, <3>5 DEF Reg!Admit, Reg!rowVars
  <2>4. CASE Reg!Use(p)
    <3>1. PICK l \in todo[p] : Reg!Poll(p, l) \/ Reg!Stop(p, l) \/ Reg!Act(p, l)
      BY <2>4 DEF Reg!Use
    <3>2. l \in Reg!Lives /\ stat[l] \in Reg!Statuses
      BY <1>t, <2>0 DEF ControlType, Reg!Procs
    <3>3. UNCHANGED inMap
      BY <2>4 DEF Reg!Use
    <3>4. CASE Reg!Leave(p, l, stat[l]) /\ Reg!Return(p) /\ UNCHANGED Reg!rowVars
      BY <1>a, <1>t, <2>0, <3>2, <3>3, <3>4, LeaveType, ReturnType DEF Reg!rowVars
    <3>5. CASE Reg!Stop(p, l)
      BY <1>a, <1>t, <1>w, <2>0, <3>3, <3>5, LeaveType, WriteType, ReturnType
         DEF Reg!Stop, Reg!StopLive
    <3>6. ASSUME NEW new \in {"active", "stopped"},
                 stat' = [stat EXCEPT ![l] = new], Reg!Write(l[1], new),
                 Reg!Goto(p, "refill"),
                 UNCHANGED <<age, at, op, todo, ids, room, found, scope, alone>>
          PROVE  RegistryType'
      <4>1. new \in Reg!Statuses
        BY <1>w
      <4>2. /\ rowStat' \in [Sessions -> Reg!Statuses]
            /\ stat' \in [Reg!Lives -> Reg!Statuses]
        BY <1>t, <3>2, <3>6, <4>1, WriteType
      <4>3. ControlType'
        BY <1>0, <1>t, <2>0, <3>6 DEF Reg!Goto, ControlType, CreatePCs, UsePCs
      <4> QED BY <1>a, <1>t, <3>3, <4>2, <4>3
    <3> QED BY <3>1, <3>4, <3>5, <3>6 DEF Reg!Poll, Reg!Act
  <2>5. CASE Reg!Refill(p)
    <3>1. PICK l \in todo[p] : /\ \/ stat[l] = "active" /\ Reg!Write(l[1], "active")
                                  \/ UNCHANGED Reg!rowVars
                               /\ Reg!Leave(p, l, stat[l])
      BY <2>5 DEF Reg!Refill
    <3>2. stat[l] \in Reg!Statuses
      BY <1>t, <2>0 DEF ControlType, Reg!Procs
    <3>3. rowStat' \in [Sessions -> Reg!Statuses]
      BY <1>t, <1>w, <3>1, WriteType DEF Reg!rowVars
    <3> QED BY <1>a, <1>t, <2>0, <2>5, <3>1, <3>2, <3>3, LeaveType, ReturnType
       DEF Reg!Refill
  <2> QED BY <1>7, <2>1, <2>2, <2>3, <2>4, <2>5 DEF Reg!UseStep
<1>8. CASE Reg!Tick \/ UNCHANGED Reg!vars
  BY <1>8 DEF Reg!Tick, Reg!vars, Reg!rowVars, Reg!liveVars, Reg!procVars,
     Reg!counters, RegistryType, ControlType
<1>9. CASE Reg!Restart
  BY <1>0, <1>9 DEF Reg!Restart, Reg!rowVars, RegistryType, ControlType, Reg!Statuses
<1> QED BY <1>1, <1>2, <1>3, <1>4, <1>5, <1>6, <1>7, <1>8, <1>9
    DEF Reg!Next, Reg!Step, Reg!Reclaim

(***************************************************************************)
(* What stops a Live activates none, and no row either.                    *)
(***************************************************************************)
LEMMA StopShrinks ==
  ASSUME RegistryType, NEW p, NEW l, Reg!StopLive(p, l), UNCHANGED inMap
  PROVE  /\ Reg!Active' \subseteq Reg!Active
         /\ \A u : Reg!ActiveRows(u)' \subseteq Reg!ActiveRows(u)
BY DEF RegistryType, Reg!StopLive, Reg!Leave, Reg!Write, Reg!Active, Reg!Registered,
   Reg!ActiveRows, Reg!Lives

(***************************************************************************)
(* Who is active is a matter of three variables.                           *)
(***************************************************************************)
LEMMA SameActive ==
  ASSUME UNCHANGED <<rowStat, stat, inMap>>
  PROVE  Reg!Active' = Reg!Active /\ \A u : Reg!ActiveRows(u)' = Reg!ActiveRows(u)
BY DEF Reg!Active, Reg!Registered, Reg!ActiveRows, Reg!Lives

(***************************************************************************)
(* A create that looks for a Live to stop.                                 *)
(***************************************************************************)
LEMMA RoomSeeks ==
  ASSUME Reg!SessionsFit, Reg!CapsFit, NEW p, Room(p),
         Reg!Active' \subseteq Reg!Active,
         \A u : Reg!ActiveRows(u)' \subseteq Reg!ActiveRows(u),
         regPc[p] \in {"stop", "count", "pick", "evict"},
         regPc'[p] \in {"count", "pick", "evict"},
         at'[p] = at[p], scope'[p] = scope[p],
         \A q \in Reg!Callers \ {p} : regPc'[q] = "idle"
  PROVE  Room(p)'
<1> DEFINE u == Owner[at[p]]
<1>1. /\ Fresh(p) = {} /\ Fresh(p)' = {} /\ NewRow(p) = {} /\ NewRow(p)' = {}
      /\ (Owner[at[p]])' = u
  BY DEF Fresh, NewRow
<1>2. ActiveOf(u)' \subseteq ActiveOf(u)
  BY DEF ActiveOf
<1>3. MaxPerUser \in Int
  BY DEF Reg!CapsFit
<1>4. UserRoom(p)'
  <2>1. /\ ActiveOf(u)' \ Fresh(p)' \subseteq ActiveOf(u) \ Fresh(p)
        /\ IsFiniteSet(ActiveOf(u) \ Fresh(p))
    BY <1>1, <1>2, ActiveFinite, FS_Subset
  <2> QED BY <1>1, <1>3, <2>1, Fewer DEF Room, UserRoom
<1>5. RowRoom(p)'
  <2>1. /\ Reg!ActiveRows(u)' \ NewRow(p)' \subseteq Reg!ActiveRows(u) \ NewRow(p)
        /\ IsFiniteSet(Reg!ActiveRows(u) \ NewRow(p))
    BY <1>1, ActiveFinite, FS_Subset
  <2> QED BY <1>1, <1>3, <2>1, Fewer DEF Room, RowRoom
<1> QED BY <1>1, <1>4, <1>5 DEF Room, AllRoom, CreatePCs

(***************************************************************************)
(* A create that finds room in memory goes on to the rows, then to its own *)
(* row (countActiveUser, countActiveGlobal).                               *)
(***************************************************************************)
LEMMA RoomFound ==
  ASSUME Reg!SessionsFit, Reg!CapsFit, NEW p, Room(p),
         UNCHANGED <<rowStat, stat, inMap>>,
         regPc[p] \in {"count", "pick"}, Cardinality(Reg!Counted(p)) < Reg!Cap(p),
         regPc'[p] = (IF scope[p] = "user" THEN "rows" ELSE "insert"),
         scope[p] \in {"user", "all"},
         at'[p] = at[p], scope'[p] = scope[p],
         \A q \in Reg!Callers \ {p} : regPc'[q] = "idle"
  PROVE  Room(p)'
<1>1. /\ Fresh(p) = {} /\ Fresh(p)' = {} /\ NewRow(p) = {} /\ NewRow(p)' = {}
      /\ (Owner[at[p]])' = Owner[at[p]]
  BY DEF Fresh, NewRow
<1>2. /\ Reg!Active' = Reg!Active
      /\ \A u : Reg!ActiveRows(u)' = Reg!ActiveRows(u) /\ ActiveOf(u)' = ActiveOf(u)
  BY SameActive DEF ActiveOf
<1>3. CASE scope[p] = "user"
  <2>1. Reg!Counted(p) = ActiveOf(Owner[at[p]]) /\ Reg!Cap(p) = MaxPerUser
    BY <1>3 DEF Reg!Counted, ActiveOf, Reg!Cap
  <2> QED BY <1>1, <1>2, <1>3, <2>1 DEF Room, UserRoom, RowRoom, AllRoom, CreatePCs
<1>4. CASE scope[p] = "all"
  <2>1. Reg!Counted(p) = Reg!Active /\ Reg!Cap(p) = MaxConcurrent
    BY <1>4 DEF Reg!Counted, Reg!Cap
  <2> QED BY <1>1, <1>2, <1>4, <2>1 DEF Room, UserRoom, RowRoom, AllRoom, CreatePCs
<1> QED BY <1>3, <1>4

(***************************************************************************)
(* The rows of the user are counted, selected and stopped: with the new    *)
(* one they are within the cap (CountActiveListeningSessionsForUser,       *)
(* StopOldestActiveListeningSessions).                                     *)
(***************************************************************************)
LEMMA RoomInRows ==
  ASSUME Reg!SessionsFit, Reg!CapsFit, RegistryType, NEW p \in Reg!Callers, Room(p),
         \/ Reg!CountRows(p) \/ Reg!SelectRows(p) \/ Reg!RowsEvicted(p)
         \/ \E s \in ids[p] : Reg!EvictRow(p, s)
  PROVE  Room(p)'
<1> DEFINE u == Owner[at[p]]
           rows == Reg!ActiveRows(u)
<1>1. /\ regPc = [q \in Reg!Procs |-> regPc[q]]
      /\ scope = [q \in Reg!Procs |-> scope[q]]
      /\ room \in [Reg!Procs -> Nat] /\ ids \in [Reg!Procs -> SUBSET Sessions]
      /\ p \in Reg!Procs
      /\ \A q \in Reg!Callers : q \in Reg!Procs
  BY DEF RegistryType, ControlType, CreatePCs, UsePCs, Reg!Procs
<1>2. UNCHANGED <<stat, inMap, at>> /\ \E next : regPc' = [regPc EXCEPT ![p] = next]
  <2>1. regPc = [regPc EXCEPT ![p] = regPc[p]]
    BY <1>1
  <2> QED BY <2>1 DEF Reg!CountRows, Reg!SelectRows, Reg!EvictRow, Reg!RowsEvicted,
     Reg!Goto, Reg!liveVars
<1>3. \A q \in Reg!Callers \ {p} : regPc'[q] = "idle"
  BY <1>1, <1>2 DEF Room
<1>4. Reg!Active' = Reg!Active /\ ActiveOf(u)' = ActiveOf(u) /\ (Owner[at[p]])' = u
  BY <1>2 DEF Reg!Active, Reg!Registered, ActiveOf
<1>5. /\ IsFiniteSet(rows) /\ Cardinality(rows) \in Nat
      /\ room[p] \in Nat /\ MaxPerUser \in Nat \ {0}
  BY <1>1, ActiveFinite DEF Reg!CapsFit
<1>6. CASE Reg!CountRows(p)
  <2>1. rows' = rows /\ regPc[p] = "rows" /\ Fresh(p) = {} /\ Fresh(p)' = {}
        /\ NewRow(p)' = {} /\ scope[p] = "user"
    BY <1>1, <1>2, <1>6
       DEF Reg!CountRows, Reg!rowVars, Reg!ActiveRows, Fresh, NewRow, Reg!Goto, Room
  <2>2. Cardinality(ActiveOf(u)) < MaxPerUser
    BY <2>1 DEF Room, UserRoom
  <2>3. CASE Cardinality(rows) >= MaxPerUser
    <3>1. /\ regPc'[p] = "select" /\ room'[p] = Cardinality(rows) - MaxPerUser + 1
          /\ scope'[p] = "user"
      BY <1>1, <1>6, <2>1, <2>3, SameCount DEF Reg!CountRows, Reg!Goto
    <3>2. Cardinality(rows) < room'[p] + MaxPerUser
      <4> HIDE DEF rows
      <4> QED BY <1>5, <3>1
    <3> QED BY <1>2, <1>3, <1>4, <2>1, <2>2, <3>1, <3>2
        DEF Room, UserRoom, RowRoom, AllRoom, CreatePCs
  <2>4. CASE ~(Cardinality(rows) >= MaxPerUser)
    <3>1. regPc'[p] = "count" /\ scope'[p] = "all"
      BY <1>1, <1>6, <2>4, SameCount DEF Reg!CountRows, Reg!Goto
    <3>2. Cardinality(rows) < MaxPerUser
      <4> HIDE DEF rows
      <4> QED BY <1>5, <2>4
    <3> QED BY <1>2, <1>3, <1>4, <2>1, <2>2, <3>1, <3>2
        DEF Room, UserRoom, RowRoom, AllRoom, CreatePCs
  <2> QED BY <2>3, <2>4
<1>7. CASE Reg!SelectRows(p)
  <2>1. /\ rows' = rows /\ regPc[p] = "select" /\ Fresh(p) = {} /\ Fresh(p)' = {}
        /\ scope[p] = "user" /\ scope'[p] = "user" /\ regPc'[p] = "stopRows"
    BY <1>1, <1>2, <1>7
       DEF Reg!SelectRows, Reg!rowVars, Reg!ActiveRows, Fresh, Reg!Goto, Room
  <2>2. /\ Cardinality(ActiveOf(u)) < MaxPerUser
        /\ Cardinality(rows) < room[p] + MaxPerUser
    BY <2>1 DEF Room, UserRoom, RowRoom
  <2>3. PICK S \in SUBSET rows : /\ Cardinality(S) = room[p] \/ S = rows
                                 /\ ids' = [ids EXCEPT ![p] = S]
    BY <1>7, SameCount DEF Reg!SelectRows
  <2>4. Cardinality(rows \ S) < MaxPerUser
    BY <1>5, <2>2, <2>3, Removed
  <2>5. ids'[p] = S
    BY <1>1, <2>3
  <2> QED BY <1>2, <1>3, <1>4, <2>1, <2>2, <2>4, <2>5
      DEF Room, UserRoom, RowRoom, AllRoom, CreatePCs
<1>8. ASSUME NEW s \in ids[p], Reg!EvictRow(p, s) PROVE Room(p)'
  <2>1. /\ regPc[p] = "stopRows" /\ regPc'[p] = "stopRows" /\ Fresh(p) = {}
        /\ Fresh(p)' = {}
        /\ scope[p] = "user" /\ scope'[p] = "user"
    BY <1>1, <1>8 DEF Reg!EvictRow, Fresh, Room
  <2>2. Cardinality(ActiveOf(u)) < MaxPerUser /\ Cardinality(rows \ ids[p]) < MaxPerUser
    BY <2>1 DEF Room, UserRoom, RowRoom
  <2>3. rows' \ ids'[p] \subseteq rows \ ids[p]
    <3>1. ids'[p] = ids[p] \ {s}
      BY <1>1, <1>8 DEF Reg!EvictRow
    <3>2. s \in Sessions
      BY <1>1
    <3>3. s \notin rows' /\ rows' \subseteq rows
      BY <1>2, <1>8, <3>2
         DEF Reg!EvictRow, Reg!Write, Reg!rowVars, Reg!ActiveRows, RegistryType
    <3> QED BY <3>1, <3>3
  <2>4. Cardinality(rows' \ ids'[p]) < MaxPerUser
    <3> HIDE DEF rows
    <3>1. IsFiniteSet(rows \ ids[p])
      BY <1>5, FS_Subset
    <3> QED BY <1>5, <2>2, <2>3, <3>1, Fewer
  <2> QED BY <1>2, <1>3, <1>4, <2>1, <2>2, <2>4
      DEF Room, UserRoom, RowRoom, AllRoom, CreatePCs
<1>9. CASE Reg!RowsEvicted(p)
  <2>1. /\ rows' = rows /\ regPc[p] = "stopRows" /\ regPc'[p] = "count" /\ Fresh(p) = {}
        /\ Fresh(p)' = {} /\ NewRow(p)' = {} /\ ids[p] = {} /\ scope'[p] = "all"
    BY <1>1, <1>2, <1>9
       DEF Reg!RowsEvicted, Reg!rowVars, Reg!ActiveRows, Fresh, NewRow, Reg!Goto, Room
  <2>2. Cardinality(ActiveOf(u)) < MaxPerUser /\ Cardinality(rows) < MaxPerUser
    BY <2>1 DEF Room, UserRoom, RowRoom
  <2> QED BY <1>2, <1>3, <1>4, <2>1, <2>2
      DEF Room, UserRoom, RowRoom, AllRoom, CreatePCs
<1> QED BY <1>6, <1>7, <1>8, <1>9

(***************************************************************************)
(* The new session, its row and its Live, is the one there is room for.    *)
(***************************************************************************)
LEMMA RoomMade ==
  ASSUME Reg!SessionsFit, Reg!CapsFit, RegistryType, NEW p \in Reg!Callers, Room(p),
         Reg!Insert(p) \/ Reg!Persist(p)
  PROVE  Room(p)'
<1> DEFINE u == Owner[at[p]]
           rows == Reg!ActiveRows(u)
<1>1. /\ regPc = [q \in Reg!Procs |-> regPc[q]] /\ p \in Reg!Procs
      /\ \A q \in Reg!Callers : q \in Reg!Procs
      /\ rowStat \in [Sessions -> Reg!Statuses]
      /\ todo \in [Reg!Procs -> SUBSET Reg!Lives]
  BY DEF RegistryType, ControlType, CreatePCs, UsePCs, Reg!Procs
<1>2. /\ regPc[p] \in {"insert", "persist"} /\ regPc'[p] \in {"persist", "register"}
      /\ \A q \in Reg!Callers \ {p} : regPc'[q] = "idle"
      /\ UNCHANGED <<inMap, at, scope>>
      /\ rowStat' = [rowStat EXCEPT ![at[p]] = "active"]
  BY <1>1 DEF Reg!Insert, Reg!Persist, Reg!Goto, Reg!Write, Room, Reg!liveVars
<1>3. /\ NewRow(p)' = {at[p]} /\ NewRow(p) \subseteq {at[p]} /\ (Owner[at[p]])' = u
      /\ Fresh(p)' = todo'[p] /\ scope[p] = "all"
  BY <1>2 DEF NewRow, Fresh, Room, AllRoom
<1>4. rows' \ {at[p]} \subseteq rows \ NewRow(p)
  BY <1>1, <1>2, <1>3 DEF Reg!ActiveRows
<1>5. /\ Reg!Active' \ todo'[p] \subseteq Reg!Active \ Fresh(p)
      /\ \A l, m \in todo'[p] : l = m /\ l[1] = at[p]
  <2>1. CASE Reg!Insert(p)
    <3>1. PICK k \in Reg!Slots : /\ stat' = [stat EXCEPT ![<<at[p], k>>] = "active"]
                                 /\ todo' = [todo EXCEPT ![p] = {<<at[p], k>>}]
      BY <2>1 DEF Reg!Insert, Reg!Free
    <3>2. Fresh(p) = {} /\ todo'[p] = {<<at[p], k>>}
      BY <1>1, <2>1, <3>1 DEF Reg!Insert, Fresh
    <3>3. Reg!Active' \ {<<at[p], k>>} \subseteq Reg!Active
      BY <1>2, <3>1 DEF RegistryType, Reg!Active, Reg!Registered, Reg!Lives
    <3> QED BY <3>2, <3>3
  <2>2. CASE Reg!Persist(p)
    BY <2>2 DEF Reg!Persist, Reg!liveVars, Fresh, Reg!Active, Reg!Registered, Room
  <2> QED BY <2>1, <2>2
<1>6. ActiveOf(u)' \ todo'[p] \subseteq ActiveOf(u) \ Fresh(p)
  BY <1>3, <1>5 DEF ActiveOf
<1>7. /\ IsFiniteSet(ActiveOf(u) \ Fresh(p)) /\ IsFiniteSet(Reg!Active \ Fresh(p))
      /\ IsFiniteSet(rows \ NewRow(p)) /\ MaxPerUser \in Int /\ MaxConcurrent \in Int
  BY ActiveFinite, FS_Subset DEF Reg!CapsFit
<1>8. /\ Cardinality(ActiveOf(u) \ Fresh(p)) < MaxPerUser
      /\ Cardinality(rows \ NewRow(p)) < MaxPerUser
      /\ Cardinality(Reg!Active \ Fresh(p)) < MaxConcurrent
  BY <1>2, <1>3 DEF Room, UserRoom, RowRoom, AllRoom
<1>9. /\ Cardinality(ActiveOf(u)' \ todo'[p]) < MaxPerUser
      /\ Cardinality(rows' \ {at[p]}) < MaxPerUser
      /\ Cardinality(Reg!Active' \ todo'[p]) < MaxConcurrent
  BY <1>4, <1>5, <1>6, <1>7, <1>8, Fewer
<1> QED BY <1>2, <1>3, <1>5, <1>9 DEF Room, UserRoom, RowRoom, AllRoom, CreatePCs

(***************************************************************************)
(* Room is kept by every step of a create nothing overlaps.                *)
(***************************************************************************)
LEMMA RoomOwn ==
  ASSUME Reg!SessionsFit, Reg!CapsFit, RegistryType, NEW p \in Reg!Callers, Room(p),
         Reg!Step(p), p \in alone'
  PROVE  Room(p)'
<1>1. /\ regPc = [q \in Reg!Procs |-> regPc[q]] /\ p \in Reg!Procs
      /\ \A q \in Reg!Callers : q \in Reg!Procs
      /\ todo = [q \in Reg!Procs |-> todo[q]] /\ room[p] \in Nat
      /\ scope[p] \in {"user", "all"}
      /\ p # Reg!Reaper /\ MaxPerUser \in Nat \ {0} /\ MaxConcurrent \in Nat \ {0}
  BY DEF RegistryType, ControlType, Reg!Procs, Reg!Callers, Reg!Reaper, Reg!CapsFit
<1>2. regPc[p] \in CreatePCs
  BY DEF Room
<1>3. ~Reg!UseStep(p)
  BY <1>2 DEF Reg!UseStep, Reg!Load, Reg!LoadStale, Reg!Admit, Reg!Use, Reg!Refill,
     CreatePCs
<1>4. ~Reg!Register(p)
  BY DEF Reg!Register, Reg!Return
<1>5. ASSUME NEW l \in todo[p], Reg!StopIdle(p, l) PROVE Room(p)'
  <2>1. /\ Reg!Active' \subseteq Reg!Active
        /\ \A u : Reg!ActiveRows(u)' \subseteq Reg!ActiveRows(u)
    BY <1>5, StopShrinks DEF Reg!StopIdle
  <2>2. UNCHANGED <<regPc, at, scope, ids, room>> /\ regPc[p] = "stop"
    BY <1>5 DEF Reg!StopIdle
  <2> QED BY <1>1, <2>1, <2>2, RoomFrame DEF Room
<1>6. CASE Reg!StopStale(p)
  <2>1. /\ Reg!Active' = Reg!Active
        /\ \A u : Reg!ActiveRows(u)' \subseteq Reg!ActiveRows(u)
    BY <1>6 DEF Reg!StopStale, Reg!liveVars, Reg!Active, Reg!Registered, Reg!ActiveRows
  <2>2. /\ UNCHANGED <<at, scope>> /\ regPc[p] = "stop"
        /\ regPc' = [regPc EXCEPT ![p] = "count"]
    BY <1>1, <1>6 DEF Reg!StopStale, Reg!Goto
  <2> QED BY <1>1, <2>1, <2>2, RoomSeeks DEF Room
<1>7. CASE Reg!Count(p)
  <2>1. UNCHANGED <<rowStat, stat, inMap, at, scope>> /\ regPc[p] = "count"
    BY <1>7 DEF Reg!Count, Reg!rowVars, Reg!liveVars
  <2>2. CASE Cardinality(Reg!Counted(p)) >= Reg!Cap(p)
    <3>1. regPc' = [regPc EXCEPT ![p] = "pick"]
      BY <1>7, <2>2, SameCount DEF Reg!Count, Reg!Goto
    <3> QED BY <1>1, <2>1, <3>1, SameActive, RoomSeeks DEF Room
  <2>3. CASE ~(Cardinality(Reg!Counted(p)) >= Reg!Cap(p))
    <3>1. Cardinality(Reg!Counted(p)) < Reg!Cap(p)
      <4>1. Reg!Counted(p) \subseteq Reg!Active /\ Reg!Cap(p) \in Nat
        BY <1>1 DEF Reg!Counted, Reg!Cap
      <4>2. Cardinality(Reg!Counted(p)) \in Nat
        BY <4>1, ActiveFinite
      <4> QED BY <2>3, <4>1, <4>2
    <3>2. regPc' = [regPc EXCEPT ![p] = IF scope[p] = "user" THEN "rows" ELSE "insert"]
      BY <1>7, <2>3, SameCount DEF Reg!Count, Reg!Goto
    <3> QED BY <1>1, <2>1, <3>1, <3>2, RoomFound DEF Room
  <2> QED BY <2>2, <2>3
<1>8. CASE Reg!Pick(p)
  <2>1. UNCHANGED <<rowStat, stat, inMap, at, scope>> /\ regPc[p] = "pick"
    BY <1>8 DEF Reg!Pick, Reg!rowVars, Reg!liveVars
  <2>2. CASE regPc' = [regPc EXCEPT ![p] = "evict"]
    BY <1>1, <2>1, <2>2, SameActive, RoomSeeks DEF Room
  <2>3. CASE /\ Reg!Counted(p) = {}
             /\ regPc' = [regPc EXCEPT ![p] = IF scope[p] = "user" THEN "rows"
                                        ELSE "insert"]
    <3>1. Cardinality(Reg!Counted(p)) < Reg!Cap(p)
      BY <1>1, <2>3, FS_EmptySet DEF Reg!Cap
    <3> QED BY <1>1, <2>1, <2>3, <3>1, RoomFound DEF Room
  <2> QED BY <1>8, <2>2, <2>3 DEF Reg!Pick, Reg!Goto
<1>9. CASE Reg!Evict(p)
  <2>1. /\ Reg!Active' \subseteq Reg!Active
        /\ \A u : Reg!ActiveRows(u)' \subseteq Reg!ActiveRows(u)
    BY <1>9, StopShrinks DEF Reg!Evict
  <2>2. /\ UNCHANGED <<at, scope>> /\ regPc[p] = "evict"
        /\ regPc' = [regPc EXCEPT ![p] = "count"]
    BY <1>9 DEF Reg!Evict, Reg!Goto
  <2> QED BY <1>1, <2>1, <2>2, RoomSeeks DEF Room
<1> QED BY <1>3, <1>4, <1>5, <1>6, <1>7, <1>8, <1>9, RoomInRows, RoomMade
    DEF Reg!Step, Reg!Reclaim, Reg!CreateStep

(***************************************************************************)
(* The reaper only stops sessions.                                         *)
(***************************************************************************)
LEMMA RoomReaped ==
  ASSUME Reg!SessionsFit, Reg!CapsFit, RegistryType, NEW p \in Reg!Callers, Room(p),
         Reg!Reap \/ Reg!Step(Reg!Reaper)
  PROVE  Room(p)'
<1>1. /\ regPc = [q \in Reg!Procs |-> regPc[q]] /\ p \in Reg!Procs
      /\ \A q \in Reg!Callers : q # Reg!Reaper
      /\ \A q \in Reg!Callers : q \in Reg!Procs
      /\ todo = [q \in Reg!Procs |-> todo[q]] /\ room[p] \in Nat
      /\ regPc[Reg!Reaper] \in {"idle", "stop"}
  BY DEF RegistryType, ControlType, Reg!Procs, Reg!Callers, Reg!Reaper
<1>2. ~Reg!CreateStep(Reg!Reaper) /\ ~Reg!UseStep(Reg!Reaper)
  BY <1>1 DEF Reg!CreateStep, Reg!Count, Reg!Pick, Reg!Evict, Reg!CountRows,
     Reg!SelectRows, Reg!EvictRow, Reg!RowsEvicted,
     Reg!Insert, Reg!Persist, Reg!Register, Reg!UseStep, Reg!Load, Reg!LoadStale,
     Reg!Admit, Reg!Use, Reg!Refill
<1>3. /\ UNCHANGED <<at, scope, ids, room>>
      /\ \A q \in Reg!Callers : regPc'[q] = regPc[q]
      /\ \A q \in Reg!Callers : todo'[q] = todo[q]
  <2>1. CASE Reg!Reap
    BY <1>1, <2>1 DEF Reg!Reap, Reg!Collect, Reg!Goto
  <2>2. ASSUME NEW l \in todo[Reg!Reaper], Reg!StopIdle(Reg!Reaper, l)
        PROVE  /\ UNCHANGED <<at, scope, ids, room>>
               /\ \A q \in Reg!Callers : regPc'[q] = regPc[q]
               /\ \A q \in Reg!Callers : todo'[q] = todo[q]
    BY <1>1, <2>2 DEF Reg!StopIdle
  <2>3. CASE Reg!StopStale(Reg!Reaper)
    BY <1>1, <2>3 DEF Reg!StopStale, Reg!Goto
  <2> QED BY <1>2, <2>1, <2>2, <2>3 DEF Reg!Step, Reg!Reclaim
<1>4. /\ Reg!Active' \subseteq Reg!Active
      /\ \A u : Reg!ActiveRows(u)' \subseteq Reg!ActiveRows(u)
  <2>1. CASE Reg!Reap
    BY <2>1, SameActive DEF Reg!Reap, Reg!rowVars, Reg!liveVars
  <2>2. ASSUME NEW l \in todo[Reg!Reaper], Reg!StopIdle(Reg!Reaper, l)
        PROVE  /\ Reg!Active' \subseteq Reg!Active
               /\ \A u : Reg!ActiveRows(u)' \subseteq Reg!ActiveRows(u)
    BY <2>2, StopShrinks DEF Reg!StopIdle
  <2>3. CASE Reg!StopStale(Reg!Reaper)
    BY <2>3 DEF Reg!StopStale, Reg!liveVars, Reg!Active, Reg!Registered, Reg!ActiveRows
  <2> QED BY <1>2, <2>1, <2>2, <2>3 DEF Reg!Step, Reg!Reclaim
<1> QED BY <1>1, <1>3, <1>4, RoomFrame DEF Room

(***************************************************************************)
(* A create that arrives while nothing else is under way has yet to make   *)
(* room.                                                                   *)
(***************************************************************************)
LEMMA RoomArrives ==
  ASSUME RegistryType, NEW p \in Reg!Callers, p \in alone',
         NEW q \in Reg!Callers, NEW s \in Sessions,
         \/ Reg!Create(q, s)
         \/ \E what \in {"poll", "stop", "act"} : Reg!Request(q, s, what)
  PROVE  Room(p)'
<1>1. /\ regPc = [r \in Reg!Procs |-> regPc[r]] /\ op = [r \in Reg!Procs |-> op[r]]
      /\ at = [r \in Reg!Procs |-> at[r]] /\ \A r \in Reg!Callers : r \in Reg!Procs
      /\ regPc[q] = "idle" => scope[q] = "user"
  BY DEF RegistryType, ControlType, Reg!Procs, Reg!Callers, Reg!Reaper
<1>2. Reg!Create(q, s)
  <2>1. ~\E what \in {"poll", "stop", "act"} : Reg!Request(q, s, what)
    BY <1>1 DEF Reg!Request, Reg!Arrive
  <2> QED BY <2>1
<1>3. p = q /\ \A r \in Reg!Callers : regPc[r] = "idle"
  BY <1>2 DEF Reg!Create, Reg!Arrive
<1>4. /\ regPc' = [regPc EXCEPT ![p] = "stop"] /\ at'[p] = s /\ scope'[p] = "user"
  BY <1>1, <1>2, <1>3 DEF Reg!Create, Reg!Collect, Reg!Goto
<1>5. regPc'[p] = "stop" /\ \A r \in Reg!Callers \ {p} : regPc'[r] = "idle"
  BY <1>1, <1>3, <1>4
<1> QED BY <1>4, <1>5 DEF Room, Fresh, NewRow, UserRoom, RowRoom, AllRoom, CreatePCs

(***************************************************************************)
(* Room is kept by every step.                                             *)
(***************************************************************************)
LEMMA RoomStep ==
  ASSUME Reg!SessionsFit, Reg!CapsFit, RegistryType, RoomInv, [Reg!Next]_(Reg!vars)
  PROVE  RoomInv'
<1> SUFFICES ASSUME NEW p \in alone' PROVE Room(p)'
  BY DEF RoomInv
<1>0. /\ alone \subseteq Reg!Callers /\ Reg!Callers \subseteq Reg!Procs
      /\ Reg!Reaper \notin Reg!Callers
      /\ \A q \in Reg!Procs : q \in Reg!Callers \/ q = Reg!Reaper
      /\ room \in [Reg!Procs -> Nat]
  BY DEF RegistryType, ControlType, Reg!Procs, Reg!Callers, Reg!Reaper
<1>1. ASSUME NEW q \in Reg!Callers, NEW s \in Sessions,
             \/ Reg!Create(q, s)
             \/ \E what \in {"poll", "stop", "act"} : Reg!Request(q, s, what)
      PROVE  Room(p)'
  <2>1. p \in Reg!Callers
    BY <1>1 DEF Reg!Create, Reg!Request, Reg!Arrive
  <2> QED BY <1>1, <2>1, RoomArrives
<1>2. ASSUME p \in alone PROVE p \in Reg!Callers /\ Room(p) /\ room[p] \in Nat
  BY <1>0, <1>2 DEF RoomInv
<1>3. ASSUME NEW q \in Reg!Procs, Reg!Step(q) PROVE Room(p)'
  <2>1. p \in alone
    BY <1>3 DEF Reg!Step, Reg!Reclaim, Reg!StopIdle, Reg!StopStale, Reg!CreateStep,
       Reg!Count, Reg!Pick, Reg!Evict,
       Reg!CountRows, Reg!SelectRows, Reg!EvictRow, Reg!RowsEvicted, Reg!Insert,
       Reg!Persist, Reg!Register, Reg!UseStep,
       Reg!Load, Reg!LoadStale, Reg!Admit, Reg!Use, Reg!Poll, Reg!Stop, Reg!Act,
       Reg!Refill, Reg!Return, Reg!counters
  <2>2. q = p \/ q = Reg!Reaper
    <3>1. regPc[q] # "idle"
      BY <1>3 DEF Reg!Step, Reg!Reclaim, Reg!StopIdle, Reg!StopStale, Reg!CreateStep,
         Reg!Count, Reg!Pick, Reg!Evict,
         Reg!CountRows, Reg!SelectRows, Reg!EvictRow, Reg!RowsEvicted, Reg!Insert,
         Reg!Persist, Reg!Register, Reg!UseStep,
         Reg!Load, Reg!LoadStale, Reg!Admit, Reg!Use, Reg!Refill
    <3> QED BY <1>0, <1>2, <2>1, <3>1 DEF Room
  <2> QED BY <1>2, <1>3, <2>1, <2>2, RoomOwn, RoomReaped
<1>4. CASE Reg!Reap
  BY <1>2, <1>4, RoomReaped DEF Reg!Reap, Reg!counters
<1>5. CASE Reg!Tick \/ UNCHANGED Reg!vars
  <2>1. UNCHANGED <<rowStat, stat, inMap, Reg!procVars, Reg!counters>>
    BY <1>5 DEF Reg!Tick, Reg!vars, Reg!rowVars, Reg!liveVars
  <2>2. /\ p \in alone /\ UNCHANGED <<regPc, at, scope, ids, room, todo>>
    BY <2>1 DEF Reg!procVars, Reg!counters
  <2> QED BY <1>2, <2>1, <2>2, SameActive, RoomFrame DEF Room
<1>6. CASE Reg!Restart
  BY <1>6 DEF Reg!Restart
<1> QED BY <1>1, <1>3, <1>4, <1>5, <1>6 DEF Reg!Next

(***************************************************************************)
(* The create that registers leaves everybody within the caps.             *)
(***************************************************************************)
LEMMA RoomTaken ==
  ASSUME Reg!SessionsFit, Reg!CapsFit, RegistryType, RoomInv,
         NEW p \in alone, Reg!Register(p), NEW u, u = Owner[at[p]]
  PROVE  Reg!WithinCaps(u)'
<1>1. p \in Reg!Callers /\ p \in Reg!Procs /\ Room(p) /\ regPc[p] = "register"
  BY DEF RegistryType, ControlType, RoomInv, Reg!Register, Reg!Procs
<1>2. PICK l \in todo[p] : Reg!Enter(l, stat[l])
  BY DEF Reg!Register
<1>3. /\ todo[p] = {l} /\ NewRow(p) = {at[p]} /\ Fresh(p) = {l} /\ UNCHANGED rowStat
  BY <1>1, <1>2 DEF Room, Fresh, NewRow, Reg!Register, Reg!rowVars
<1>4. Reg!Active' \subseteq Reg!Active \cup {l}
  <2>1. l \in Reg!Lives
    BY <1>1 DEF RegistryType, ControlType
  <2> SUFFICES ASSUME NEW m \in Reg!Active', m # l PROVE m \in Reg!Active
    OBVIOUS
  <2>2. m \in Reg!Lives /\ inMap'[m[1]] = m[2] /\ stat'[m] = "active"
    BY DEF Reg!Active, Reg!Registered, Reg!Lives
  <2>3. stat[m] = "active"
    BY <1>2, <2>2 DEF Reg!Enter
  <2>4. m[1] # l[1]
    <3> SUFFICES ASSUME m[1] = l[1] PROVE FALSE
      OBVIOUS
    <3>1. m[2] = l[2]
      BY <1>2, <2>1, <2>2 DEF Reg!Enter, RegistryType, Reg!Lives
    <3> QED BY <2>1, <2>2, <3>1 DEF Reg!Lives
  <2>5. inMap[m[1]] = m[2]
    BY <1>2, <2>2, <2>4 DEF Reg!Enter, RegistryType, Reg!Lives
  <2> QED BY <2>2, <2>3, <2>5 DEF Reg!Active, Reg!Registered
<1>5. ActiveOf(u)' \subseteq ActiveOf(u) \cup {l}
  BY <1>4 DEF ActiveOf
<1>6. Reg!ActiveRows(u)' \subseteq Reg!ActiveRows(u) \cup {at[p]}
  BY <1>3 DEF Reg!ActiveRows
<1>7. /\ IsFiniteSet(ActiveOf(u)) /\ IsFiniteSet(Reg!Active)
      /\ IsFiniteSet(Reg!ActiveRows(u))
      /\ MaxPerUser \in Int /\ MaxConcurrent \in Int
  BY ActiveFinite DEF Reg!CapsFit
<1>8. /\ Cardinality(ActiveOf(u) \ {l}) < MaxPerUser
      /\ Cardinality(Reg!ActiveRows(u) \ {at[p]}) < MaxPerUser
      /\ Cardinality(Reg!Active \ {l}) < MaxConcurrent
  BY <1>1, <1>3 DEF Room, UserRoom, RowRoom, AllRoom
<1>9. /\ Cardinality(ActiveOf(u)') <= MaxPerUser
      /\ Cardinality(Reg!ActiveRows(u)') <= MaxPerUser
      /\ Cardinality(Reg!Active') <= MaxConcurrent
  BY <1>4, <1>5, <1>6, <1>7, <1>8, OneMore
<1> QED BY <1>9, SameCount DEF Reg!WithinCaps, ActiveOf

(***************************************************************************)
(* At first there is no session and no request.                            *)
(***************************************************************************)
LEMMA RegistryInit ==
  ASSUME Reg!SessionsFit, Reg!Init
  PROVE  RegistryType /\ RoomInv
BY DEF Reg!SessionsFit, Reg!Init, RegistryType, ControlType, Reg!Statuses, RoomInv,
   Reg!Procs,
   Reg!Callers, Reg!Reaper

(***************************************************************************)
(* A create that no other request overlaps leaves its user within the cap, *)
(* in memory and in the rows, and all users within the global one,         *)
(* whatever was there before: sessions a restart left in the rows only,    *)
(* Live objects outside the map, and the reaper at work meanwhile          *)
(* (ensureCapacity).                                                       *)
(***************************************************************************)
THEOREM CapsAreKept ==
  ASSUME Reg!SessionsFit, Reg!CapsFit
  PROVE  Reg!Spec => Reg!CapsHold
<1>1. RegistryType /\ RoomInv /\ [Reg!Next]_(Reg!vars) => RegistryType' /\ RoomInv'
  BY RegistryTypeStep, RoomStep
<1>2. /\ RegistryType /\ RoomInv /\ [Reg!Next]_(Reg!vars)
      => [\A p \in Reg!Callers, u \in Users :
            Reg!Register(p) /\ p \in alone /\ u = Owner[at[p]]
              => Reg!WithinCaps(u)']_(Reg!vars)
  BY RoomTaken
<1> QED BY <1>1, <1>2, RegistryInit, PTL DEF Reg!Spec, Reg!CapsHold

=============================================================================
