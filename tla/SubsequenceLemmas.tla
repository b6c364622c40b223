-------------------------- MODULE SubsequenceLemmas -------------------------
(* Least numbers, places in a set of numbers, and what is kept of a list: what
   several of the proofs rest on. *)
EXTENDS Subsequence, TLAPS, FiniteSetTheorems, WellFoundedInduction, SequenceTheorems

(* A set of naturals that is not empty has a least element: the intervals
   1..k of its elements are finite sets, and inclusion among those is
   well-founded. *)
LEMMA Smallest ==
    ASSUME NEW S \in SUBSET Nat, S # {}
    PROVE  \E i \in S : \A j \in S : i <= j
<1> DEFINE upto == {1..k : k \in S}
<1>1. upto \subseteq FiniteSubsetsOf(Nat)
  BY FS_Interval DEF FiniteSubsetsOf
<1>2. \E x \in upto : \A y \in upto : << y, x >> \notin StrictSubsetOrdering(Nat)
  <2> HIDE DEF upto
  <2>1. upto # {}
    BY DEF upto
  <2>2. IsWellFoundedOn(StrictSubsetOrdering(Nat), FiniteSubsetsOf(Nat))
    BY FS_StrictSubsetOrderingWellFounded
  <2>3. QED BY <1>1, <2>1, <2>2, WFMin
<1>3. PICK i \in S : \A j \in S : << 1..j, 1..i >> \notin StrictSubsetOrdering(Nat)
  BY <1>2
<1>4. ASSUME NEW j \in S, j < i PROVE FALSE
  <2>1. 1..j \subseteq 1..i /\ i \in 1..i /\ i \notin 1..j
    BY <1>4
  <2>2. 1..j \in SUBSET Nat /\ 1..i \in SUBSET Nat /\ 1..j # 1..i
    BY <2>1
  <2>3. << 1..j, 1..i >> \in StrictSubsetOrdering(Nat)
    BY <2>1, <2>2 DEF StrictSubsetOrdering
  <2>4. QED BY <2>3, <1>3
<1>5. QED BY <1>4

(* A number of a finite set has a place between one and the set's size. *)
LEMMA PlaceInSet ==
    ASSUME NEW S \in SUBSET Nat, IsFiniteSet(S), NEW y \in S
    PROVE  Place(y, S) \in 1..Cardinality(S)
<1> DEFINE below == {m \in S : m <= y}
<1>1. below \in SUBSET S /\ y \in below
  OBVIOUS
<1>2. /\ IsFiniteSet(below) /\ Cardinality(below) <= Cardinality(S)
      /\ Cardinality(below) \in Nat /\ Cardinality(S) \in Nat
  BY <1>1, FS_Subset, FS_CardinalityType
<1>3. Cardinality(below) # 0
  BY <1>1, <1>2, FS_EmptySet
<1>4. QED BY <1>2, <1>3 DEF Place

(* A number beyond a set takes the place after the last, and moves no other. *)
LEMMA PlaceOfNext ==
    ASSUME NEW S \in SUBSET Nat, IsFiniteSet(S), NEW x \in Nat, \A y \in S : y < x,
           NEW T, T = S \cup {x}
    PROVE  /\ IsFiniteSet(T) /\ Cardinality(T) = Cardinality(S) + 1
           /\ Place(x, T) = Cardinality(S) + 1
           /\ \A y \in S : Place(y, T) = Place(y, S) /\ Place(y, S) \in 1..Cardinality(S)
<1>1. x \notin S
  OBVIOUS
<1>2. IsFiniteSet(T) /\ Cardinality(T) = Cardinality(S) + 1
  BY <1>1, FS_AddElement
<1>3. {m \in T : m <= x} = T
  <2>1. \A m \in T : m <= x
    OBVIOUS
  <2>2. QED BY <2>1
<1>4. ASSUME NEW y \in S PROVE {m \in T : m <= y} = {m \in S : m <= y}
  OBVIOUS
<1>5. QED BY <1>2, <1>3, <1>4, PlaceInSet DEF Place

(* A larger number stands further back. *)
LEMMA PlaceGrows ==
    ASSUME NEW S \in SUBSET Nat, IsFiniteSet(S), NEW x \in S, NEW y \in S, x < y
    PROVE  Place(x, S) < Place(y, S)
<1> DEFINE low == {m \in S : m <= x}
           high == {m \in S : m <= y}
<1>1. low \in SUBSET high /\ y \in high /\ y \notin low /\ high \in SUBSET S
  <2>1. \A m \in S : m \in Nat
    OBVIOUS
  <2>2. \A m \in S : m <= x => m <= y
    BY <2>1
  <2>3. y <= y /\ ~(y <= x)
    BY <2>1
  <2>4. QED BY <2>2, <2>3
<1>2. IsFiniteSet(high) /\ IsFiniteSet(low)
  BY <1>1, FS_Subset
<1>3. low \cup {y} \in SUBSET high
  BY <1>1
<1>4. IsFiniteSet(low \cup {y}) /\ Cardinality(low \cup {y}) = Cardinality(low) + 1
  BY <1>1, <1>2, FS_AddElement
<1>5. Cardinality(low \cup {y}) <= Cardinality(high)
  BY <1>2, <1>3, FS_Subset
<1>6. Cardinality(low) \in Nat /\ Cardinality(high) \in Nat
  BY <1>2, FS_CardinalityType
<1>7. QED BY <1>4, <1>5, <1>6 DEF Place

(* Every place up to the size of a set is taken, by one number. *)
LEMMA PlaceTaken ==
    ASSUME NEW S \in SUBSET Nat, IsFiniteSet(S), NEW k \in 1..Cardinality(S)
    PROVE  \E n \in S : Place(n, S) = k
<1> DEFINE size == Cardinality(S)
           place == [n \in S |-> Place(n, S)]
<1>1. size \in Nat
  BY FS_CardinalityType
<1>2. place \in [S -> 1..size]
  BY PlaceInSet
<1>3. ASSUME NEW x \in S, NEW y \in S, place[x] = place[y] PROVE x = y
  <2>1. Place(x, S) = Place(y, S) /\ Place(x, S) \in Nat /\ Place(y, S) \in Nat
    BY <1>3, <1>1, PlaceInSet
  <2>2. ~(x < y) /\ ~(y < x)
    BY <2>1, PlaceGrows
  <2>3. QED BY <2>2
<1>4. place \in Injection(S, 1..size)
  BY <1>2, <1>3 DEF Injection, IsInjective
<1>5. IsFiniteSet(1..size) /\ Cardinality(1..size) = size
  BY <1>1, FS_Interval
<1>6. place \in Surjection(S, 1..size)
  BY <1>4, <1>5, FS_Injection
<1>7. PICK n \in S : place[n] = k
  BY <1>6 DEF Surjection
<1>8. QED BY <1>7

(* Numbers that share a place are one. *)
LEMMA PlaceIsOwn ==
    ASSUME NEW S \in SUBSET Nat, IsFiniteSet(S), NEW x \in S, NEW y \in S,
           Place(x, S) = Place(y, S)
    PROVE  x = y
<1>1. Place(x, S) \in Nat /\ Place(y, S) \in Nat
  BY PlaceInSet, FS_CardinalityType
<1>2. ~(x < y) /\ ~(y < x)
  BY <1>1, PlaceGrows
<1>3. QED BY <1>2

-----------------------------------------------------------------------------
(* Places of a list are finitely many. *)
LEMMA PlacesFinite ==
    ASSUME NEW T, NEW s \in Seq(T), NEW S \in SUBSET DOMAIN s
    PROVE  /\ S \in SUBSET Nat /\ IsFiniteSet(S)
           /\ Cardinality(S) \in Nat /\ Cardinality(S) <= Len(s)
<1>1. PICK length \in Nat : length = Len(s) /\ DOMAIN s = 1..length
  BY LenProperties
<1>2. IsFiniteSet(1..length) /\ Cardinality(1..length) = length
  BY FS_Interval
<1>3. S \in SUBSET (1..length)
  BY <1>1
<1>4. QED BY <1>1, <1>2, <1>3, FS_Subset, FS_CardinalityType

(* What is kept of a list is a list as long as its places are many, with each
   entry where its place is. *)
LEMMA KeptEntries ==
    ASSUME NEW T, NEW s \in Seq(T), NEW S \in SUBSET DOMAIN s
    PROVE  /\ Kept(s, S) \in Seq(T)
           /\ Len(Kept(s, S)) = Cardinality(S) /\ Cardinality(S) \in Nat
           /\ \A n \in S : /\ Place(n, S) \in 1..Cardinality(S)
                           /\ Kept(s, S)[Place(n, S)] = s[n]
           /\ \A k \in 1..Cardinality(S) :
                  \E n \in S : Place(n, S) = k /\ Kept(s, S)[k] = s[n]
<1> DEFINE size == Cardinality(S)
           at(k) == CHOOSE n \in S : Place(n, S) = k
<1>1. S \in SUBSET Nat /\ IsFiniteSet(S) /\ size \in Nat
  BY PlacesFinite
<1>2. ASSUME NEW k \in 1..size PROVE at(k) \in S /\ Place(at(k), S) = k
  BY <1>1, PlaceTaken
<1>3. \A n \in S : s[n] \in T
  BY LenProperties, ElementOfSeq
<1>4. Kept(s, S) = [k \in 1..size |-> s[at(k)]]
  BY DEF Kept
<1>5. Kept(s, S) \in [1..size -> T]
  <2> HIDE DEF at, size
  <2>1. QED BY <1>2, <1>3, <1>4
<1>6. Kept(s, S) \in Seq(T) /\ Len(Kept(s, S)) = size
  <2> HIDE DEF at, size
  <2>1. \A k \in 1..size : Kept(s, S)[k] \in T
    BY <1>5
  <2>2. Kept(s, S) = [k \in 1..size |-> Kept(s, S)[k]]
    BY <1>4
  <2>3. QED BY <1>1, <1>5
<1>7. ASSUME NEW n \in S PROVE Place(n, S) \in 1..size /\ Kept(s, S)[Place(n, S)] = s[n]
  <2>1. Place(n, S) \in 1..size
    BY <1>1, PlaceInSet
  <2>2. at(Place(n, S)) \in S /\ Place(at(Place(n, S)), S) = Place(n, S)
    BY <2>1, <1>2
  <2>3. at(Place(n, S)) = n
    <3> HIDE DEF at
    <3>1. QED BY <1>1, <2>2, PlaceIsOwn
  <2> HIDE DEF at, size
  <2>4. QED BY <1>4, <2>1, <2>3
<1>8. ASSUME NEW k \in 1..size PROVE \E n \in S : Place(n, S) = k /\ Kept(s, S)[k] = s[n]
  <2> HIDE DEF at, size
  <2>1. QED BY <1>2, <1>4
<1>9. QED BY <1>1, <1>6, <1>7, <1>8

(* A list with these entries in these places is what is kept. *)
LEMMA KeptIsOnly ==
    ASSUME NEW T, NEW s \in Seq(T), NEW S \in SUBSET DOMAIN s, NEW r \in Seq(T),
           Len(r) = Cardinality(S), \A n \in S : r[Place(n, S)] = s[n]
    PROVE  r = Kept(s, S)
<1>1. /\ Kept(s, S) \in Seq(T) /\ Len(Kept(s, S)) = Cardinality(S) /\ Cardinality(S) \in Nat
      /\ \A k \in 1..Cardinality(S) :
             \E n \in S : Place(n, S) = k /\ Kept(s, S)[k] = s[n]
  BY KeptEntries
<1>2. \A k \in 1..Len(r) : r[k] = Kept(s, S)[k]
  BY <1>1
<1>3. QED BY <1>1, <1>2, SeqEqual

(* The first entry kept of those with a value in V is the first one there was. *)
LEMMA FirstOfKept ==
    ASSUME NEW T, NEW s \in Seq(T), NEW S \in SUBSET DOMAIN s, NEW V,
           NEW m \in S, s[m] \in V, \A n \in S : s[n] \in V => m <= n
    PROVE  /\ Place(m, S) \in 1..Cardinality(S) /\ Kept(s, S)[Place(m, S)] = s[m]
           /\ \A k \in 1..Cardinality(S) : Kept(s, S)[k] \in V => Place(m, S) <= k
<1>1. S \in SUBSET Nat /\ IsFiniteSet(S) /\ Cardinality(S) \in Nat
  BY PlacesFinite
<1>2. Place(m, S) \in 1..Cardinality(S) /\ Kept(s, S)[Place(m, S)] = s[m]
  BY KeptEntries
<1>3. ASSUME NEW k \in 1..Cardinality(S), Kept(s, S)[k] \in V PROVE Place(m, S) <= k
  <2>1. PICK n \in S : Place(n, S) = k /\ Kept(s, S)[k] = s[n]
    BY KeptEntries
  <2>2. m <= n
    BY <1>3, <2>1
  <2>3. CASE m = n
    BY <1>1, <1>2, <2>1, <2>3
  <2>4. CASE m # n
    <3>1. m < n
      BY <1>1, <2>2, <2>4
    <3>2. Place(m, S) < Place(n, S)
      BY <1>1, <3>1, PlaceGrows
    <3>3. QED BY <1>1, <1>2, <2>1, <3>2
  <2>5. QED BY <2>3, <2>4
<1>4. QED BY <1>2, <1>3

(* The least number of a set stands first. *)
LEMMA PlaceOfLeast ==
    ASSUME NEW S \in SUBSET Nat, NEW m \in S, \A n \in S : m <= n
    PROVE  Place(m, S) = 1
<1>1. {n \in S : n <= m} = {m}
  <2>1. \A n \in S : n <= m => n = m
    <3>1. \A n \in S : n \in Nat /\ m \in Nat /\ m <= n
      OBVIOUS
    <3>2. QED BY <3>1
  <2>2. m <= m
    OBVIOUS
  <2>3. QED BY <2>1, <2>2
<1>2. QED BY <1>1, FS_Singleton DEF Place

(* The front of a list has its first entries. *)
LEMMA FrontEntries ==
    ASSUME NEW T, NEW s \in Seq(T), NEW k \in 0..Len(s)
    PROVE  /\ SubSeq(s, 1, k) \in Seq(T) /\ Len(SubSeq(s, 1, k)) = k
           /\ DOMAIN SubSeq(s, 1, k) = 1..k /\ k \in Nat
           /\ \A n \in 1..k : SubSeq(s, 1, k)[n] = s[n]
<1>1. k \in Nat /\ k <= Len(s) /\ Len(s) \in Nat
  BY LenProperties
<1>2. \A n \in 1..k : s[n] \in T
  BY <1>1, ElementOfSeq
<1>3. /\ SubSeq(s, 1, k) \in Seq(T)
      /\ Len(SubSeq(s, 1, k)) = IF 1 <= k THEN k - 1 + 1 ELSE 0
      /\ \A n \in 1..(k - 1 + 1) : SubSeq(s, 1, k)[n] = s[1 + n - 1]
  BY <1>1, <1>2, SubSeqProperties
<1>4. Len(SubSeq(s, 1, k)) = k
  BY <1>1, <1>3
<1>5. \A n \in 1..k : SubSeq(s, 1, k)[n] = s[n]
  <2>1. \A n \in 1..k : 1 + n - 1 = n /\ n \in 1..(k - 1 + 1)
    BY <1>1
  <2>2. QED BY <1>3, <2>1
<1>6. QED BY <1>1, <1>3, <1>4, <1>5, LenProperties

(* What is kept of the front of a list is the front of what is kept. *)
LEMMA KeptOfFront ==
    ASSUME NEW T, NEW s \in Seq(T), NEW S \in SUBSET DOMAIN s, NEW k \in 0..Len(s),
           NEW F \in SUBSET S, \A n \in S : n \in F <=> n <= k,
           NEW front \in Seq(T), Len(front) = k, \A n \in 1..k : front[n] = s[n]
    PROVE  \A j \in 1..Cardinality(F) : Kept(front, F)[j] = Kept(s, S)[j]
<1>1. PICK length \in Nat : length = Len(s) /\ DOMAIN s = 1..length /\ k \in 0..length
  BY LenProperties
<1>2. front \in Seq(T) /\ Len(front) = k /\ \A n \in 1..k : front[n] = s[n]
  OBVIOUS
<1>3. DOMAIN front = 1..k
  BY <1>2, LenProperties
<1>5. F \in SUBSET DOMAIN front /\ F \in SUBSET S
  BY <1>1, <1>3
<1>6. /\ S \in SUBSET Nat /\ IsFiniteSet(S) /\ Cardinality(S) \in Nat
      /\ IsFiniteSet(F) /\ Cardinality(F) \in Nat /\ Cardinality(F) <= Cardinality(S)
  BY <1>5, PlacesFinite, FS_Subset, FS_CardinalityType
<1>7. PICK few \in Nat, many \in Nat : few = Cardinality(F) /\ many = Cardinality(S) /\ few <= many
  BY <1>6
<1>8. \A n \in F : Place(n, F) = Place(n, S)
  <2>1. SUFFICES ASSUME NEW n \in F PROVE {m \in F : m <= n} = {m \in S : m <= n}
    BY DEF Place
  <2>2. \A m \in S : m <= n => m <= k
    <3>1. n \in Nat /\ n <= k /\ k \in Nat
      BY <1>1, <1>5, <1>6
    <3>2. \A m \in S : m \in Nat
      BY <1>6
    <3>3. QED BY <3>1, <3>2
  <2>3. QED BY <2>2
<1> DEFINE r == SubSeq(Kept(s, S), 1, few)
<1>9. /\ Kept(s, S) \in Seq(T) /\ Len(Kept(s, S)) = many
      /\ \A n \in S : Place(n, S) \in 1..many /\ Kept(s, S)[Place(n, S)] = s[n]
  BY <1>7, KeptEntries
<1>10. r \in Seq(T) /\ Len(r) = few /\ \A i \in 1..few : r[i] = Kept(s, S)[i]
  <2>1. few \in 0..Len(Kept(s, S))
    BY <1>7, <1>9
  <2>2. QED BY <1>9, <2>1, FrontEntries
<1> HIDE DEF r
<1>11. \A n \in F : r[Place(n, F)] = front[n]
  <2>1. SUFFICES ASSUME NEW n \in F PROVE r[Place(n, F)] = front[n]
    OBVIOUS
  <2>2. Place(n, F) \in 1..few
    BY <1>5, <1>6, <1>7, PlaceInSet
  <2>3. r[Place(n, F)] = Kept(s, S)[Place(n, S)]
    BY <1>8, <1>10, <2>2
  <2>4. Kept(s, S)[Place(n, S)] = s[n]
    BY <1>5, <1>9
  <2>5. front[n] = s[n]
    BY <1>2, <1>3, <1>5
  <2>6. QED BY <2>3, <2>4, <2>5
<1>12. r = Kept(front, F)
  BY <1>2, <1>5, <1>7, <1>10, <1>11, KeptIsOnly
<1>13. QED BY <1>7, <1>10, <1>12

(* A finite set that is not empty has a largest number. *)
LEMMA Largest ==
    ASSUME NEW S \in SUBSET Nat, IsFiniteSet(S), S # {}
    PROVE  \E x \in S : \A y \in S \ {x} : y < x
<1>1. PICK size \in Nat : size = Cardinality(S) /\ size # 0
  BY FS_CardinalityType, FS_EmptySet
<1>2. PICK x \in S : Place(x, S) = size
  <2>1. size \in 1..Cardinality(S)
    BY <1>1
  <2>2. QED BY <2>1, PlaceTaken
<1>3. ASSUME NEW y \in S \ {x} PROVE y < x
  <2>1. Place(y, S) \in 1..size
    BY <1>1, PlaceInSet
  <2>2. ~(x < y)
    <3>1. SUFFICES ASSUME x < y PROVE FALSE
      OBVIOUS
    <3>2. Place(x, S) < Place(y, S)
      BY <3>1, PlaceGrows
    <3>3. QED BY <1>1, <1>2, <2>1, <3>2
  <2>3. x \in Nat /\ y \in Nat /\ x # y
    OBVIOUS
  <2>4. QED BY <2>2, <2>3
<1>4. QED BY <1>3

(* With a place more at the end, an entry more is kept at the end. *)
LEMMA KeptWithNext ==
    ASSUME NEW T, NEW s \in Seq(T), NEW S \in SUBSET DOMAIN s, NEW x \in DOMAIN s,
           \A y \in S : y < x
    PROVE  Kept(s, S \cup {x}) = Append(Kept(s, S), s[x])
<1> DEFINE U == S \cup {x}
<1>1. /\ S \in SUBSET Nat /\ IsFiniteSet(S) /\ Cardinality(S) \in Nat
      /\ x \in Nat /\ s[x] \in T
  BY PlacesFinite, LenProperties, ElementOfSeq
<1>2. /\ Cardinality(U) = Cardinality(S) + 1 /\ Place(x, U) = Cardinality(S) + 1
      /\ \A y \in S : Place(y, U) = Place(y, S) /\ Place(y, S) \in 1..Cardinality(S)
  BY <1>1, PlaceOfNext
<1>3. PICK size \in Nat, old \in Seq(T) :
          /\ size = Cardinality(S) /\ old = Kept(s, S) /\ Len(old) = size
          /\ \A n \in S : old[Place(n, S)] = s[n]
  BY KeptEntries
<1> DEFINE r == Append(old, s[x])
<1>4. /\ r \in Seq(T) /\ Len(r) = size + 1 /\ r[size + 1] = s[x]
      /\ \A k \in 1..size : r[k] = old[k]
  BY <1>1, <1>3, AppendProperties
<1> HIDE DEF r
<1>5. U \in SUBSET DOMAIN s /\ \A n \in U : n \in S \/ n = x
  OBVIOUS
<1> HIDE DEF U
<1>6. \A n \in U : r[Place(n, U)] = s[n]
  <2>1. ASSUME NEW n \in S PROVE r[Place(n, U)] = s[n]
    BY <1>2, <1>3, <1>4
  <2>2. r[Place(x, U)] = s[x]
    BY <1>2, <1>3, <1>4
  <2>3. QED BY <1>5, <2>1, <2>2
<1>7. r = Kept(s, U)
  BY <1>2, <1>3, <1>4, <1>5, <1>6, KeptIsOnly
<1>8. QED BY <1>3, <1>7 DEF r, U

(* What is kept ends with the entry at x; before it is what the others keep. *)
EndsAt(s, S, x) ==
    /\ \A y \in S \ {x} : y < x
    /\ Cardinality(S) = Cardinality(S \ {x}) + 1
    /\ Len(Kept(s, S \ {x})) = Cardinality(S \ {x})
    /\ \A k \in 1..Cardinality(S \ {x}) : Kept(s, S)[k] = Kept(s, S \ {x})[k]
    /\ Kept(s, S)[Cardinality(S)] = s[x]

(* It ends with the entry of the largest place. *)
LEMMA KeptLast ==
    ASSUME NEW T, NEW s \in Seq(T), NEW S \in SUBSET DOMAIN s, S # {}
    PROVE  \E x \in S : EndsAt(s, S, x) /\ Kept(s, S \ {x}) \in Seq(T)
<1>1. S \in SUBSET Nat /\ IsFiniteSet(S)
  BY PlacesFinite
<1>2. PICK x \in S : \A y \in S \ {x} : y < x
  BY <1>1, Largest
<1>3. PICK R : R = S \ {x}
  OBVIOUS
<1>4. R \in SUBSET DOMAIN s /\ x \in DOMAIN s /\ S = R \cup {x} /\ x \notin R
  BY <1>2, <1>3
<1>5. PICK size \in Nat, old \in Seq(T) : size = Cardinality(R) /\ old = Kept(s, R) /\ Len(old) = size
  BY <1>4, KeptEntries
<1>6. Cardinality(S) = size + 1
  <2>1. IsFiniteSet(R)
    BY <1>1, <1>3, FS_Subset
  <2>2. QED BY <1>4, <1>5, <2>1, FS_AddElement
<1>7. Kept(s, S) = Append(old, s[x])
  BY <1>2, <1>3, <1>4, <1>5, KeptWithNext
<1>8. s[x] \in T
  BY <1>4, LenProperties, ElementOfSeq
<1>9. Append(old, s[x])[size + 1] = s[x] /\ \A k \in 1..size : Append(old, s[x])[k] = old[k]
  BY <1>5, <1>8, AppendProperties
<1>10. QED BY <1>2, <1>3, <1>5, <1>6, <1>7, <1>9 DEF EndsAt

(* Two lists keep the same, and end it with x and y. *)
EndAlike(s, S, x, r, R, y) ==
    /\ \A z \in S \ {x} : z < x
    /\ \A z \in R \ {y} : z < y
    /\ s[x] = r[y] /\ Kept(s, S \ {x}) = Kept(r, R \ {y})
    /\ Cardinality(S) = Cardinality(S \ {x}) + 1

(* Lists that keep the same end it with the same entry. *)
LEMMA KeptAlike ==
    ASSUME NEW T, NEW s \in Seq(T), NEW S \in SUBSET DOMAIN s, S # {},
           NEW r \in Seq(T), NEW R \in SUBSET DOMAIN r, Kept(s, S) = Kept(r, R)
    PROVE  \E x \in S, y \in R : EndAlike(s, S, x, r, R, y)
<1>1. Len(Kept(s, S)) = Cardinality(S) /\ Len(Kept(r, R)) = Cardinality(R)
  BY KeptEntries
<1>2. R # {}
  <2>1. IsFiniteSet(S)
    BY PlacesFinite
  <2>2. Cardinality(S) # 0
    BY <2>1, FS_EmptySet
  <2>3. QED BY <1>1, <2>2, FS_EmptySet
<1>3. PICK x \in S : EndsAt(s, S, x) /\ Kept(s, S \ {x}) \in Seq(T)
  BY KeptLast
<1>4. PICK y \in R : EndsAt(r, R, y) /\ Kept(r, R \ {y}) \in Seq(T)
  BY <1>2, KeptLast
<1>5. s[x] = r[y]
  BY <1>1, <1>3, <1>4 DEF EndsAt
<1>6. Kept(s, S \ {x}) = Kept(r, R \ {y})
  <2>1. PICK one \in Seq(T), two \in Seq(T), n \in Nat, m \in Nat :
            /\ one = Kept(s, S \ {x}) /\ two = Kept(r, R \ {y})
            /\ n = Cardinality(S \ {x}) /\ m = Cardinality(R \ {y})
            /\ Len(one) = n /\ Len(two) = m
    BY <1>3, <1>4, LenProperties DEF EndsAt
  <2>2. n + 1 = m + 1
    BY <1>1, <1>3, <1>4, <2>1 DEF EndsAt
  <2>3. n = m
    BY <2>2
  <2>4. \A k \in 1..n : one[k] = two[k]
    BY <1>3, <1>4, <2>1, <2>3 DEF EndsAt
  <2>5. QED BY <2>1, <2>3, <2>4, SeqEqual
<1>7. QED BY <1>3, <1>4, <1>5, <1>6 DEF EndsAt, EndAlike

(* Entries more at the end change nothing of what is kept of the others. *)
LEMMA KeptOfLonger ==
    ASSUME NEW T, NEW s \in Seq(T), NEW S \in SUBSET DOMAIN s,
           NEW r \in Seq(T), Len(s) <= Len(r), \A k \in DOMAIN s : r[k] = s[k]
    PROVE  S \in SUBSET DOMAIN r /\ Kept(r, S) = Kept(s, S)
<1>1. PICK length \in Nat, longer \in Nat :
          /\ length = Len(s) /\ DOMAIN s = 1..length
          /\ longer = Len(r) /\ DOMAIN r = 1..longer
  BY LenProperties
<1>2. S \in SUBSET DOMAIN r
  BY <1>1
<1>3. /\ Kept(s, S) \in Seq(T) /\ Len(Kept(s, S)) = Cardinality(S)
      /\ \A n \in S : Kept(s, S)[Place(n, S)] = s[n]
  BY KeptEntries
<1>4. \A n \in S : Kept(s, S)[Place(n, S)] = r[n]
  BY <1>3
<1>5. Kept(s, S) = Kept(r, S)
  BY <1>2, <1>3, <1>4, KeptIsOnly
<1>6. QED BY <1>2, <1>5

-----------------------------------------------------------------------------
(* Induction over the naturals, and over pairs by their sum, with the set of
   what the claim holds of in place of the claim. *)
LEMMA EveryNatural ==
    ASSUME NEW G, 0 \in G, \A n \in Nat : n \in G => n + 1 \in G
    PROVE  \A n \in Nat : n \in G
<1> DEFINE bad == {n \in Nat : n \notin G}
<1>1. SUFFICES ASSUME bad # {} PROVE FALSE
  OBVIOUS
<1>2. PICK n \in bad : \A k \in bad : n <= k
  <2>1. bad \in SUBSET Nat
    OBVIOUS
  <2> HIDE DEF bad
  <2>2. QED BY <1>1, <2>1, Smallest
<1>3. n \in Nat /\ n \notin G /\ n # 0
  OBVIOUS
<1>4. n - 1 \in Nat /\ ~(n <= n - 1) /\ (n - 1) + 1 = n
  BY <1>3
<1>5. n - 1 \in G
  BY <1>2, <1>4
<1>6. QED BY <1>3, <1>4, <1>5

(* Induction over the pairs of a rectangle by the sum of their entries. *)
LEMMA PairsBySum ==
    ASSUME NEW m \in Nat, NEW n \in Nat, NEW G,
           \A i \in 0..m, j \in 0..n :
               (\A a \in 0..m, b \in 0..n : a + b < i + j => << a, b >> \in G) => << i, j >> \in G
    PROVE  \A i \in 0..m, j \in 0..n : << i, j >> \in G
<1> DEFINE bad == {k \in Nat : \E i \in 0..m, j \in 0..n : k = i + j /\ << i, j >> \notin G}
<1>1. SUFFICES ASSUME bad # {} PROVE FALSE
  <2>1. SUFFICES ASSUME NEW i \in 0..m, NEW j \in 0..n, << i, j >> \notin G PROVE FALSE
    OBVIOUS
  <2>2. i + j \in bad
    <3>1. i + j \in Nat
      OBVIOUS
    <3>2. \E a \in 0..m, b \in 0..n : i + j = a + b /\ << a, b >> \notin G
      BY <2>1, Zenon
    <3>3. QED BY <3>1, <3>2
  <2>3. QED BY <1>1, <2>2
<1>2. PICK k \in bad : \A l \in bad : k <= l
  <2>1. bad \in SUBSET Nat
    OBVIOUS
  <2> HIDE DEF bad
  <2>2. QED BY <1>1, <2>1, Smallest
<1>3. PICK i \in 0..m, j \in 0..n : k = i + j /\ << i, j >> \notin G
  BY <1>2
<1>4. ASSUME NEW a \in 0..m, NEW b \in 0..n, a + b < i + j PROVE << a, b >> \in G
  <2>1. SUFFICES ASSUME << a, b >> \notin G PROVE FALSE
    OBVIOUS
  <2>2. a + b \in bad
    <3>1. a + b \in Nat
      OBVIOUS
    <3>2. \E c \in 0..m, d \in 0..n : a + b = c + d /\ << c, d >> \notin G
      BY <2>1, Zenon
    <3>3. QED BY <3>1, <3>2
  <2>3. a + b \in Nat /\ k \in Nat /\ k <= a + b
    BY <1>2, <2>2
  <2>4. QED BY <1>3, <1>4, <2>3
<1>5. QED BY <1>3, <1>4

(* The same for lists, by their last entry. *)
LEMMA EverySequence ==
    ASSUME NEW T, NEW G, << >> \in G,
           \A s \in Seq(T), x \in T : s \in G => Append(s, x) \in G
    PROVE  \A s \in Seq(T) : s \in G
<1> DEFINE good == {n \in Nat : \A s \in Seq(T) : Len(s) = n => s \in G}
<1>1. 0 \in good
  <2>1. \A s \in Seq(T) : Len(s) = 0 => s = << >>
    BY EmptySeq
  <2>2. QED BY <2>1
<1>2. ASSUME NEW n \in Nat, n \in good PROVE n + 1 \in good
  <2>1. SUFFICES ASSUME NEW s \in Seq(T), Len(s) = n + 1 PROVE s \in G
    OBVIOUS
  <2>2. s # << >>
    BY <2>1, EmptySeq
  <2>3. PICK t \in Seq(T), x \in T : s = Append(t, x)
    BY <2>2, SequenceEmptyOrAppend
  <2>4. Len(t) = n
    BY <2>1, <2>3, AppendProperties, LenProperties
  <2>5. t \in G
    BY <1>2, <2>4
  <2>6. QED BY <2>3, <2>5
<1> HIDE DEF good
<1>3. \A n \in Nat : n \in good
  BY <1>1, <1>2, EveryNatural
<1>4. SUFFICES ASSUME NEW s \in Seq(T) PROVE s \in G
  OBVIOUS
<1>5. Len(s) \in good
  BY <1>3, LenProperties
<1>6. QED BY <1>5 DEF good
=============================================================================
