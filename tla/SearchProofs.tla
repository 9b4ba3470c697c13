---------------------------- MODULE SearchProofs ----------------------------
(***************************************************************************)
(* Theorems about the patterns that choose among texts: Selection, Stages  *)
(* and TreeSearch, for every value of their constants.  What lists hold    *)
(* and in which order is proved first: a place of a sorted or filtered     *)
(* list is found by its rank, the number of places up to it, so no lemma   *)
(* needs an induction over sequences.                                      *)
(***************************************************************************)
EXTENDS Selection, Stages, TreeSearch, SequenceTheorems, FiniteSetTheorems, TLAPS

-----------------------------------------------------------------------------
(* Naturals.                                                               *)

(* A nonempty set of naturals has a least member. *)
LEMMA LeastNatural ==
  ASSUME NEW T, T \subseteq Nat, T # {}
  PROVE  \E x \in T : \A y \in T : x <= y
<1>1. PICK x \in T : \A y \in T : ~ (<<y, x>> \in OpToRel(<, Nat))
  BY NatLessThanWellFounded, WFMin
<1>2. \A y \in T : ~ (y < x)
  BY <1>1 DEF OpToRel
<1> QED BY <1>2

(* Induction, as a fact about a set: one with zero and all successors      *)
(* holds every natural.                                                    *)
LEMMA InductiveSet ==
  ASSUME NEW T, 0 \in T, \A n \in Nat : n \in T => n + 1 \in T
  PROVE  Nat \subseteq T
<1> SUFFICES ASSUME Nat \ T # {} PROVE FALSE
  OBVIOUS
<1>1. PICK x \in Nat \ T : \A y \in Nat \ T : x <= y
  BY LeastNatural
<1>2. x # 0 /\ x - 1 \in Nat /\ x = (x - 1) + 1
  BY <1>1
<1>3. x - 1 \in T
  BY <1>1, <1>2
<1> QED BY <1>1, <1>2, <1>3

(* A nonempty set of naturals with a bound has a greatest member. *)
LEMMA GreatestNatural ==
  ASSUME NEW n \in Nat, NEW T, T \subseteq 0..n, T # {}
  PROVE  \E x \in T : \A y \in T : y <= x
<1> DEFINE U == {n - x : x \in T}
<1>1. U \subseteq Nat /\ U # {}
  <2>1. \A x \in T : n - x \in Nat
    OBVIOUS
  <2> QED BY <2>1
<1>2. PICK u \in U : \A v \in U : u <= v
  BY <1>1, LeastNatural
<1>3. PICK x \in T : u = n - x
  OBVIOUS
<1>4. \A y \in T : n - x <= n - y
  BY <1>2, <1>3
<1>5. \A y \in T : y <= x
  BY <1>4
<1> QED BY <1>5

(* A finite set of numbered things has a member of largest value. *)
LEMMA LargestOf ==
  ASSUME NEW n \in Nat, NEW f, \A x \in 1..n : f[x] \in Int,
         NEW T, T \subseteq 1..n, T # {}
  PROVE  \E x \in T : \A y \in T : f[y] <= f[x]
<1> DEFINE Good(k) == k > n \/ \A V \in SUBSET (1..k) : V # {} =>
                        \E x \in V : \A y \in V : f[y] <= f[x]
           S == {k \in Nat : Good(k)}
<1>1. 0 \in S
  <2>1. 1..0 = {}
    OBVIOUS
  <2> QED BY <2>1
<1>2. ASSUME NEW k \in Nat, k \in S
      PROVE  k + 1 \in S
  <2> SUFFICES ASSUME k + 1 <= n, NEW V \in SUBSET (1..(k + 1)), V # {}
               PROVE  \E x \in V : \A y \in V : f[y] <= f[x]
    OBVIOUS
  <2>1. Good(k) /\ ~(k > n)
    BY <1>2
  <2>2. \A y \in V : f[y] \in Int
    OBVIOUS
  <2> DEFINE W == V \ {k + 1}
  <2>3. W \in SUBSET (1..k)
    OBVIOUS
  <2>4. CASE W = {}
    <3>1. \A x \in V : x = k + 1
      BY <2>4
    <3>2. PICK x \in V : x = k + 1
      BY <3>1
    <3>3. f[x] \in Int /\ \A y \in V : f[y] = f[x]
      BY <2>2, <3>1, <3>2
    <3> QED BY <3>3
  <2>5. CASE W # {}
    <3>1. PICK x \in W : \A y \in W : f[y] <= f[x]
      <4> HIDE DEF W
      <4> QED BY <2>1, <2>3, <2>5
    <3>2. CASE k + 1 \in V /\ f[x] < f[k + 1]
      <4>1. \A y \in V : f[y] <= f[k + 1]
        BY <2>2, <3>1, <3>2
      <4> QED BY <3>2, <4>1
    <3>3. CASE ~(k + 1 \in V /\ f[x] < f[k + 1])
      <4>1. \A y \in V : f[y] <= f[x]
        BY <2>2, <3>1, <3>3
      <4> QED BY <3>1, <4>1
    <3> QED BY <3>2, <3>3
  <2> QED BY <2>4, <2>5
<1> HIDE DEF S
<1>3. n \in S
  BY <1>1, <1>2, InductiveSet
<1>4. Good(n)
  BY <1>3 DEF S
<1> QED BY <1>4

-----------------------------------------------------------------------------
(* Orderings, and what lists hold.                                         *)

(* A strict total order of a set of places. *)
StrictTotal(I, order) ==
  /\ \A i \in I : <<i, i>> \notin order
  /\ \A i, j, k \in I : <<i, j>> \in order /\ <<j, k>> \in order =>
                          <<i, k>> \in order
  /\ \A i, j \in I : i = j \/ <<i, j>> \in order \/ <<j, i>> \in order

(* The rank of a place, the number of places up to it, grows with the      *)
(* order.                                                                  *)
LEMMA RankGrows ==
  ASSUME NEW I, IsFiniteSet(I), NEW order, StrictTotal(I, order)
  PROVE  /\ Cardinality(I) \in Nat
         /\ \A i \in I : Cardinality(UpTo(i, I, order)) \in 1..Cardinality(I)
         /\ \A i, j \in I : <<i, j>> \in order =>
              Cardinality(UpTo(i, I, order)) < Cardinality(UpTo(j, I, order))
<1> DEFINE U(i) == UpTo(i, I, order)
<1>0. Cardinality(I) \in Nat
  BY FS_CardinalityType
<1>1. \A i \in I : IsFiniteSet(U(i)) /\ Cardinality(U(i)) <= Cardinality(I)
                   /\ Cardinality(U(i)) \in Nat
  <2> TAKE i \in I
  <2>1. U(i) \subseteq I
    BY DEF UpTo
  <2> HIDE DEF U
  <2>2. IsFiniteSet(U(i)) /\ Cardinality(U(i)) <= Cardinality(I)
    BY <2>1, FS_Subset
  <2> QED BY <2>2, FS_CardinalityType
<1>2. \A i \in I : Cardinality(U(i)) # 0
  <2> TAKE i \in I
  <2>1. i \in U(i)
    BY DEF UpTo
  <2> HIDE DEF U
  <2> QED BY <1>1, <2>1, FS_EmptySet
<1>3. ASSUME NEW i \in I, NEW j \in I, <<i, j>> \in order
      PROVE  Cardinality(U(i)) < Cardinality(U(j))
  <2>1. U(i) \subseteq U(j)
    BY <1>3 DEF UpTo, StrictTotal
  <2>2. j \in U(j) /\ j \notin U(i)
    BY <1>3 DEF UpTo, StrictTotal
  <2> HIDE DEF U
  <2>3. U(i) # U(j)
    BY <2>2
  <2>4. Cardinality(U(i)) <= Cardinality(U(j))
        /\ (Cardinality(U(i)) = Cardinality(U(j)) => U(i) = U(j))
    BY <1>1, <2>1, FS_Subset
  <2> QED BY <1>1, <2>3, <2>4
<1> HIDE DEF U
<1>4. \A i \in I : Cardinality(U(i)) \in 1..Cardinality(I)
  BY <1>0, <1>1, <1>2
<1> QED BY <1>0, <1>3, <1>4 DEF U

(* Every number up to the size of the set is the rank of one place. *)
LEMMA EveryRank ==
  ASSUME NEW I, IsFiniteSet(I), NEW order, StrictTotal(I, order),
         NEW k \in 1..Cardinality(I)
  PROVE  \E i \in I : Cardinality(UpTo(i, I, order)) = k
<1> SUFFICES ASSUME \A i \in I : Cardinality(UpTo(i, I, order)) # k
             PROVE  FALSE
  OBVIOUS
<1> DEFINE n == Cardinality(I)
           T == (1..n) \ {k}
           p == [i \in I |-> Cardinality(UpTo(i, I, order))]
<1>1. n \in Nat
  BY RankGrows
<1>2. \A i \in I : p[i] \in T
  <2>1. \A i \in I : Cardinality(UpTo(i, I, order)) \in 1..n
    BY RankGrows
  <2> QED BY <2>1
<1>3. \A i, j \in I : p[i] = p[j] => i = j
  <2> SUFFICES ASSUME NEW i \in I, NEW j \in I, p[i] = p[j], i # j
               PROVE  FALSE
    OBVIOUS
  <2>1. /\ p[i] = Cardinality(UpTo(i, I, order)) /\ p[i] \in Int
        /\ p[j] = Cardinality(UpTo(j, I, order)) /\ p[j] \in Int
    BY <1>1, <1>2
  <2>2. <<i, j>> \in order \/ <<j, i>> \in order
    BY DEF StrictTotal
  <2>3. p[i] < p[j] \/ p[j] < p[i]
    <3> HIDE DEF p
    <3> QED BY <2>1, <2>2, RankGrows
  <2> QED BY <2>1, <2>3
<1>4. p \in [I -> T]
  BY <1>2
<1> HIDE DEF p
<1>5. p \in Injection(I, T)
  BY <1>3, <1>4 DEF Injection, IsInjective
<1>6. IsFiniteSet(1..n) /\ Cardinality(1..n) = n
  <2>1. 1 \in Int /\ n \in Int
    BY <1>1
  <2>2. IsFiniteSet(1..n)
        /\ Cardinality(1..n) = IF 1 > n THEN 0 ELSE n - 1 + 1
    BY <2>1, FS_Interval
  <2> QED BY <1>1, <2>2
<1>7. IsFiniteSet(T) /\ Cardinality(T) = n - 1
  <2> HIDE DEF n
  <2>1. k \in 1..n
    BY DEF n
  <2> QED BY <1>6, <2>1, FS_RemoveElement
<1>8. Cardinality(I) <= Cardinality(T)
  <2> HIDE DEF T, n
  <2> QED BY <1>5, <1>7, FS_Injection
<1> QED BY <1>1, <1>7, <1>8

(* What Arranged computes: a sequence of all the places, in order. *)
LEMMA ArrangedPlaces ==
  ASSUME NEW I, IsFiniteSet(I), NEW order, StrictTotal(I, order), NEW s
  PROVE  \E at \in [1..Cardinality(I) -> I] :
           /\ \A i \in I : \E k \in 1..Cardinality(I) : at[k] = i
           /\ \A k, l \in 1..Cardinality(I) : k < l => <<at[k], at[l]>> \in order
           /\ \A k, l \in 1..Cardinality(I) : at[k] = at[l] => k = l
           /\ Arranged(s, I, order) = [k \in 1..Cardinality(I) |-> s[at[k]]]
<1> DEFINE n == Cardinality(I)
           at == [k \in 1..n |-> Nth(k, I, order)]
           rank(i) == Cardinality(UpTo(i, I, order))
<1>0. n \in Nat
  BY RankGrows
<1>1. \A k \in 1..n : at[k] \in I /\ rank(at[k]) = k
  <2> TAKE k \in 1..n
  <2>1. \E i \in I : rank(i) = k
    BY EveryRank
  <2>2. Nth(k, I, order) \in I /\ rank(Nth(k, I, order)) = k
    BY <2>1 DEF Nth
  <2> QED BY <2>2
<1>2. \A i, j \in I : <<i, j>> \in order => rank(i) < rank(j)
  BY RankGrows
<1>3. \A i \in I : rank(i) \in 1..n
  BY RankGrows
<1>4. Arranged(s, I, order) = [k \in 1..n |-> s[at[k]]]
  BY DEF Arranged
<1>5. at \in [1..n -> I]
  BY <1>1
<1> HIDE DEF at, rank, n
<1>6. \A i, j \in I : rank(i) = rank(j) => i = j
  <2> SUFFICES ASSUME NEW i \in I, NEW j \in I, rank(i) = rank(j), i # j
               PROVE  FALSE
    OBVIOUS
  <2>1. rank(i) < rank(j) \/ rank(j) < rank(i)
    BY <1>2 DEF StrictTotal
  <2> QED BY <1>0, <1>3, <2>1
<1>7. \A i \in I : \E k \in 1..n : at[k] = i
  <2> TAKE i \in I
  <2>1. at[rank(i)] = i
    BY <1>1, <1>3, <1>6
  <2> QED BY <1>3, <2>1
<1>8. \A k, l \in 1..n : k < l => <<at[k], at[l]>> \in order
  <2> SUFFICES ASSUME NEW k \in 1..n, NEW l \in 1..n, k < l
               PROVE  <<at[k], at[l]>> \in order
    OBVIOUS
  <2>1. at[k] \in I /\ at[l] \in I /\ rank(at[k]) = k /\ rank(at[l]) = l
    BY <1>1
  <2>2. at[k] # at[l]
    BY <1>0, <2>1
  <2>3. <<at[l], at[k]>> \notin order
    BY <1>0, <1>2, <2>1
  <2> QED BY <2>1, <2>2, <2>3 DEF StrictTotal
<1>9. \A k, l \in 1..n : at[k] = at[l] => k = l
  BY <1>1
<1> QED BY <1>4, <1>5, <1>7, <1>8, <1>9 DEF n

(* The places of a list are in order. *)
LEMMA BeforeTotal ==
  ASSUME NEW I, I \subseteq Int
  PROVE  StrictTotal(I, Before(I))
BY DEF StrictTotal, Before

(* Keep goes through its places, each once. *)
LEMMA KeepPlaces ==
  ASSUME NEW I, I \subseteq Int, IsFiniteSet(I), NEW s
  PROVE  \E at \in [1..Cardinality(I) -> I] :
           /\ \A i \in I : \E k \in 1..Cardinality(I) : at[k] = i
           /\ \A k, l \in 1..Cardinality(I) : at[k] = at[l] => k = l
           /\ Keep(s, I) = [k \in 1..Cardinality(I) |-> s[at[k]]]
<1> DEFINE o == Before(I)
<1>1. StrictTotal(I, o) /\ Keep(s, I) = Arranged(s, I, o)
  BY BeforeTotal DEF Keep
<1> HIDE DEF o
<1>2. \E at \in [1..Cardinality(I) -> I] :
        /\ \A i \in I : \E k \in 1..Cardinality(I) : at[k] = i
        /\ \A k, l \in 1..Cardinality(I) : k < l => <<at[k], at[l]>> \in o
        /\ \A k, l \in 1..Cardinality(I) : at[k] = at[l] => k = l
        /\ Arranged(s, I, o) = [k \in 1..Cardinality(I) |-> s[at[k]]]
  BY <1>1, ArrangedPlaces
<1> QED BY <1>1, <1>2

(* What Keep computes: the elements at the places I, and each once. *)
LEMMA KeepIs ==
  ASSUME NEW S, NEW s \in Seq(S), NEW I, I \subseteq DOMAIN s
  PROVE  /\ Keep(s, I) \in Seq(S)
         /\ ToSet(Keep(s, I)) = {s[i] : i \in I}
         /\ IsInjective(s) => IsInjective(Keep(s, I))
<1> DEFINE n == Len(s)
           c == Cardinality(I)
           t == Keep(s, I)
<1>0. /\ n \in Nat /\ DOMAIN s = 1..n /\ I \subseteq 1..n /\ I \subseteq Int
      /\ \A i \in I : s[i] \in S
  <2>1. n \in Nat /\ DOMAIN s = 1..n
    BY LenProperties
  <2>2. \A i \in 1..n : s[i] \in S
    BY ElementOfSeq
  <2> QED BY <2>1, <2>2
<1> HIDE DEF n
<1>1. IsFiniteSet(I) /\ c \in Nat
  <2>1. 1 \in Int /\ n \in Int
    BY <1>0
  <2>2. IsFiniteSet(1..n)
    BY <2>1, FS_Interval
  <2>3. IsFiniteSet(I)
    BY <1>0, <2>2, FS_Subset
  <2> QED BY <2>3, FS_CardinalityType
<1>2. PICK at \in [1..c -> I] :
        /\ \A i \in I : \E k \in 1..c : at[k] = i
        /\ \A k, l \in 1..c : at[k] = at[l] => k = l
        /\ t = [k \in 1..c |-> s[at[k]]]
  <2> HIDE DEF t
  <2>0. I \subseteq Int /\ IsFiniteSet(I)
    BY <1>0, <1>1
  <2>1. \E at \in [1..Cardinality(I) -> I] :
          /\ \A i \in I : \E k \in 1..Cardinality(I) : at[k] = i
          /\ \A k, l \in 1..Cardinality(I) : at[k] = at[l] => k = l
          /\ Keep(s, I) = [k \in 1..Cardinality(I) |-> s[at[k]]]
    BY <2>0, KeepPlaces, SMTT(60)
  <2> QED BY <2>1 DEF t
<1> HIDE DEF c, t
<1>3. t \in Seq(S) /\ DOMAIN t = 1..c /\ \A k \in 1..c : t[k] = s[at[k]]
  <2>1. \A k \in 1..c : at[k] \in I /\ s[at[k]] \in S
    BY <1>0, <1>2
  <2>2. t \in [1..c -> S]
    BY <1>2, <2>1
  <2> QED BY <1>1, <1>2, <2>2
<1>4. ASSUME NEW k \in 1..c PROVE t[k] \in {s[i] : i \in I}
  <2>1. at[k] \in I /\ t[k] = s[at[k]]
    BY <1>2, <1>3
  <2> QED BY <2>1
<1>5. ASSUME NEW i \in I PROVE s[i] \in {t[k] : k \in 1..c}
  <2>1. PICK k \in 1..c : at[k] = i
    BY <1>2
  <2>2. s[i] = t[k]
    BY <1>3, <2>1
  <2> QED BY <2>2
<1>6. ToSet(t) = {s[i] : i \in I}
  <2>1. ToSet(t) = {t[k] : k \in 1..c}
    BY <1>3 DEF ToSet
  <2> QED BY <1>4, <1>5, <2>1
<1>7. ASSUME IsInjective(s), NEW k \in 1..c, NEW l \in 1..c, t[k] = t[l]
      PROVE  k = l
  <2>1. at[k] \in DOMAIN s /\ at[l] \in DOMAIN s /\ s[at[k]] = s[at[l]]
    BY <1>2, <1>3, <1>7
  <2> QED BY <1>2, <1>7, <2>1 DEF IsInjective
<1>8. IsInjective(s) => IsInjective(t)
  BY <1>3, <1>7 DEF IsInjective
<1> QED BY <1>3, <1>6, <1>8 DEF t

(* A list without repetition stays one when something new is added. *)
LEMMA AppendFresh ==
  ASSUME NEW S, NEW s \in Seq(S), NEW e \in S, e \notin ToSet(s), IsInjective(s)
  PROVE  /\ Append(s, e) \in Seq(S) /\ IsInjective(Append(s, e))
         /\ ToSet(Append(s, e)) = ToSet(s) \cup {e}
<1> DEFINE t == Append(s, e)
<1>1. /\ t \in Seq(S) /\ Len(t) = Len(s) + 1 /\ Len(s) \in Nat
      /\ \A i \in 1..Len(s) : t[i] = s[i]
      /\ t[Len(s) + 1] = e
  BY AppendProperties, LenProperties
<1>2. DOMAIN t = 1..(Len(s) + 1) /\ DOMAIN s = 1..Len(s)
  <2> HIDE DEF t
  <2> QED BY <1>1, LenProperties
<1> HIDE DEF t
<1>3. \A i \in 1..Len(s) : s[i] # e
  BY <1>2 DEF ToSet
<1>4. IsInjective(t)
  BY <1>1, <1>2, <1>3 DEF IsInjective
<1>5. ToSet(t) = ToSet(s) \cup {e}
  BY <1>1, <1>2 DEF ToSet
<1> QED BY <1>1, <1>4, <1>5 DEF t

(* What two lists hold together. *)
LEMMA ConcatTold ==
  ASSUME NEW S, NEW s \in Seq(S), NEW r \in Seq(S)
  PROVE  /\ s \o r \in Seq(S)
         /\ ToSet(s \o r) = ToSet(s) \cup ToSet(r)
<1> DEFINE t == s \o r
           m == Len(s)
           n == Len(r)
<1>1. /\ t \in Seq(S) /\ Len(t) = m + n /\ m \in Nat /\ n \in Nat
      /\ \A i \in 1..(m + n) : t[i] = IF i <= m THEN s[i] ELSE r[i - m]
  BY ConcatProperties, LenProperties
<1>2. DOMAIN s = 1..m /\ DOMAIN r = 1..n
  BY LenProperties
<1>3. DOMAIN t = 1..(m + n)
  <2> HIDE DEF t, m, n
  <2> QED BY <1>1, LenProperties
<1> HIDE DEF t, m, n
<1>4. \A i \in 1..m : t[i] = s[i] /\ t[i] \in ToSet(s)
  <2> TAKE i \in 1..m
  <2>1. i \in 1..(m + n) /\ i <= m
    BY <1>1
  <2> QED BY <1>1, <1>2, <2>1 DEF ToSet
<1>5. \A i \in (m + 1)..(m + n) : i - m \in 1..n /\ t[i] = r[i - m]
                                  /\ t[i] \in ToSet(r)
  <2> TAKE i \in (m + 1)..(m + n)
  <2>1. i \in 1..(m + n) /\ ~(i <= m) /\ i - m \in 1..n
    BY <1>1
  <2> QED BY <1>1, <1>2, <2>1 DEF ToSet
<1>6. ToSet(t) \subseteq ToSet(s) \cup ToSet(r)
  <2> SUFFICES ASSUME NEW i \in 1..(m + n) PROVE t[i] \in ToSet(s) \cup ToSet(r)
    BY <1>3 DEF ToSet
  <2>1. i \in 1..m \/ i \in (m + 1)..(m + n)
    BY <1>1
  <2> QED BY <1>4, <1>5, <2>1
<1>7. ToSet(s) \subseteq ToSet(t)
  <2> SUFFICES ASSUME NEW i \in 1..m PROVE s[i] \in ToSet(t)
    BY <1>2 DEF ToSet
  <2>1. i \in 1..(m + n)
    BY <1>1
  <2> QED BY <1>3, <1>4, <2>1 DEF ToSet
<1>8. ToSet(r) \subseteq ToSet(t)
  <2> SUFFICES ASSUME NEW i \in 1..n PROVE r[i] \in ToSet(t)
    BY <1>2 DEF ToSet
  <2>1. i + m \in (m + 1)..(m + n) /\ i + m \in 1..(m + n) /\ (i + m) - m = i
    BY <1>1
  <2> QED BY <1>3, <1>5, <2>1 DEF ToSet
<1> QED BY <1>1, <1>6, <1>7, <1>8 DEF t

(* Lists without repetition that share nothing make one. *)
LEMMA ConcatFresh ==
  ASSUME NEW S, NEW s \in Seq(S), NEW r \in Seq(S), IsInjective(s),
         IsInjective(r), ToSet(s) \cap ToSet(r) = {}
  PROVE  /\ s \o r \in Seq(S) /\ IsInjective(s \o r)
         /\ ToSet(s \o r) = ToSet(s) \cup ToSet(r)
<1> DEFINE t == s \o r
           m == Len(s)
           n == Len(r)
<1>1. /\ t \in Seq(S) /\ Len(t) = m + n /\ m \in Nat /\ n \in Nat
      /\ \A i \in 1..(m + n) : t[i] = IF i <= m THEN s[i] ELSE r[i - m]
  BY ConcatProperties, LenProperties
<1>2. DOMAIN s = 1..m /\ DOMAIN r = 1..n
  BY LenProperties
<1>3. DOMAIN t = 1..(m + n)
  <2> HIDE DEF t, m, n
  <2> QED BY <1>1, LenProperties
<1> HIDE DEF t, m, n
<1>4. \A i \in 1..m : t[i] = s[i] /\ t[i] \in ToSet(s)
  <2> TAKE i \in 1..m
  <2>1. i \in 1..(m + n) /\ i <= m
    BY <1>1
  <2> QED BY <1>1, <1>2, <2>1 DEF ToSet
<1>5. \A i \in (m + 1)..(m + n) : i - m \in 1..n /\ t[i] = r[i - m]
                                  /\ t[i] \in ToSet(r)
  <2> TAKE i \in (m + 1)..(m + n)
  <2>1. i \in 1..(m + n) /\ ~(i <= m) /\ i - m \in 1..n
    BY <1>1
  <2> QED BY <1>1, <1>2, <2>1 DEF ToSet
<1>6. ASSUME NEW i \in 1..(m + n), NEW j \in 1..(m + n), t[i] = t[j]
      PROVE  i = j
  <2>1. CASE i <= m /\ j <= m
    <3>1. i \in 1..m /\ j \in 1..m
      BY <1>1, <2>1
    <3> QED BY <1>2, <1>4, <1>6, <3>1 DEF IsInjective
  <2>2. CASE ~(i <= m) /\ ~(j <= m)
    <3>1. i \in (m + 1)..(m + n) /\ j \in (m + 1)..(m + n)
      BY <1>1, <2>2
    <3>2. i - m = j - m
      BY <1>2, <1>5, <1>6, <3>1 DEF IsInjective
    <3> QED BY <1>1, <3>2
  <2>3. CASE i <= m /\ ~(j <= m)
    <3>1. i \in 1..m /\ j \in (m + 1)..(m + n)
      BY <1>1, <2>3
    <3> QED BY <1>4, <1>5, <1>6, <3>1
  <2>4. CASE ~(i <= m) /\ j <= m
    <3>1. j \in 1..m /\ i \in (m + 1)..(m + n)
      BY <1>1, <2>4
    <3> QED BY <1>4, <1>5, <1>6, <3>1
  <2> QED BY <2>1, <2>2, <2>3, <2>4
<1>7. IsInjective(t)
  BY <1>3, <1>6 DEF IsInjective
<1>8. ToSet(t) = ToSet(s) \cup ToSet(r)
  BY ConcatTold DEF t
<1> QED BY <1>1, <1>7, <1>8 DEF t

(* The best value of a nonempty sequence of numbers exists. *)
LEMMA GreatestOfSeq ==
  ASSUME NEW r \in Seq(Int), r # <<>>
  PROVE  \E s \in ToSet(r) : \A t \in ToSet(r) : t <= s
<1> DEFINE n == Len(r)
<1>1. n \in Nat /\ DOMAIN r = 1..n /\ n # 0 /\ \A i \in 1..n : r[i] \in Int
  BY LenProperties, ElementOfSeq, EmptySeq
<1> HIDE DEF n
<1>2. PICK i \in 1..n : \A j \in 1..n : r[j] <= r[i]
  <2> DEFINE T == 1..n
  <2>1. T \subseteq 1..n /\ T # {}
    <3>1. 1 \in T
      BY <1>1
    <3> QED BY <3>1
  <2> HIDE DEF T
  <2>2. \E i \in T : \A j \in T : r[j] <= r[i]
    BY <1>1, <2>1, LargestOf
  <2> QED BY <2>2 DEF T
<1> QED BY <1>1, <1>2 DEF ToSet

(* A sequence holds at most as many things as it is long. *)
LEMMA SizeOfSeq ==
  ASSUME NEW S, NEW s \in Seq(S)
  PROVE  IsFiniteSet(ToSet(s)) /\ Cardinality(ToSet(s)) <= Len(s)
         /\ Cardinality(ToSet(s)) \in Nat
<1> DEFINE n == Len(s)
<1>1. n \in Nat /\ DOMAIN s = 1..n /\ s \in [1..n -> S]
  BY LenProperties
<1>2. IsFiniteSet(1..n) /\ Cardinality(1..n) = n
  <2>1. 1 \in Int /\ n \in Int
    BY <1>1
  <2>2. IsFiniteSet(1..n)
        /\ Cardinality(1..n) = IF 1 > n THEN 0 ELSE n - 1 + 1
    BY <2>1, FS_Interval
  <2> QED BY <1>1, <2>2
<1> HIDE DEF n
<1>3. s \in Surjection(1..n, ToSet(s))
  <2>1. s \in [1..n -> ToSet(s)]
    BY <1>1 DEF ToSet
  <2>2. \A x \in ToSet(s) : \E i \in 1..n : s[i] = x
    BY <1>1 DEF ToSet
  <2> QED BY <2>1, <2>2 DEF Surjection
<1>4. IsFiniteSet(ToSet(s)) /\ Cardinality(ToSet(s)) <= n
  BY <1>2, <1>3, FS_Surjection
<1> QED BY <1>4, FS_CardinalityType DEF n

(* The first of a list without repetition, and the others. *)
LEMMA HeadApart ==
  ASSUME NEW S, NEW s \in Seq(S), s # <<>>, IsInjective(s)
  PROVE  /\ Head(s) \in S /\ Tail(s) \in Seq(S) /\ IsInjective(Tail(s))
         /\ Head(s) \in ToSet(s) /\ Head(s) \notin ToSet(Tail(s))
         /\ ToSet(s) = ToSet(Tail(s)) \cup {Head(s)}
<1> DEFINE n == Len(s)
           t == Tail(s)
<1>1. n \in Nat /\ DOMAIN s = 1..n /\ n # 0 /\ Head(s) = s[1]
  BY LenProperties, EmptySeq
<1>2. t \in Seq(S) /\ Len(t) = n - 1 /\ \A i \in 1..(n - 1) : t[i] = s[i + 1]
  BY HeadTailProperties
<1>3. Head(s) \in S
  BY HeadTailProperties
<1> HIDE DEF t
<1>4. DOMAIN t = 1..(n - 1)
  BY <1>2, LenProperties
<1> HIDE DEF n
<1>5. \A i \in 1..(n - 1) : i + 1 \in 1..n /\ i + 1 # 1
  BY <1>1
<1>6. \A i \in 1..n : i # 1 => i - 1 \in 1..(n - 1) /\ (i - 1) + 1 = i
  BY <1>1
<1>7. IsInjective(t)
  <2> SUFFICES ASSUME NEW i \in 1..(n - 1), NEW j \in 1..(n - 1), t[i] = t[j]
               PROVE  i = j
    BY <1>4 DEF IsInjective
  <2>1. i + 1 \in DOMAIN s /\ j + 1 \in DOMAIN s
    BY <1>1, <1>5
  <2>2. s[i + 1] = s[j + 1]
    BY <1>2
  <2>3. i + 1 = j + 1
    BY <2>1, <2>2 DEF IsInjective
  <2> QED BY <2>3
<1>8. 1 \in 1..n
  BY <1>1
<1>9. s[1] \notin ToSet(t)
  <2> SUFFICES ASSUME NEW i \in 1..(n - 1), t[i] = s[1]
               PROVE  FALSE
    BY <1>4 DEF ToSet
  <2>1. s[i + 1] = s[1] /\ i + 1 \in 1..n /\ i + 1 # 1
    BY <1>2, <1>5
  <2> QED BY <1>1, <1>8, <2>1 DEF IsInjective
<1>10. ToSet(s) = ToSet(t) \cup {s[1]}
  <2>1. ASSUME NEW i \in 1..n PROVE s[i] \in ToSet(t) \cup {s[1]}
    <3>1. CASE i # 1
      <4>1. s[i] = t[i - 1]
        BY <1>2, <1>6, <3>1
      <4> QED BY <1>4, <1>6, <3>1, <4>1 DEF ToSet
    <3> QED BY <3>1
  <2>2. ASSUME NEW i \in 1..(n - 1) PROVE t[i] \in ToSet(s)
    BY <1>1, <1>2, <1>5 DEF ToSet
  <2> QED BY <1>1, <1>4, <1>8, <2>1, <2>2 DEF ToSet
<1> QED BY <1>1, <1>2, <1>3, <1>7, <1>8, <1>9, <1>10 DEF t, ToSet

-----------------------------------------------------------------------------
(* Selection.                                                              *)

(* Min of a nonempty set of naturals. *)
LEMMA MinOf ==
  ASSUME NEW T, T \subseteq Nat, T # {}
  PROVE  Min(T) \in T /\ \A y \in T : Min(T) <= y
BY LeastNatural DEF Min

(* Max of a nonempty set of naturals with a bound. *)
LEMMA MaxOf ==
  ASSUME NEW n \in Nat, NEW T, T \subseteq 0..n, T # {}
  PROVE  Max(T) \in T /\ \A y \in T : y <= Max(T)
<1>1. \E x \in T : \A y \in T : x >= y
  BY GreatestNatural
<1> QED BY <1>1 DEF Max

(* Partial sums exist: the recursive function of Total is one. *)
Sums(t, w, n) ==
  t = [k \in 0..n |-> IF k = 0 THEN 0 ELSE t[k - 1] + w[k]]

(* The sums exist for every length. *)
LEMMA SumsExist ==
  ASSUME NEW n \in Nat, NEW w
  PROVE  \E t : Sums(t, w, n)
<1> DEFINE S == {k \in Nat : \E t : Sums(t, w, k)}
<1>1. 0 \in S
  <2>1. Sums([k \in 0..0 |-> 0], w, 0)
    BY DEF Sums
  <2> QED BY <2>1
<1>2. ASSUME NEW k \in Nat, k \in S
      PROVE  k + 1 \in S
  <2>1. PICK t : Sums(t, w, k)
    BY <1>2
  <2> DEFINE u == [j \in 0..(k + 1) |->
                     IF j = k + 1 THEN t[k] + w[k + 1] ELSE t[j]]
  <2>2. \A j \in 0..k : t[j] = IF j = 0 THEN 0 ELSE t[j - 1] + w[j]
    BY <2>1 DEF Sums
  <2>3. \A j \in 0..(k + 1) : u[j] = IF j = 0 THEN 0 ELSE u[j - 1] + w[j]
    <3> SUFFICES ASSUME NEW j \in 0..(k + 1)
                 PROVE  u[j] = IF j = 0 THEN 0 ELSE u[j - 1] + w[j]
      OBVIOUS
    <3>1. CASE j = k + 1
      <4>1. j # 0 /\ j - 1 = k /\ k \in 0..(k + 1) /\ k # k + 1
        BY <3>1
      <4> QED BY <3>1, <4>1
    <3>2. CASE j # k + 1
      <4>1. j \in 0..k /\ (j # 0 => j - 1 \in 0..k /\ j - 1 # k + 1
                                    /\ j - 1 \in 0..(k + 1))
        BY <3>2
      <4> QED BY <2>2, <3>2, <4>1
    <3> QED BY <3>1, <3>2
  <2>4. u = [j \in 0..(k + 1) |-> u[j]]
    OBVIOUS
  <2>5. Sums(u, w, k + 1)
    <3> HIDE DEF u
    <3>1. [j \in 0..(k + 1) |-> u[j]] =
            [j \in 0..(k + 1) |-> IF j = 0 THEN 0 ELSE u[j - 1] + w[j]]
      BY <2>3
    <3> QED BY <2>4, <3>1 DEF Sums
  <2> QED BY <2>5
<1> HIDE DEF S
<1>3. n \in S
  BY <1>1, <1>2, InductiveSet
<1> QED BY <1>3 DEF S

(* Total computes the last partial sum. *)
LEMMA TotalSums ==
  ASSUME NEW n \in Nat, NEW w
  PROVE  \E t : Sums(t, w, n) /\ Total(w, n) = t[n]
<1> DEFINE t == CHOOSE s : s = [k \in 0..n |->
                   IF k = 0 THEN 0 ELSE s[k - 1] + w[k]]
<1>1. \E s : s = [k \in 0..n |-> IF k = 0 THEN 0 ELSE s[k - 1] + w[k]]
  BY SumsExist DEF Sums
<1>2. t = [k \in 0..n |-> IF k = 0 THEN 0 ELSE t[k - 1] + w[k]]
  BY <1>1
<1>3. Total(w, n) = t[n]
  BY DEF Total
<1> HIDE DEF t
<1> QED BY <1>2, <1>3 DEF Sums

(* A total of integers is an integer and grows with each of its terms. *)
LEMMA TotalGrows ==
  ASSUME NEW n \in Nat, NEW w, NEW v,
         \A k \in 1..n : w[k] \in Int /\ v[k] \in Int /\ w[k] <= v[k]
  PROVE  Total(w, n) \in Int /\ Total(v, n) \in Int
         /\ Total(w, n) <= Total(v, n)
<1>1. PICK s : Sums(s, w, n) /\ Total(w, n) = s[n]
  BY TotalSums
<1>2. PICK t : Sums(t, v, n) /\ Total(v, n) = t[n]
  BY TotalSums
<1>3. \A k \in 0..n : /\ s[k] = IF k = 0 THEN 0 ELSE s[k - 1] + w[k]
                      /\ t[k] = IF k = 0 THEN 0 ELSE t[k - 1] + v[k]
  BY <1>1, <1>2 DEF Sums
<1> DEFINE S == {k \in Nat : k <= n =>
                   s[k] \in Int /\ t[k] \in Int /\ s[k] <= t[k]}
<1>4. 0 \in S
  BY <1>3
<1>5. ASSUME NEW k \in Nat, k \in S
      PROVE  k + 1 \in S
  <2> SUFFICES ASSUME k + 1 <= n
               PROVE  s[k + 1] \in Int /\ t[k + 1] \in Int
                      /\ s[k + 1] <= t[k + 1]
    OBVIOUS
  <2>1. s[k] \in Int /\ t[k] \in Int /\ s[k] <= t[k]
    BY <1>5
  <2>2. k + 1 \in 0..n /\ k + 1 \in 1..n /\ k + 1 # 0 /\ (k + 1) - 1 = k
    OBVIOUS
  <2>3. s[k + 1] = s[k] + w[k + 1] /\ t[k + 1] = t[k] + v[k + 1]
    BY <1>3, <2>2
  <2> QED BY <2>1, <2>2, <2>3
<1> HIDE DEF S
<1>6. n \in S
  BY <1>4, <1>5, InductiveSet
<1> QED BY <1>1, <1>2, <1>6 DEF S

(* A total of equal weights counts them. *)
LEMMA TotalCounts ==
  ASSUME NEW n \in Nat, NEW K, K \subseteq 1..n, NEW c \in Nat, NEW w,
         \A k \in 1..n : w[k] = IF k \in K THEN c ELSE 0
  PROVE  Total(w, n) = Cardinality(K) * c /\ Cardinality(K) \in Nat
<1>1. PICK s : Sums(s, w, n) /\ Total(w, n) = s[n]
  BY TotalSums
<1>2. \A k \in 0..n : s[k] = IF k = 0 THEN 0 ELSE s[k - 1] + w[k]
  BY <1>1 DEF Sums
<1> DEFINE Upto(k) == K \cap (1..k)
           S == {k \in Nat : k <= n => /\ IsFiniteSet(Upto(k))
                                       /\ s[k] = Cardinality(Upto(k)) * c}
<1>3. 0 \in S
  <2>1. Upto(0) = {}
    OBVIOUS
  <2>2. s[0] = 0
    BY <1>2
  <2> QED BY <2>1, <2>2, FS_EmptySet
<1>4. ASSUME NEW k \in Nat, k \in S
      PROVE  k + 1 \in S
  <2> SUFFICES ASSUME k + 1 <= n
               PROVE  /\ IsFiniteSet(Upto(k + 1))
                      /\ s[k + 1] = Cardinality(Upto(k + 1)) * c
    OBVIOUS
  <2>1. IsFiniteSet(Upto(k)) /\ s[k] = Cardinality(Upto(k)) * c
    BY <1>4
  <2>2. Cardinality(Upto(k)) \in Nat
    BY <2>1, FS_CardinalityType
  <2>3. k + 1 \in 0..n /\ k + 1 \in 1..n /\ k + 1 # 0 /\ (k + 1) - 1 = k
    OBVIOUS
  <2>4. s[k + 1] = s[k] + w[k + 1]
    BY <1>2, <2>3
  <2>5. CASE k + 1 \in K
    <3>1. Upto(k + 1) = Upto(k) \cup {k + 1} /\ k + 1 \notin Upto(k)
      BY <2>5
    <3> HIDE DEF Upto
    <3>2. IsFiniteSet(Upto(k + 1))
          /\ Cardinality(Upto(k + 1)) = Cardinality(Upto(k)) + 1
      BY <2>1, <3>1, FS_AddElement
    <3>3. \A m \in Nat : (m + 1) * c = m * c + c
      OBVIOUS
    <3> QED BY <2>1, <2>2, <2>3, <2>4, <2>5, <3>2, <3>3
  <2>6. CASE k + 1 \notin K
    <3>1. Upto(k + 1) = Upto(k)
      BY <2>6
    <3> HIDE DEF Upto
    <3>2. \A m \in Nat : m * c + 0 = m * c
      OBVIOUS
    <3> QED BY <2>1, <2>2, <2>3, <2>4, <2>6, <3>1, <3>2
  <2> QED BY <2>5, <2>6
<1> HIDE DEF S
<1>5. n \in S
  BY <1>3, <1>4, InductiveSet
<1>6. Upto(n) = K
  OBVIOUS
<1>7. IsFiniteSet(Upto(n)) /\ s[n] = Cardinality(Upto(n)) * c
  <2>1. n <= n
    OBVIOUS
  <2> QED BY <1>5, <2>1 DEF S
<1> HIDE DEF Upto
<1>8. IsFiniteSet(K) /\ s[n] = Cardinality(K) * c
  BY <1>6, <1>7
<1> QED BY <1>1, <1>8, FS_CardinalityType

-----------------------------------------------------------------------------
SelectionSpec == SelectionInit /\ [][SelectionNext]_selectionVars

(* What the trajectory and the assessments are, by the phase. *)
SelectionInv ==
  /\ selpc \in {"generate", "assess", "pick", "selected"}
  /\ answers \in Seq(Texts) /\ Len(answers) <= MaxSteps
  /\ selpc # "generate" => Len(answers) = MaxSteps
  /\ survived \in Seq(Survivals)
  /\ selpc = "generate" => survived = <<>> /\ Len(answers) < MaxSteps
  /\ selpc = "assess" => Len(survived) < Len(answers)
  /\ selpc \in {"pick", "selected"} => Len(survived) = Len(answers)
  /\ converged # 0 => /\ converged \in 2..Len(answers)
                      /\ answers[converged] = answers[converged - 1]
  /\ selpc = "selected" => picked \in Distinct \cup {0}

(* Facts on places of a sequence of answers that the others need. *)
LEMMA Places ==
  ASSUME NEW S, NEW tr \in Seq(S)
  PROVE  /\ Len(tr) \in Nat /\ DOMAIN tr = 1..Len(tr)
         /\ Parsed(tr) \subseteq 1..Len(tr)
         /\ \A K \in SUBSET (1..Len(tr)) :
              IsFiniteSet(K) /\ Cardinality(K) \in 0..Len(tr)
<1>1. Len(tr) \in Nat /\ DOMAIN tr = 1..Len(tr)
  OBVIOUS
<1>2. IsFiniteSet(1..Len(tr)) /\ Cardinality(1..Len(tr)) = Len(tr)
  <2>1. 1 \in Int /\ Len(tr) \in Int
    BY <1>1
  <2>2. /\ IsFiniteSet(1..Len(tr))
        /\ Cardinality(1..Len(tr)) =
             IF 1 > Len(tr) THEN 0 ELSE Len(tr) - 1 + 1
    BY <2>1, FS_Interval
  <2> QED BY <1>1, <2>2
<1>3. ASSUME NEW K \in SUBSET (1..Len(tr))
      PROVE  IsFiniteSet(K) /\ Cardinality(K) \in 0..Len(tr)
  <2>1. IsFiniteSet(K) /\ Cardinality(K) <= Cardinality(1..Len(tr))
    BY <1>2, FS_Subset
  <2>2. Cardinality(K) \in Nat
    BY <2>1, FS_CardinalityType
  <2> QED BY <1>1, <1>2, <2>1, <2>2
<1> QED BY <1>1, <1>3 DEF Parsed

(* The first and the latest place of a group. *)
LEMMA GroupEnds ==
  ASSUME NEW S, NEW tr \in Seq(S), NEW i \in 1..Len(tr)
  PROVE  /\ FirstOf(tr, i) \in 1..Len(tr) /\ LatestOf(tr, i) \in 1..Len(tr)
         /\ Key(tr, FirstOf(tr, i)) = Key(tr, i)
         /\ Key(tr, LatestOf(tr, i)) = Key(tr, i)
         /\ FirstOf(tr, i) <= i /\ i <= LatestOf(tr, i)
         /\ \A j \in 1..Len(tr) : Key(tr, j) = Key(tr, i) =>
              /\ FirstOf(tr, i) <= j /\ j <= LatestOf(tr, i)
              /\ FirstOf(tr, j) = FirstOf(tr, i)
              /\ Count(tr, j) = Count(tr, i)
         /\ Count(tr, i) \in 0..Len(tr)
<1> DEFINE K == {j \in DOMAIN tr : Key(tr, j) = Key(tr, i)}
<1>1. Len(tr) \in Nat /\ DOMAIN tr = 1..Len(tr)
  OBVIOUS
<1>2. K \subseteq 1..Len(tr) /\ i \in K
  BY <1>1
<1>3. K \subseteq Nat /\ K \subseteq 0..Len(tr) /\ K # {}
  BY <1>1, <1>2
<1>4. FirstOf(tr, i) = Min(K) /\ LatestOf(tr, i) = Max(K)
      /\ Count(tr, i) = Cardinality(K)
  BY DEF FirstOf, LatestOf, Count
<1>5. ASSUME NEW j \in 1..Len(tr), Key(tr, j) = Key(tr, i)
      PROVE  FirstOf(tr, j) = FirstOf(tr, i) /\ Count(tr, j) = Count(tr, i)
             /\ j \in K
  <2>1. K = {l \in DOMAIN tr : Key(tr, l) = Key(tr, j)}
    BY <1>5
  <2> QED BY <1>1, <1>4, <1>5, <2>1 DEF FirstOf, Count
<1>6. \A j \in K : j \in 1..Len(tr) /\ Key(tr, j) = Key(tr, i)
  BY <1>1
<1>7. Count(tr, i) \in 0..Len(tr)
  BY <1>2, <1>4, Places
<1> HIDE DEF K
<1>8. Min(K) \in K /\ \A y \in K : Min(K) <= y
  BY <1>3, MinOf
<1>9. Max(K) \in K /\ \A y \in K : y <= Max(K)
  BY <1>1, <1>3, MaxOf
<1> QED BY <1>2, <1>4, <1>5, <1>6, <1>7, <1>8, <1>9

(* plurality_index: a most frequent prediction, and of equals the latest. *)
LEMMA PluralityMost ==
  ASSUME NEW S, NEW tr \in Seq(S)
  PROVE  /\ Parsed(tr) = {} => PluralityIndex(tr) = 0
         /\ Parsed(tr) # {} =>
              /\ PluralityIndex(tr) \in Parsed(tr)
              /\ \A i \in Parsed(tr) :
                   \/ Count(tr, i) < Count(tr, PluralityIndex(tr))
                   \/ /\ Count(tr, i) = Count(tr, PluralityIndex(tr))
                      /\ i <= PluralityIndex(tr)
<1> DEFINE P == Parsed(tr)
           most == {i \in P : \A j \in P : Count(tr, j) <= Count(tr, i)}
           L == {LatestOf(tr, i) : i \in most}
           p == PluralityIndex(tr)
<1>1. p = IF most = {} THEN 0 ELSE Max(L)
  BY DEF PluralityIndex
<1>2. Len(tr) \in Nat /\ DOMAIN tr = 1..Len(tr) /\ P \subseteq 1..Len(tr)
  BY Places
<1>3. P = {} => most = {}
  OBVIOUS
<1>4. ASSUME P # {}
      PROVE  most # {}
  <2> DEFINE f == [i \in 1..Len(tr) |-> Count(tr, i)]
  <2>1. \A i \in 1..Len(tr) : f[i] \in Int /\ f[i] = Count(tr, i)
    BY <1>2, GroupEnds
  <2> HIDE DEF f
  <2>2. \E i \in P : \A j \in P : f[j] <= f[i]
    <3> HIDE DEF P
    <3> QED BY <1>2, <1>4, <2>1, LargestOf
  <2> QED BY <1>2, <2>1, <2>2
<1>5. \A i \in P : Key(tr, i) # Unparsed
  BY DEF Parsed
<1>6. \A i \in 1..Len(tr) : Key(tr, i) # Unparsed => i \in P
  BY <1>2 DEF Parsed
<1> HIDE DEF P
<1>7. ASSUME P # {}
      PROVE  /\ p \in P
             /\ \A i \in P : \/ Count(tr, i) < Count(tr, p)
                             \/ Count(tr, i) = Count(tr, p) /\ i <= p
  <2>1. L \subseteq 0..Len(tr) /\ L # {}
    <3>1. \A i \in most : i \in 1..Len(tr)
      BY <1>2
    <3>2. \A i \in most : LatestOf(tr, i) \in 1..Len(tr)
      BY <3>1, GroupEnds
    <3>3. PICK i \in most : TRUE
      BY <1>4, <1>7
    <3> HIDE DEF most
    <3>4. L \subseteq 1..Len(tr)
      BY <3>2
    <3> QED BY <1>2, <3>3, <3>4
  <2>2. p = Max(L)
    BY <1>1, <1>4, <1>7
  <2> HIDE DEF p, L
  <2>3. p \in L /\ \A y \in L : y <= p
    BY <1>2, <2>1, <2>2, MaxOf
  <2>4. PICK m \in most : p = LatestOf(tr, m)
    BY <2>3 DEF L
  <2>5. m \in 1..Len(tr) /\ m \in P
    BY <1>2, <2>4
  <2>6. p \in 1..Len(tr) /\ Key(tr, p) = Key(tr, m)
    BY <2>4, <2>5, GroupEnds
  <2>7. Count(tr, p) = Count(tr, m)
    BY <2>5, <2>6, GroupEnds
  <2>8. p \in P
    BY <1>5, <1>6, <2>5, <2>6
  <2>9. ASSUME NEW i \in P
        PROVE  \/ Count(tr, i) < Count(tr, p)
               \/ Count(tr, i) = Count(tr, p) /\ i <= p
    <3>1. Count(tr, i) <= Count(tr, p) /\ i \in 1..Len(tr)
      BY <1>2, <2>4, <2>7, <2>9
    <3>2. Count(tr, i) \in Int /\ Count(tr, p) \in Int
      BY <3>1, <2>6, GroupEnds
    <3>3. CASE Count(tr, i) = Count(tr, p)
      <4>1. \A j \in P : Count(tr, j) <= Count(tr, i)
        BY <2>4, <2>7, <3>3
      <4>2. LatestOf(tr, i) \in L
        BY <4>1, <2>9 DEF L
      <4>3. i <= LatestOf(tr, i) /\ LatestOf(tr, i) <= p
            /\ LatestOf(tr, i) \in Int
        BY <2>3, <3>1, <4>2, GroupEnds
      <4> QED BY <1>2, <2>6, <3>1, <3>3, <4>3
    <3> QED BY <3>1, <3>2, <3>3
  <2> QED BY <2>8, <2>9
<1> QED BY <1>1, <1>3, <1>7 DEF P

Confirmed(tr) == {i \in Parsed(tr) : i > 1 /\ Key(tr, i) = Key(tr, i - 1)}

(* convergence_index: the first confirmed answer, or the last parsed one. *)
LEMMA ConvergenceFirst ==
  ASSUME NEW S, NEW tr \in Seq(S)
  PROVE  /\ Parsed(tr) = {} => ConvergenceIndex(tr) = 0
         /\ Parsed(tr) # {} => ConvergenceIndex(tr) \in Parsed(tr)
         /\ Confirmed(tr) # {} =>
              /\ ConvergenceIndex(tr) \in Confirmed(tr)
              /\ \A i \in Confirmed(tr) : ConvergenceIndex(tr) <= i
<1>1. Len(tr) \in Nat /\ Parsed(tr) \subseteq 1..Len(tr)
  BY Places
<1>2. Confirmed(tr) \subseteq Parsed(tr)
  BY DEF Confirmed
<1>3. ConvergenceIndex(tr) =
        IF Confirmed(tr) # {} THEN Min(Confirmed(tr))
        ELSE IF Parsed(tr) # {} THEN Max(Parsed(tr)) ELSE 0
  BY DEF ConvergenceIndex, Confirmed
<1>4. Confirmed(tr) # {} =>
        /\ Min(Confirmed(tr)) \in Confirmed(tr)
        /\ \A i \in Confirmed(tr) : Min(Confirmed(tr)) <= i
  <2>1. Confirmed(tr) \subseteq Nat
    BY <1>1, <1>2
  <2> QED BY <2>1, MinOf
<1>5. Parsed(tr) # {} => Max(Parsed(tr)) \in Parsed(tr)
  <2>1. Parsed(tr) \subseteq 0..Len(tr)
    BY <1>1
  <2> QED BY <1>1, <2>1, MaxOf
<1> QED BY <1>2, <1>3, <1>4, <1>5

(* The rule needs no answer that follows the one it gives. *)
LEMMA ConvergenceOnline ==
  ASSUME NEW S, NEW tr \in Seq(S), NEW c \in Confirmed(tr),
         \A i \in Confirmed(tr) : c <= i
  PROVE  ConvergenceIndex(SubSeq(tr, 1, c)) = c
<1> DEFINE b == SubSeq(tr, 1, c)
<1>1. Len(tr) \in Nat /\ c \in 1..Len(tr) /\ c \in Int /\ c > 1
  BY Places DEF Confirmed
<1>2. /\ b \in Seq(S) /\ Len(b) = c
      /\ \A i \in 1..c : b[i] = tr[i]
  <2>1. \A i \in 1..c : tr[i] \in S
    BY <1>1, ElementOfSeq
  <2>2. /\ SubSeq(tr, 1, c) \in Seq(S)
        /\ Len(SubSeq(tr, 1, c)) = IF 1 <= c THEN c - 1 + 1 ELSE 0
        /\ \A i \in 1..(c - 1 + 1) : SubSeq(tr, 1, c)[i] = tr[1 + i - 1]
    BY <1>1, <2>1, SubSeqProperties
  <2>3. c - 1 + 1 = c /\ \A i \in 1..c : 1 + i - 1 = i
    BY <1>1
  <2> QED BY <1>1, <2>2, <2>3
<1>3. DOMAIN b = 1..c
  BY <1>1, <1>2
<1> HIDE DEF b
<1>4. \A i \in 1..c : Key(b, i) = Key(tr, i)
  BY <1>2 DEF Key
<1>5. Confirmed(b) = {c}
  <2>1. ASSUME NEW i \in Confirmed(b)
        PROVE  i = c
    <3>1. i \in 1..c /\ i > 1 /\ i - 1 \in 1..c /\ i \in 1..Len(tr)
          /\ Key(b, i) # Unparsed /\ Key(b, i) = Key(b, i - 1)
      BY <1>1, <1>3 DEF Confirmed, Parsed
    <3>2. i \in Confirmed(tr)
      BY <1>4, <3>1 DEF Confirmed, Parsed
    <3> QED BY <1>1, <3>1, <3>2
  <2>2. c \in Confirmed(b)
    <3>1. c \in 1..c /\ c - 1 \in 1..c
      BY <1>1
    <3>2. Key(tr, c) # Unparsed /\ Key(tr, c) = Key(tr, c - 1)
      BY DEF Confirmed, Parsed
    <3> QED BY <1>1, <1>3, <1>4, <3>1, <3>2 DEF Confirmed, Parsed
  <2> QED BY <2>1, <2>2
<1>6. ConvergenceIndex(b) \in Confirmed(b)
  BY <1>2, <1>5, ConvergenceFirst
<1> QED BY <1>5, <1>6 DEF b

(* The invariant of Selection holds at first. *)
LEMMA SelectionStart == SelectionInit => SelectionInv
<1> SUFFICES ASSUME SelectionInit PROVE SelectionInv
  OBVIOUS
<1>1. MaxSteps \in Nat \ {0}
  BY SelectionAssumption
<1> QED BY <1>1 DEF SelectionInit, SelectionInv

(* An answer is sampled: the first repeated one is noted. *)
LEMMA AnswerKeeps ==
  ASSUME SelectionInv, NEW t \in Texts, Answer(t)
  PROVE  SelectionInv'
<1>1. /\ answers \in Seq(Texts) /\ Len(answers) < MaxSteps
      /\ survived = <<>> /\ MaxSteps \in Nat \ {0}
      /\ survived \in Seq(Survivals)
      /\ converged # 0 => /\ converged \in 2..Len(answers)
                          /\ answers[converged] = answers[converged - 1]
  BY SelectionAssumption DEF SelectionInv, Answer
<1>2. /\ answers' \in Seq(Texts) /\ Len(answers') = Len(answers) + 1
      /\ \A i \in 1..Len(answers) : answers'[i] = answers[i]
      /\ answers'[Len(answers) + 1] = t
  BY <1>1, AppendProperties DEF Answer
<1>3. Len(answers) \in Nat /\ (answers # <<>> => Len(answers) > 0)
  BY <1>1
<1>4. converged' # 0 => /\ converged' \in 2..Len(answers')
                        /\ answers'[converged'] = answers'[converged' - 1]
  <2>1. CASE converged = 0 /\ answers # <<>> /\ Last(answers) = t
    <3>1. converged' = Len(answers) + 1
      BY <1>2, <2>1 DEF Answer
    <3>2. answers[Len(answers)] = t /\ Len(answers) \in 1..Len(answers)
      BY <1>3, <2>1 DEF Last
    <3> QED BY <1>2, <1>3, <2>1, <3>1, <3>2
  <2>2. CASE ~(converged = 0 /\ answers # <<>> /\ Last(answers) = t)
    <3>1. converged' = converged
      BY <2>2 DEF Answer
    <3>2. converged # 0 => converged \in 1..Len(answers)
                           /\ converged - 1 \in 1..Len(answers)
                           /\ converged \in 2..Len(answers')
      BY <1>1, <1>2, <1>3
    <3> QED BY <1>1, <1>2, <3>1, <3>2
  <2> QED BY <2>1, <2>2
<1>5. /\ survived' = <<>>
      /\ selpc' = IF Len(answers') = MaxSteps THEN "assess" ELSE "generate"
  BY <1>1 DEF Answer
<1>6. Len(survived') = 0 /\ survived' \in Seq(Survivals)
  BY <1>5
<1> QED BY <1>1, <1>2, <1>3, <1>4, <1>5, <1>6 DEF SelectionInv

(* The claims of an answer are assessed. *)
LEMMA AssessKeeps ==
  ASSUME SelectionInv, NEW n \in Survivals, AssessClaims(n)
  PROVE  SelectionInv'
<1>1. /\ survived' \in Seq(Survivals) /\ Len(survived') = Len(survived) + 1
      /\ Len(survived) \in Nat /\ Len(survived) < Len(answers)
      /\ Len(answers) \in Nat
  BY AppendProperties DEF SelectionInv, AssessClaims
<1>2. /\ answers' = answers /\ converged' = converged /\ selpc = "assess"
      /\ selpc' = IF Len(survived') = Len(answers) THEN "pick" ELSE "assess"
  BY DEF AssessClaims
<1> QED BY <1>1, <1>2 DEF SelectionInv

(* Every step of Selection keeps its invariant. *)
LEMMA SelectionStep == SelectionInv /\ [SelectionNext]_selectionVars => SelectionInv'
<1> SUFFICES ASSUME SelectionInv, [SelectionNext]_selectionVars PROVE SelectionInv'
  OBVIOUS
<1>1. CASE \E t \in Texts : Answer(t)
  BY <1>1, AnswerKeeps
<1>2. CASE \E n \in Survivals : AssessClaims(n)
  BY <1>2, AssessKeeps
<1>3. CASE \E i \in 0..MaxSteps : LlmPick(i)
  <2>1. Distinct' = Distinct
    BY <1>3 DEF LlmPick, Distinct
  <2>2. picked' \in Distinct \cup {0}
    BY <1>3 DEF LlmPick
  <2> QED BY <1>3, <2>1, <2>2 DEF LlmPick, SelectionInv
<1>4. CASE UNCHANGED selectionVars
  <2>1. Distinct' = Distinct
    BY <1>4 DEF selectionVars, Distinct
  <2> QED BY <1>4, <2>1 DEF selectionVars, SelectionInv
<1> QED BY <1>1, <1>2, <1>3, <1>4 DEF SelectionNext

(* Whatever the answers are, plurality and convergence name an answer      *)
(* whenever one could be parsed, the largest group's latest and the first  *)
(* repeated one, and the online rule of claim_falsification_pattern.py     *)
(* never stops after the place the offline rule finds.                     *)
THEOREM RulesAreDeployable == SelectionSpec => []RulesDeployable
<1>1. SelectionInv => RulesDeployable
  <2> DEFINE p == PluralityIndex(answers)
             c == ConvergenceIndex(answers)
             P == Parsed(answers)
             K == Confirmed(answers)
             sure == c > 1 /\ Key(answers, c) = Key(answers, c - 1)
  <2> SUFFICES ASSUME SelectionInv, selpc = "selected"
               PROVE  /\ 0 \in {p, c} => P = {} /\ picked = 0
                      /\ \A i \in P :
                           \/ Count(answers, i) < Count(answers, p)
                           \/ Count(answers, i) = Count(answers, p) /\ i <= p
                      /\ sure => ConvergenceIndex(SubSeq(answers, 1, c)) = c
                      /\ converged # 0 /\ converged \in P =>
                           sure /\ c <= converged
    BY DEF RulesDeployable
  <2>1. answers \in Seq(Texts)
    BY DEF SelectionInv
  <2>2. Len(answers) \in Nat /\ P \subseteq 1..Len(answers)
    BY <2>1, Places
  <2>3. \A i \in P : \/ Count(answers, i) < Count(answers, p)
                     \/ Count(answers, i) = Count(answers, p) /\ i <= p
    <3> TAKE i \in P
    <3>1. Parsed(answers) # {}
      OBVIOUS
    <3>2. \A k \in Parsed(answers) :
             \/ Count(answers, k) < Count(answers, PluralityIndex(answers))
             \/ /\ Count(answers, k) = Count(answers, PluralityIndex(answers))
                /\ k <= PluralityIndex(answers)
      BY <2>1, <3>1, PluralityMost
    <3>3. i \in Parsed(answers) /\ p = PluralityIndex(answers)
      OBVIOUS
    <3> HIDE DEF p, P
    <3> QED BY <3>2, <3>3
  <2>4. P # {} => p \in P /\ c \in P
    BY <2>1, PluralityMost, ConvergenceFirst
  <2>5. K # {} => c \in K /\ \A i \in K : c <= i
    BY <2>1, ConvergenceFirst
  <2>6. P = {} => c = 0
    BY <2>1, ConvergenceFirst
  <2>7. \A i : i \in K <=> i \in P /\ i > 1
                           /\ Key(answers, i) = Key(answers, i - 1)
    BY DEF Confirmed
  <2>8. ASSUME 0 \in {p, c}
        PROVE  P = {} /\ picked = 0
    <3>1. P = {}
      BY <2>2, <2>4, <2>8
    <3>2. Distinct = {}
      BY <3>1 DEF Distinct
    <3> QED BY <3>1, <3>2 DEF SelectionInv
  <2>9. ASSUME sure
        PROVE  ConvergenceIndex(SubSeq(answers, 1, c)) = c
    <3>1. c \in K
      BY <2>4, <2>6, <2>7, <2>9
    <3> HIDE DEF c, K
    <3>2. c \in Confirmed(answers) /\ \A i \in Confirmed(answers) : c <= i
      BY <2>5, <3>1 DEF K
    <3> QED BY <2>1, <3>2, ConvergenceOnline
  <2>10. ASSUME converged # 0, converged \in P
         PROVE  sure /\ c <= converged
    <3>1. converged > 1 /\ answers[converged] = answers[converged - 1]
      BY <2>2, <2>10 DEF SelectionInv
    <3>2. converged \in K
      BY <2>7, <2>10, <3>1 DEF Key
    <3>3. c \in K /\ c <= converged
      BY <2>5, <3>2
    <3> QED BY <2>7, <3>3
  <2> HIDE DEF p, c, P, K, sure
  <2> QED BY <2>3, <2>8, <2>9, <2>10
<1> QED BY <1>1, SelectionStart, SelectionStep, PTL DEF SelectionSpec

-----------------------------------------------------------------------------
(* The six values a fifth power of survivals can have. *)
LEMMA ReliabilityValues ==
  ASSUME NEW n \in 0..5
  PROVE  /\ n = 0 \/ n = 1 \/ n = 2 \/ n = 3 \/ n = 4 \/ n = 5
         /\ Reliability(n) \in 0..3125
         /\ Reliability(0) = 0 /\ Reliability(1) = 1 /\ Reliability(2) = 32
         /\ Reliability(3) = 243 /\ Reliability(4) = 1024
         /\ Reliability(5) = 3125
<1>1. n = 0 \/ n = 1 \/ n = 2 \/ n = 3 \/ n = 4 \/ n = 5
  OBVIOUS
<1>2. /\ Reliability(0) = 0 /\ Reliability(1) = 1 /\ Reliability(2) = 32
      /\ Reliability(3) = 243 /\ Reliability(4) = 1024
      /\ Reliability(5) = 3125
  BY DEF Reliability
<1> QED BY <1>1, <1>2

(* They are integers. *)
LEMMA ReliabilityType == \A n \in 0..5 : Reliability(n) \in Int
<1> TAKE n \in 0..5
<1>1. PICK q \in 0..3125 : q = Reliability(n)
  BY ReliabilityValues
<1>2. q \in Int
  OBVIOUS
<1> QED BY <1>1, <1>2

(* More surviving claims never count less. *)
LEMMA ReliabilityGrows ==
  ASSUME NEW n \in 0..5, NEW m \in 0..5, n <= m
  PROVE  Reliability(n) <= Reliability(m)
<1> HIDE DEF Reliability
<1>1. n = 0 \/ n = 1 \/ n = 2 \/ n = 3 \/ n = 4 \/ n = 5
  OBVIOUS
<1>2. m = 0 \/ m = 1 \/ m = 2 \/ m = 3 \/ m = 4 \/ m = 5
  OBVIOUS
<1> QED BY <1>1, <1>2, ReliabilityValues

(* Support grows with the surviving claims of the group. *)
LEMMA SupportGrows ==
  ASSUME NEW S, NEW tr \in Seq(S), NEW i \in 1..Len(tr), NEW sv, NEW sw,
         \A j \in 1..Len(tr) : sv[j] \in 0..5 /\ sw[j] \in 0..5,
         \A j \in 1..Len(tr) : Key(tr, j) = Key(tr, i) => sv[j] <= sw[j]
  PROVE  /\ Support(tr, sv, i) \in Int /\ Support(tr, sw, i) \in Int
         /\ Support(tr, sv, i) <= Support(tr, sw, i)
<1> DEFINE v == [j \in DOMAIN tr |-> IF Key(tr, j) = Key(tr, i)
                                     THEN Reliability(sv[j]) ELSE 0]
           w == [j \in DOMAIN tr |-> IF Key(tr, j) = Key(tr, i)
                                     THEN Reliability(sw[j]) ELSE 0]
<1>1. Len(tr) \in Nat /\ DOMAIN tr = 1..Len(tr)
  OBVIOUS
<1>2. ASSUME NEW j \in 1..Len(tr)
      PROVE  v[j] \in Int /\ w[j] \in Int /\ v[j] <= w[j]
  <2>1. CASE Key(tr, j) = Key(tr, i)
    <3>1. sv[j] \in 0..5 /\ sw[j] \in 0..5 /\ sv[j] <= sw[j]
      BY <2>1
    <3>2. \A n \in 0..5 : Reliability(n) \in Int
      BY ReliabilityType
    <3>3. Reliability(sv[j]) <= Reliability(sw[j])
      BY <3>1, ReliabilityGrows
    <3>4. v[j] = Reliability(sv[j]) /\ w[j] = Reliability(sw[j])
      BY <1>1, <2>1
    <3> HIDE DEF v, w
    <3> QED BY <3>1, <3>2, <3>3, <3>4
  <2>2. CASE Key(tr, j) # Key(tr, i)
    BY <1>1, <2>2
  <2> QED BY <2>1, <2>2
<1>3. Support(tr, sv, i) = Total(v, Len(tr))
      /\ Support(tr, sw, i) = Total(w, Len(tr))
  BY DEF Support
<1> HIDE DEF v, w
<1> QED BY <1>1, <1>2, <1>3, TotalGrows

(* Answers of one prediction have one support. *)
LEMMA SupportShared ==
  ASSUME NEW tr, NEW i, NEW j, Key(tr, i) = Key(tr, j), NEW sv
  PROVE  Support(tr, sv, i) = Support(tr, sv, j)
BY DEF Support

(* select_candidate: the first of the answers with the largest support. *)
LEMMA SelectsFirst ==
  ASSUME NEW S, NEW tr \in Seq(S), NEW sv,
         \A j \in 1..Len(tr) : sv[j] \in 0..5
  PROVE  /\ Parsed(tr) = {} => SelectCandidate(tr, sv) = 0
         /\ Parsed(tr) # {} =>
              /\ SelectCandidate(tr, sv) \in Favoured(tr, sv)
              /\ \A i \in Favoured(tr, sv) : SelectCandidate(tr, sv) <= i
<1> DEFINE P == Parsed(tr)
           F == Favoured(tr, sv)
           m == Min(F)
           w == FirstOf(tr, m)
<1>1. SelectCandidate(tr, sv) = IF P = {} THEN 0 ELSE w
  BY DEF SelectCandidate
<1>2. Len(tr) \in Nat /\ DOMAIN tr = 1..Len(tr) /\ P \subseteq 1..Len(tr)
  BY Places
<1>3. F = {i \in P : \A j \in P : Support(tr, sv, j) <= Support(tr, sv, i)}
  BY DEF Favoured
<1>4. \A i \in P : Key(tr, i) # Unparsed
  BY DEF Parsed
<1>5. \A i \in 1..Len(tr) : Key(tr, i) # Unparsed => i \in P
  BY <1>2 DEF Parsed
<1>6. \A i \in 1..Len(tr) : Support(tr, sv, i) \in Int
  <2> TAKE i \in 1..Len(tr)
  <2>1. \A j \in 1..Len(tr) : sv[j] <= sv[j]
    OBVIOUS
  <2> QED BY <2>1, SupportGrows
<1> HIDE DEF P, F
<1>7. ASSUME P # {}
      PROVE  w \in F /\ \A i \in F : w <= i
  <2>1. F # {}
    <3> DEFINE f == [i \in 1..Len(tr) |-> Support(tr, sv, i)]
    <3>1. \A i \in 1..Len(tr) : f[i] \in Int /\ f[i] = Support(tr, sv, i)
      BY <1>6
    <3> HIDE DEF f
    <3>2. \E i \in P : \A j \in P : f[j] <= f[i]
      BY <1>2, <1>7, <3>1, LargestOf
    <3> QED BY <1>2, <1>3, <3>1, <3>2
  <2>2. F \subseteq P /\ F \subseteq Nat
    <3>1. F \subseteq P
      BY <1>3
    <3>2. P \subseteq Nat
      BY <1>2
    <3> QED BY <3>1, <3>2
  <2>3. m \in F /\ \A y \in F : m <= y
    BY <2>1, <2>2, MinOf
  <2> HIDE DEF m
  <2>4. m \in 1..Len(tr) /\ m \in P
    BY <1>2, <2>2, <2>3
  <2>5. w \in 1..Len(tr) /\ Key(tr, w) = Key(tr, m) /\ w <= m
    BY <2>4, GroupEnds
  <2> HIDE DEF w
  <2>6. w \in P
    BY <1>4, <1>5, <2>4, <2>5
  <2>7. Support(tr, sv, w) = Support(tr, sv, m)
    BY <2>5, SupportShared
  <2>8. w \in F
    BY <1>3, <2>3, <2>6, <2>7
  <2>9. w = m
    BY <2>3, <2>4, <2>5, <2>8
  <2> QED BY <2>3, <2>8, <2>9
<1> QED BY <1>1, <1>7 DEF P, F

(* What another verdict on one answer does to the selection. *)
LEMMA SelectionStays ==
  ASSUME NEW S, NEW tr \in Seq(S), NEW sv, NEW sw,
         \A j \in 1..Len(tr) : sv[j] \in 0..5 /\ sw[j] \in 0..5,
         NEW w, w = SelectCandidate(tr, sv), Parsed(tr) # {},
         \A j \in 1..Len(tr) :
           /\ Key(tr, j) = Key(tr, w) => sv[j] <= sw[j]
           /\ Key(tr, j) # Key(tr, w) => sw[j] <= sv[j]
  PROVE  SelectCandidate(tr, sw) = w
<1> DEFINE u == SelectCandidate(tr, sw)
           V(i) == Support(tr, sv, i)
           W(i) == Support(tr, sw, i)
<1>1. /\ Len(tr) \in Nat
      /\ \A i \in Parsed(tr) : i \in 1..Len(tr)
  BY Places
<1>2. w \in Favoured(tr, sv) /\ \A i \in Favoured(tr, sv) : w <= i
  BY SelectsFirst
<1>3. u \in Favoured(tr, sw) /\ \A i \in Favoured(tr, sw) : u <= i
  BY SelectsFirst
<1> HIDE DEF u
<1>4. /\ w \in Parsed(tr) /\ \A j \in Parsed(tr) : V(j) <= V(w)
      /\ u \in Parsed(tr) /\ \A j \in Parsed(tr) : W(j) <= W(u)
  BY <1>2, <1>3 DEF Favoured
<1>5. ASSUME NEW i \in Parsed(tr)
      PROVE  /\ V(i) \in Int /\ W(i) \in Int
             /\ Key(tr, i) = Key(tr, w) => V(i) <= W(i)
             /\ Key(tr, i) # Key(tr, w) => W(i) <= V(i)
  <2>0. i \in 1..Len(tr)
    BY <1>1
  <2>1. CASE Key(tr, i) = Key(tr, w)
    <3>1. \A j \in 1..Len(tr) : Key(tr, j) = Key(tr, i) => sv[j] <= sw[j]
      BY <2>1
    <3> QED BY <2>0, <2>1, <3>1, SupportGrows
  <2>2. CASE Key(tr, i) # Key(tr, w)
    <3>1. \A j \in 1..Len(tr) : Key(tr, j) = Key(tr, i) => sw[j] <= sv[j]
      BY <2>2
    <3> QED BY <2>0, <2>2, <3>1, SupportGrows
  <2> QED BY <2>1, <2>2
<1>6. \A i \in Parsed(tr) : Key(tr, i) = Key(tr, w) => W(i) = W(w) /\ V(i) = V(w)
  BY SupportShared
<1>7. \A j \in Parsed(tr) : W(j) <= W(w)
  <2> TAKE j \in Parsed(tr)
  <2>1. CASE Key(tr, j) = Key(tr, w)
    <3>1. W(j) = W(w) /\ W(w) \in Int
      BY <1>4, <1>5, <1>6, <2>1
    <3> HIDE DEF W
    <3> QED BY <3>1
  <2>2. CASE Key(tr, j) # Key(tr, w)
    <3>1. /\ W(j) \in Int /\ V(j) \in Int /\ W(w) \in Int /\ V(w) \in Int
          /\ W(j) <= V(j) /\ V(j) <= V(w) /\ V(w) <= W(w)
      BY <1>4, <1>5, <2>2
    <3> HIDE DEF W, V
    <3> QED BY <3>1
  <2> QED BY <2>1, <2>2
<1>8. w \in Favoured(tr, sw)
  BY <1>4, <1>7 DEF Favoured
<1>9. u \in Favoured(tr, sv)
  <2>1. CASE Key(tr, u) = Key(tr, w)
    <3>1. V(u) = V(w)
      BY <1>4, <1>6, <2>1
    <3> QED BY <1>4, <3>1 DEF Favoured
  <2>2. CASE Key(tr, u) # Key(tr, w)
    <3>1. /\ W(u) \in Int /\ V(u) \in Int /\ W(w) \in Int /\ V(w) \in Int
          /\ W(u) <= V(u) /\ V(w) <= W(w) /\ W(w) <= W(u) /\ V(u) <= V(w)
      BY <1>4, <1>5, <2>2
    <3>2. V(u) = V(w)
      <4> HIDE DEF V, W
      <4> QED BY <3>1
    <3> QED BY <1>4, <3>2 DEF Favoured
  <2> QED BY <2>1, <2>2
<1>10. w <= u /\ u <= w /\ w \in Int /\ u \in Int
  BY <1>1, <1>2, <1>3, <1>4, <1>8, <1>9
<1>11. u = w
  BY <1>10
<1> QED BY <1>11 DEF u

(* With every claim surviving, support counts answers. *)
LEMMA ConsensusMost ==
  ASSUME NEW S, NEW tr \in Seq(S), Parsed(tr) # {}
  PROVE  /\ Consensus(tr) = FirstOf(tr, Consensus(tr))
         /\ \A i \in Parsed(tr) : Count(tr, i) <= Count(tr, Consensus(tr))
<1> DEFINE sv == [i \in DOMAIN tr |-> ClaimCount]
           u == Consensus(tr)
<1>1. /\ Len(tr) \in Nat /\ DOMAIN tr = 1..Len(tr)
      /\ Parsed(tr) \subseteq 1..Len(tr)
  BY Places
<1>2. \A j \in 1..Len(tr) : sv[j] = 5 /\ sv[j] \in 0..5
  BY <1>1 DEF ClaimCount
<1>3. u = SelectCandidate(tr, sv)
  BY DEF Consensus
<1>4. ASSUME NEW i \in Parsed(tr)
      PROVE  Support(tr, sv, i) = Count(tr, i) * 3125 /\ Count(tr, i) \in Nat
  <2> DEFINE K == {j \in DOMAIN tr : Key(tr, j) = Key(tr, i)}
             v == [j \in DOMAIN tr |-> IF Key(tr, j) = Key(tr, i)
                                       THEN Reliability(sv[j]) ELSE 0]
  <2>1. Support(tr, sv, i) = Total(v, Len(tr))
    BY DEF Support
  <2>2. Count(tr, i) = Cardinality(K)
    BY DEF Count
  <2>3. K \subseteq 1..Len(tr)
    BY <1>1
  <2>4. Reliability(5) = 3125
    BY DEF Reliability
  <2>5. \A k \in 1..Len(tr) : v[k] = IF k \in K THEN 3125 ELSE 0
    BY <1>1, <1>2, <2>4
  <2> HIDE DEF K, v
  <2>6. 3125 \in Nat
    OBVIOUS
  <2>7. Total(v, Len(tr)) = Cardinality(K) * 3125 /\ Cardinality(K) \in Nat
    <3> DEFINE c == 3125
    <3>1. c \in Nat /\ \A k \in 1..Len(tr) : v[k] = IF k \in K THEN c ELSE 0
      BY <2>5, <2>6
    <3> HIDE DEF c
    <3>2. Total(v, Len(tr)) = Cardinality(K) * c /\ Cardinality(K) \in Nat
      BY <1>1, <2>3, <3>1, TotalCounts
    <3> QED BY <3>2 DEF c
  <2> QED BY <2>1, <2>2, <2>7
<1> HIDE DEF sv
<1>5. u \in Favoured(tr, sv) /\ \A i \in Favoured(tr, sv) : u <= i
  BY <1>2, <1>3, SelectsFirst
<1> HIDE DEF u
<1>6. u \in Parsed(tr)
      /\ \A j \in Parsed(tr) : Support(tr, sv, j) <= Support(tr, sv, u)
  BY <1>5 DEF Favoured
<1>7. \A i \in Parsed(tr) : Count(tr, i) <= Count(tr, u)
  <2> TAKE i \in Parsed(tr)
  <2>1. /\ Count(tr, i) * 3125 <= Count(tr, u) * 3125
        /\ Count(tr, i) \in Nat /\ Count(tr, u) \in Nat
    BY <1>4, <1>6
  <2> QED BY <2>1
<1>8. u = FirstOf(tr, u)
  <2> DEFINE f == FirstOf(tr, u)
  <2>1. u \in 1..Len(tr)
    BY <1>1, <1>6
  <2>2. f \in 1..Len(tr) /\ Key(tr, f) = Key(tr, u) /\ f <= u
    BY <2>1, GroupEnds
  <2> HIDE DEF f
  <2>3. f \in Parsed(tr)
    BY <1>1, <1>6, <2>2 DEF Parsed
  <2>4. Support(tr, sv, f) = Support(tr, sv, u)
    BY <2>2, SupportShared
  <2>5. f \in Favoured(tr, sv)
    BY <1>6, <2>3, <2>4 DEF Favoured
  <2>6. u <= f
    BY <1>5, <2>5
  <2> QED BY <1>1, <2>1, <2>2, <2>6 DEF f
<1> QED BY <1>7, <1>8 DEF u

(* When one more claim of a selected answer survives, select_candidate     *)
(* selects the same answer, for every number of answers and claims.        *)
THEOREM ClaimsAreMonotone == SelectionSpec => []ClaimsMonotone
<1>1. SelectionInv => ClaimsMonotone
  <2> DEFINE w == SelectCandidate(answers, survived)
             u == Consensus(answers)
             same(j) == Key(answers, j) = Key(answers, w)
  <2> SUFFICES ASSUME SelectionInv, selpc = "selected", w # 0
               PROVE  /\ \A j \in DOMAIN answers, n \in Survivals :
                           (n > survived[j]) = same(j) =>
                             SelectCandidate(answers,
                                             [survived EXCEPT ![j] = n]) = w
                      /\ u = FirstOf(answers, u)
                      /\ \A i \in Parsed(answers) :
                           Count(answers, i) <= Count(answers, u)
    BY DEF ClaimsMonotone
  <2>1. /\ answers \in Seq(Texts) /\ survived \in Seq(Survivals)
        /\ Len(survived) = Len(answers) /\ Len(answers) \in Nat
        /\ DOMAIN answers = 1..Len(answers)
        /\ DOMAIN survived = 1..Len(answers)
        /\ Survivals \subseteq 0..5
    BY SelectionAssumption DEF SelectionInv, ClaimCount
  <2>2. \A j \in 1..Len(answers) : survived[j] \in 0..5
    <3> TAKE j \in 1..Len(answers)
    <3>1. survived[j] \in Survivals
      BY <2>1, ElementOfSeq
    <3> QED BY <2>1, <3>1
  <2>3. Parsed(answers) # {}
    BY <2>1, <2>2, SelectsFirst
  <2>4. ASSUME NEW j \in DOMAIN answers, NEW n \in Survivals,
               (n > survived[j]) = same(j)
        PROVE  SelectCandidate(answers, [survived EXCEPT ![j] = n]) = w
    <3> DEFINE sw == [survived EXCEPT ![j] = n]
    <3>1. \A k \in 1..Len(answers) :
            sw[k] = IF k = j THEN n ELSE survived[k]
      BY <2>1
    <3>2. n \in 0..5 /\ j \in 1..Len(answers)
      BY <2>1
    <3> HIDE DEF sw, w
    <3>3. \A k \in 1..Len(answers) :
            /\ sw[k] \in 0..5 /\ survived[k] \in 0..5
            /\ Key(answers, k) = Key(answers, w) => survived[k] <= sw[k]
            /\ Key(answers, k) # Key(answers, w) => sw[k] <= survived[k]
      <4> TAKE k \in 1..Len(answers)
      <4>1. CASE k = j /\ same(j)
        <5>1. n > survived[j]
          BY <2>4, <4>1
        <5> QED BY <2>2, <3>1, <3>2, <4>1, <5>1
      <4>2. CASE k = j /\ ~same(j)
        <5>1. ~(n > survived[j])
          BY <2>4, <4>2
        <5> QED BY <2>2, <3>1, <3>2, <4>2, <5>1
      <4>3. CASE k # j
        BY <2>2, <3>1, <4>3
      <4> QED BY <4>1, <4>2, <4>3
    <3>4. SelectCandidate(answers, sw) = w
      <4>1. w = SelectCandidate(answers, survived)
        BY DEF w
      <4> QED BY <2>1, <2>3, <3>3, <4>1, SelectionStays
    <3> QED BY <3>4 DEF sw
  <2> QED BY <2>1, <2>3, <2>4, ConsensusMost
<1> QED BY <1>1, SelectionStart, SelectionStep, PTL DEF SelectionSpec

-----------------------------------------------------------------------------
(* Stages.                                                                 *)

StagesSpec == StagesInit /\ [][StagesNext]_stagesVars

Labels == {"g", "c", "tension", "rival", "thesis", "antithesis", "synth"} \X Nat
SoloNames == {"tension", "rival", "thesis", "antithesis", "synth"}

(* What the lists of labels hold. *)
Listed ==
  /\ findings \in Seq(Labels) /\ critiques \in Seq(Labels) /\ trace \in Seq(Labels)
  /\ IsInjective(findings) /\ IsInjective(critiques) /\ IsInjective(trace)
  /\ \A l \in ToSet(findings) : l[1] = "g"
  /\ \A l \in ToSet(critiques) : l[1] = "c"

(* Which stages a form passes through, and what it has before each. *)
Staged ==
  /\ smode \in StageModes
  /\ spc \in {"gather", "frame", "critique", "rival", "thesis", "direct",
              "antithesis", "synth", "returned", "raised"}
  /\ spc \in {"gather", "critique"} => smode # "dialectic"
  /\ spc = "rival" => smode = "adversarial"
  /\ spc \in {"thesis", "direct", "antithesis"} => smode = "dialectic"
  /\ spc = "gather" => findings = <<>>
  /\ spc \in {"gather", "frame", "critique"} => critiques = <<>>
  /\ smode = "dialectic" => findings = <<>> /\ critiques = <<>>

(* The single calls that have answered. *)
Heard ==
  IF spc \in {"gather", "frame"} THEN {}
  ELSE IF spc \in {"critique", "rival", "thesis", "direct"}
       THEN {Solo("tension")}
  ELSE IF spc = "antithesis" THEN {Solo("tension"), Solo("thesis")}
  ELSE IF smode = "dialectic"
       THEN {Solo("tension"), Solo("thesis"), Solo("antithesis")}
  ELSE IF smode = "adversarial" THEN {Solo("tension"), Solo("rival")}
  ELSE {Solo("tension")}

Recorded ==
  /\ ToSet(trace) \subseteq outputs
  /\ spc \notin {"returned", "raised"} =>
       ToSet(trace) = ToSet(findings) \cup ToSet(critiques) \cup Heard

Collected ==
  /\ DOMAIN batch \subseteq Indices(Batch)
  /\ spc \notin {"gather", "critique"} => batch = <<>>
  /\ \A i \in DOMAIN batch : batch[i] # "failed" => Batch[i] \in outputs

(* The critiques asked for so far. *)
AsksFor ==
  /\ \A l \in Asking("c") : \E i \in Indices(findings) :
       l = C(i) /\ shown[l] = {findings[i]}
  /\ spc \in {"gather", "frame"} => Asking("c") = {}
  /\ spc = "critique" => \A i \in DOMAIN batch : C(i) \in DOMAIN shown
  /\ spc \in {"rival", "synth"} /\ smode # "dialectic" =>
       \A i \in Indices(findings) : C(i) \in DOMAIN shown

Synthesised ==
  Solo("synth") \in DOMAIN shown =>
    /\ spc = "returned"
    /\ shown[Solo("synth")] = shown[Solo("synth")] \cap ToSet(trace)
    /\ Solo("tension") \in shown[Solo("synth")]
    /\ ToSet(critiques) \subseteq shown[Solo("synth")]
    /\ smode \in {"inline", "adversarial"} =>
         shown[Solo("synth")] = ToSet(trace) \ {Solo("synth")}
    /\ smode = "access" =>
         UNION {shown[l] : l \in Asking("c")} = ToSet(findings)

StagesInv == Listed /\ Staged /\ Recorded /\ Collected /\ AsksFor /\ Synthesised

-----------------------------------------------------------------------------
(* The calls of the running batch. *)
LEMMA BatchCalls ==
  ASSUME findings \in Seq(Labels)
  PROVE  /\ Batch \in Seq(Labels)
         /\ Len(Batch) \in Nat /\ DOMAIN Batch = Indices(Batch)
         /\ spc = "gather" => /\ Len(Batch) = Len(Angles)
                              /\ \A i \in Indices(Batch) : Batch[i] = G(i)
         /\ spc # "gather" => /\ Len(Batch) = Len(findings)
                              /\ \A i \in Indices(Batch) : Batch[i] = C(i)
         /\ \A i \in Indices(Batch) : Batch[i] \in Labels
         /\ \A i, j \in Indices(Batch) : Batch[i] = Batch[j] => i = j
<1>1. Len(Angles) \in Nat /\ Len(findings) \in Nat
  BY StagesAssumption, LenProperties
<1>2. CASE spc = "gather"
  <2>1. Batch = [i \in 1..Len(Angles) |-> G(i)]
    BY <1>2 DEF Batch, Indices
  <2>2. \A i \in 1..Len(Angles) : G(i) \in Labels
    BY <1>1 DEF G, Labels
  <2>3. Batch \in Seq(Labels) /\ Len(Batch) = Len(Angles)
        /\ DOMAIN Batch = 1..Len(Angles)
    BY <1>1, <2>1, <2>2
  <2>4. \A i \in Indices(Batch) : Batch[i] = G(i)
    BY <2>1, <2>3 DEF Indices
  <2> QED BY <1>1, <1>2, <2>2, <2>3, <2>4 DEF Indices, G
<1>3. CASE spc # "gather"
  <2>1. Batch = [i \in 1..Len(findings) |-> C(i)]
    BY <1>3 DEF Batch, Indices
  <2>2. \A i \in 1..Len(findings) : C(i) \in Labels
    BY <1>1 DEF C, Labels
  <2>3. Batch \in Seq(Labels) /\ Len(Batch) = Len(findings)
        /\ DOMAIN Batch = 1..Len(findings)
    BY <1>1, <2>1, <2>2
  <2>4. \A i \in Indices(Batch) : Batch[i] = C(i)
    BY <2>1, <2>3 DEF Indices
  <2> QED BY <1>1, <1>3, <2>2, <2>3, <2>4 DEF Indices, C
<1> QED BY <1>2, <1>3

(* The texts that go on from a batch. *)
LEMMA NonemptyIs ==
  ASSUME findings \in Seq(Labels), DOMAIN batch \subseteq Indices(Batch)
  PROVE  /\ Nonempty \in Seq(Labels) /\ IsInjective(Nonempty)
         /\ ToSet(Nonempty) = {Batch[i] : i \in {j \in DOMAIN batch : batch[j] = "text"}}
<1> DEFINE I == {j \in DOMAIN batch : batch[j] = "text"}
           u == Batch
<1>1. u \in Seq(Labels) /\ I \subseteq DOMAIN u /\ IsInjective(u)
  BY BatchCalls DEF IsInjective
<1>2. Nonempty = Keep(u, I)
  BY DEF Nonempty
<1> HIDE DEF I, u
<1>3. /\ Keep(u, I) \in Seq(Labels)
      /\ ToSet(Keep(u, I)) = {u[i] : i \in I}
      /\ IsInjective(Keep(u, I))
  BY <1>1, KeepIs
<1> QED BY <1>2, <1>3 DEF I, u

(* What asking a call does to what was shown. *)
LEMMA AskedIs ==
  ASSUME NEW label, NEW texts, Asked(label, texts)
  PROVE  /\ DOMAIN shown' = DOMAIN shown \cup {label}
         /\ shown'[label] = texts
         /\ \A l \in DOMAIN shown : l # label => shown'[l] = shown[l]
BY DEF Asked

(* A call of the batch is asked, and ends. *)
LEMMA CallEndsKeeps ==
  ASSUME StagesInv, NEW i \in Indices(Batch),
         NEW outcome \in {"text", "empty", "failed"}, CallEnds(i, outcome)
  PROVE  StagesInv'
<1> USE DEF StagesInv
<1>1. Listed' /\ Staged'
  BY DEF CallEnds, Listed, Staged
<1>2. Recorded'
  <2>1. Heard' = Heard
    BY DEF CallEnds, Heard
  <2>2. outputs \subseteq outputs'
    BY DEF CallEnds
  <2> QED BY <2>1, <2>2 DEF CallEnds, Recorded
<1>3. Batch' = Batch /\ findings \in Seq(Labels)
  BY DEF CallEnds, Batch, Listed
<1>4. Collected'
  <2>1. DOMAIN batch' = DOMAIN batch \cup {i}
    BY DEF CallEnds
  <2>2. Indices(Batch)' = Indices(Batch)
    BY <1>3 DEF Indices
  <2>3. DOMAIN batch' \subseteq Indices(Batch)'
    BY <2>1, <2>2 DEF Collected
  <2>4. (spc \notin {"gather", "critique"} => batch = <<>>)'
    BY DEF CallEnds
  <2>5. ASSUME NEW j \in DOMAIN batch', batch'[j] # "failed"
        PROVE  Batch[j] \in outputs'
    <3>1. CASE j = i
      <4>1. outcome # "failed"
        BY <2>5, <3>1 DEF CallEnds
      <4> QED BY <3>1, <4>1 DEF CallEnds
    <3>2. CASE j # i
      <4>1. j \in DOMAIN batch /\ batch[j] # "failed"
        BY <2>1, <2>5, <3>2 DEF CallEnds
      <4> QED BY <4>1 DEF CallEnds, Collected
    <3> QED BY <3>1, <3>2
  <2> QED BY <1>3, <2>3, <2>4, <2>5 DEF Collected
<1>5. /\ DOMAIN shown' = DOMAIN shown \cup {Batch[i]}
      /\ shown'[Batch[i]] = PromptOf(i)
      /\ \A l \in DOMAIN shown : l # Batch[i] => shown'[l] = shown[l]
      /\ spc' = spc /\ findings' = findings /\ smode' = smode
      /\ spc \in {"gather", "critique"}
      /\ DOMAIN batch' = DOMAIN batch \cup {i}
  BY AskedIs DEF CallEnds
<1>6. CASE spc = "gather"
  <2>1. Batch[i] = G(i)
    BY <1>3, <1>6, BatchCalls
  <2>2. Asking("c")' = Asking("c")
    BY <1>5, <2>1 DEF Asking, G
  <2>3. AsksFor'
    BY <1>5, <1>6, <2>2 DEF AsksFor
  <2>4. Solo("synth") \notin DOMAIN shown'
    BY <1>5, <1>6, <2>1 DEF Synthesised, G, Solo
  <2> QED BY <1>1, <1>2, <1>4, <2>3, <2>4 DEF Synthesised
<1>7. CASE spc = "critique"
  <2>1. Batch[i] = C(i) /\ i \in Indices(findings)
    BY <1>3, <1>7, BatchCalls DEF Indices
  <2>2. findings[i] \in outputs
    <3>1. findings[i] \in ToSet(findings)
      <4>1. DOMAIN findings = Indices(findings)
        BY <1>3, LenProperties DEF Indices
      <4> QED BY <2>1, <4>1 DEF ToSet
    <3> QED BY <1>7, <3>1 DEF Recorded
  <2>3. PromptOf(i) = {findings[i]}
    BY <1>7, <2>2 DEF PromptOf, Sees, Criticised
  <2>4. Asking("c")' = Asking("c") \cup {C(i)}
    BY <1>5, <2>1 DEF Asking, C
  <2>5. ASSUME NEW l \in Asking("c")'
        PROVE  \E j \in Indices(findings) : l = C(j) /\ shown'[l] = {findings[j]}
    <3>1. CASE l = C(i)
      BY <1>5, <2>1, <2>3, <3>1
    <3>2. CASE l # C(i)
      <4>1. l \in Asking("c") /\ l \in DOMAIN shown
        BY <2>4, <3>2 DEF Asking
      <4>2. shown'[l] = shown[l]
        BY <1>5, <2>1, <3>2, <4>1
      <4> QED BY <4>1, <4>2 DEF AsksFor
    <3> QED BY <3>1, <3>2
  <2>6. \A j \in DOMAIN batch' : C(j) \in DOMAIN shown'
    BY <1>5, <1>7, <2>1 DEF AsksFor
  <2>7. AsksFor'
    <3>1. Indices(findings)' = Indices(findings)
      BY <1>5 DEF Indices
    <3> QED BY <1>5, <1>7, <2>5, <2>6, <3>1 DEF AsksFor
  <2>8. Solo("synth") \notin DOMAIN shown'
    BY <1>5, <1>7, <2>1 DEF Synthesised, C, Solo
  <2> QED BY <1>1, <1>2, <1>4, <2>7, <2>8 DEF Synthesised
<1> QED BY <1>5, <1>6, <1>7

(* The batch is over: it is raised, or its texts go on. *)
LEMMA BatchSettlesKeeps ==
  ASSUME StagesInv, BatchSettles
  PROVE  StagesInv'
<1> USE DEF StagesInv
<1>1. /\ spc \in {"gather", "critique"} /\ smode # "dialectic"
      /\ smode' = smode /\ outputs' = outputs /\ shown' = shown
      /\ batch' = <<>> /\ DOMAIN batch' = {}
      /\ findings \in Seq(Labels) /\ DOMAIN batch \subseteq Indices(Batch)
      /\ Solo("synth") \notin DOMAIN shown /\ Asking("c")' = Asking("c")
  <2>1. DOMAIN <<>> = {}
    OBVIOUS
  <2> QED BY <2>1 DEF BatchSettles, Listed, Staged, Collected, Synthesised, Asking
<1>2. Collected' /\ Synthesised'
  BY <1>1 DEF Collected, Synthesised
<1>3. CASE BatchFailed
  <2>1. /\ spc' = "raised" /\ findings' = findings /\ critiques' = critiques
        /\ trace' = trace
    BY <1>3 DEF BatchSettles
  <2>2. Listed' /\ Staged' /\ Recorded' /\ AsksFor'
    BY <1>1, <2>1 DEF Listed, Staged, Recorded, AsksFor, Indices
  <2> QED BY <1>2, <2>2
<1>4. CASE ~BatchFailed
  <2>1. /\ trace' = trace \o Nonempty
        /\ spc = "gather" => /\ spc' = "frame" /\ findings' = Nonempty
                             /\ critiques' = critiques
        /\ spc = "critique" =>
             /\ spc' = IF smode = "adversarial" THEN "rival" ELSE "synth"
             /\ critiques' = Nonempty /\ findings' = findings
        /\ Indices(Batch) \subseteq DOMAIN batch
    BY <1>1, <1>4 DEF BatchSettles, Settled
  <2>2. /\ Nonempty \in Seq(Labels) /\ IsInjective(Nonempty)
        /\ \A l \in ToSet(Nonempty) : \E i \in DOMAIN batch :
             i \in Indices(Batch) /\ l = Batch[i] /\ batch[i] = "text"
    <3>1. ToSet(Nonempty)
            = {Batch[i] : i \in {j \in DOMAIN batch : batch[j] = "text"}}
      BY <1>1, NonemptyIs
    <3> QED BY <1>1, <3>1, NonemptyIs
  <2>3. ToSet(Nonempty) \subseteq outputs
    BY <2>2 DEF Collected
  <2>4. \A l \in ToSet(Nonempty) : l[1] = IF spc = "gather" THEN "g" ELSE "c"
    <3> TAKE l \in ToSet(Nonempty)
    <3>1. PICK i \in Indices(Batch) : l = Batch[i]
      BY <2>2
    <3> QED BY <1>1, <3>1, BatchCalls DEF G, C
  <2>5. ToSet(trace) = ToSet(findings) \cup ToSet(critiques) \cup Heard
    BY <1>1 DEF Recorded
  <2>6. ToSet(<<>>) = {}
    BY DEF ToSet
  <2>7. ToSet(trace) \cap ToSet(Nonempty) = {}
    <3>1. CASE spc = "gather"
      BY <2>5, <2>6, <3>1 DEF Staged, Heard
    <3>2. CASE spc = "critique"
      <4>1. Heard = {Solo("tension")} /\ critiques = <<>>
        BY <3>2 DEF Staged, Heard
      <4>2. \A l \in ToSet(trace) : l[1] # "c"
        BY <2>5, <2>6, <4>1 DEF Listed, Solo
      <4> QED BY <2>4, <3>2, <4>2
    <3> QED BY <1>1, <3>1, <3>2
  <2>8. /\ trace' \in Seq(Labels) /\ IsInjective(trace')
        /\ ToSet(trace') = ToSet(trace) \cup ToSet(Nonempty)
    <3> DEFINE r == Nonempty
    <3>1. /\ trace \in Seq(Labels) /\ r \in Seq(Labels) /\ IsInjective(trace)
          /\ IsInjective(r) /\ ToSet(trace) \cap ToSet(r) = {}
      BY <2>2, <2>7 DEF Listed
    <3> HIDE DEF r
    <3>2. /\ trace \o r \in Seq(Labels) /\ IsInjective(trace \o r)
          /\ ToSet(trace \o r) = ToSet(trace) \cup ToSet(r)
      BY <3>1, ConcatFresh
    <3> QED BY <2>1, <3>2 DEF r
  <2>9. CASE spc = "gather"
    <3>1. /\ spc' = "frame" /\ findings' = Nonempty /\ critiques' = critiques
          /\ findings = <<>> /\ critiques = <<>> /\ Heard = {} /\ Heard' = {}
      BY <2>1, <2>9 DEF Staged, Heard
    <3>2. Listed'
      BY <2>2, <2>4, <2>8, <2>9, <3>1 DEF Listed
    <3>3. Staged'
      BY <1>1, <3>1 DEF Staged
    <3>4. Recorded'
      BY <1>1, <2>3, <2>5, <2>6, <2>8, <3>1 DEF Recorded
    <3>5. AsksFor'
      BY <1>1, <2>9, <3>1 DEF AsksFor
    <3> QED BY <1>2, <3>2, <3>3, <3>4, <3>5
  <2>10. CASE spc = "critique"
    <3>1. /\ spc' = IF smode = "adversarial" THEN "rival" ELSE "synth"
          /\ critiques' = Nonempty /\ findings' = findings
          /\ critiques = <<>> /\ Heard = {Solo("tension")}
      BY <1>1, <2>1, <2>10 DEF Staged, Heard
    <3>2. Heard' = {Solo("tension")}
      BY <1>1, <3>1 DEF Heard
    <3>3. Listed'
      BY <2>2, <2>4, <2>8, <2>10, <3>1 DEF Listed
    <3>4. Staged'
      BY <1>1, <3>1 DEF Staged
    <3>5. Recorded'
      BY <1>1, <2>3, <2>5, <2>6, <2>8, <3>1, <3>2 DEF Recorded
    <3>6. \A i \in Indices(findings) : C(i) \in DOMAIN shown
      <4> TAKE i \in Indices(findings)
      <4>1. i \in Indices(Batch)
        BY <1>1, <2>10, BatchCalls DEF Indices
      <4> QED BY <2>1, <2>10, <4>1 DEF AsksFor
    <3>7. Indices(findings)' = Indices(findings)
      BY <3>1 DEF Indices
    <3>8. AsksFor'
      BY <1>1, <2>10, <3>1, <3>6, <3>7 DEF AsksFor
    <3> QED BY <1>2, <3>3, <3>4, <3>5, <3>8
  <2> QED BY <1>1, <2>9, <2>10
<1> QED BY <1>3, <1>4

(* A single call has answered: what every one of them keeps. *)
LEMMA SingleKeeps ==
  ASSUME StagesInv, NEW at, NEW label \in SoloNames, NEW texts, NEW to,
         Single(at, label, texts, to), at \notin {"gather", "critique"},
         Solo(label) \notin ToSet(trace)
  PROVE  /\ Listed' /\ batch' = <<>>
         /\ ToSet(trace') = ToSet(trace) \cup {Solo(label)}
         /\ ToSet(trace') \subseteq outputs'
         /\ DOMAIN shown' = DOMAIN shown \cup {Solo(label)}
         /\ shown'[Solo(label)] = texts
         /\ Asking("c")' = Asking("c")
         /\ \A l \in Asking("c") : shown'[l] = shown[l]
         /\ findings' = findings /\ critiques' = critiques /\ smode' = smode
         /\ spc = at /\ spc' = to /\ Indices(findings)' = Indices(findings)
<1> USE DEF StagesInv
<1>1. Solo(label) \in Labels
  BY DEF Solo, Labels, SoloNames
<1>2. trace' = Append(trace, Solo(label))
  BY DEF Single
<1>3. trace' \in Seq(Labels) /\ IsInjective(trace')
      /\ ToSet(trace') = ToSet(trace) \cup {Solo(label)}
  BY <1>1, <1>2, AppendFresh DEF Listed
<1>4. Listed'
  BY <1>3 DEF Single, Listed
<1>5. ToSet(trace') \subseteq outputs'
  BY <1>3 DEF Single, Recorded
<1>6. /\ DOMAIN shown' = DOMAIN shown \cup {Solo(label)}
      /\ shown'[Solo(label)] = texts
      /\ \A l \in DOMAIN shown : l # Solo(label) => shown'[l] = shown[l]
  BY AskedIs DEF Single
<1>7. Asking("c")' = Asking("c")
  BY <1>6 DEF Asking, Solo, SoloNames
<1>8. \A l \in Asking("c") : shown'[l] = shown[l]
  BY <1>6 DEF Asking, Solo, SoloNames
<1>9. batch' = <<>>
  BY DEF Single, Collected
<1> QED BY <1>3, <1>4, <1>5, <1>6, <1>7, <1>8, <1>9 DEF Single, Indices

(* After a call that is not the synthesis only the stage and the labels    *)
(* heard are new.                                                          *)
LEMMA StepKeeps ==
  ASSUME StagesInv, NEW at, NEW label \in SoloNames \ {"synth"}, NEW texts,
         NEW to, Single(at, label, texts, to),
         at \notin {"gather", "critique", "returned"},
         Solo(label) \notin ToSet(trace), Staged',
         to \notin {"gather", "frame"},
         to = "critique" => at # "critique",
         to \in {"rival", "synth"} /\ smode # "dialectic" => at = "rival",
         to \notin {"returned", "raised"} =>
           /\ at # "raised"
           /\ Heard' = Heard \cup {Solo(label)}
  PROVE  StagesInv'
<1>1. /\ Listed' /\ batch' = <<>>
      /\ ToSet(trace') = ToSet(trace) \cup {Solo(label)}
      /\ ToSet(trace') \subseteq outputs'
      /\ DOMAIN shown' = DOMAIN shown \cup {Solo(label)}
      /\ Asking("c")' = Asking("c")
      /\ \A l \in Asking("c") : shown'[l] = shown[l]
      /\ findings' = findings /\ critiques' = critiques /\ smode' = smode
      /\ spc = at /\ spc' = to /\ Indices(findings)' = Indices(findings)
  BY SingleKeeps
<1>2. DOMAIN <<>> = {}
  OBVIOUS
<1>3. Recorded'
  BY <1>1 DEF StagesInv, Recorded
<1>4. Collected'
  BY <1>1, <1>2 DEF Collected
<1>5. AsksFor'
  BY <1>1, <1>2 DEF StagesInv, AsksFor
<1>6. Solo("synth") \notin DOMAIN shown'
  BY <1>1 DEF StagesInv, Synthesised, Solo
<1> QED BY <1>1, <1>3, <1>4, <1>5, <1>6 DEF StagesInv, Synthesised

(* The synthesis is written. *)
LEMMA SynthKeeps ==
  ASSUME StagesInv, Synth
  PROVE  StagesInv'
<1> USE DEF StagesInv
<1> DEFINE z == Solo("synth")
           t == Solo("tension")
<1>1. spc = "synth" /\ Single("synth", "synth", SynthesisShows, "returned")
  BY DEF Synth, Single
<1>2. ToSet(trace) = ToSet(findings) \cup ToSet(critiques) \cup Heard
  BY <1>1 DEF Recorded
<1>3. t \in Heard /\ z \notin Heard /\ t # z
  BY <1>1 DEF Heard, Solo
<1>4. z \notin ToSet(trace)
  BY <1>2, <1>3 DEF Listed, Solo
<1>5. /\ Listed' /\ batch' = <<>>
      /\ ToSet(trace') = ToSet(trace) \cup {z}
      /\ ToSet(trace') \subseteq outputs'
      /\ DOMAIN shown' = DOMAIN shown \cup {z}
      /\ shown'[z] = SynthesisShows
      /\ Asking("c")' = Asking("c")
      /\ \A l \in Asking("c") : shown'[l] = shown[l]
      /\ findings' = findings /\ critiques' = critiques /\ smode' = smode
      /\ spc' = "returned" /\ Indices(findings)' = Indices(findings)
  <2>1. PICK at, label, texts, to :
          /\ at = "synth" /\ label = "synth" /\ to = "returned"
          /\ texts = SynthesisShows
    OBVIOUS
  <2>2. /\ StagesInv /\ label \in SoloNames /\ at \notin {"gather", "critique"}
        /\ Single(at, label, texts, to) /\ Solo(label) \notin ToSet(trace)
    BY <1>1, <1>4, <2>1 DEF SoloNames
  <2> HIDE DEF StagesInv
  <2>3. /\ Listed' /\ batch' = <<>>
        /\ ToSet(trace') = ToSet(trace) \cup {Solo(label)}
        /\ ToSet(trace') \subseteq outputs'
        /\ DOMAIN shown' = DOMAIN shown \cup {Solo(label)}
        /\ shown'[Solo(label)] = texts
        /\ Asking("c")' = Asking("c")
        /\ \A l \in Asking("c") : shown'[l] = shown[l]
        /\ findings' = findings /\ critiques' = critiques /\ smode' = smode
        /\ spc' = to /\ Indices(findings)' = Indices(findings)
    BY <2>2, SingleKeeps
  <2> QED BY <2>1, <2>3
<1>6. DOMAIN <<>> = {}
  OBVIOUS
<1>7. Staged' /\ Recorded' /\ Collected'
  BY <1>1, <1>5, <1>6 DEF Staged, Recorded, Collected
<1>8. AsksFor'
  BY <1>1, <1>5, <1>6 DEF AsksFor
<1>9. /\ SynthesisShows \subseteq ToSet(trace)
      /\ t \in SynthesisShows
      /\ ToSet(critiques) \subseteq SynthesisShows
      /\ smode \in {"inline", "adversarial"} => SynthesisShows = ToSet(trace)
  <2> HIDE DEF z, t
  <2>1. ToSet(trace) \subseteq outputs /\ t \in ToSet(trace)
    BY <1>2, <1>3 DEF Recorded
  <2>2. smode \in {"inline", "access", "adversarial", "dialectic"}
    BY StagesAssumption DEF Staged
  <2>3. CASE smode = "access"
    <3>1. SynthesisShows = Sees({t} \cup ToSet(critiques))
      BY <2>3 DEF SynthesisShows, t
    <3>2. SynthesisShows = {t} \cup ToSet(critiques)
      BY <1>2, <2>1, <3>1 DEF Sees
    <3> QED BY <1>2, <2>1, <2>3, <3>2
  <2>4. CASE smode = "inline"
    <3>1. Heard = {t}
      BY <1>1, <2>4 DEF Heard, t
    <3>2. SynthesisShows = {t} \cup ToSet(findings) \cup ToSet(critiques)
      BY <2>4 DEF SynthesisShows, t
    <3> QED BY <1>2, <3>1, <3>2
  <2>5. CASE smode = "adversarial"
    <3>1. Heard = {t, Solo("rival")}
      BY <1>1, <2>5 DEF Heard, t
    <3>2. SynthesisShows = {t, Solo("rival")} \cup ToSet(findings)
                             \cup ToSet(critiques)
      BY <2>5 DEF SynthesisShows, t
    <3> QED BY <1>2, <3>1, <3>2
  <2>6. CASE smode = "dialectic"
    <3>1. Heard = {t, Solo("thesis"), Solo("antithesis")}
      BY <1>1, <2>6 DEF Heard, t
    <3>2. SynthesisShows = {t, Solo("thesis"), Solo("antithesis")}
      BY <2>6 DEF SynthesisShows, t
    <3>3. ToSet(critiques) = {}
      BY <2>6 DEF Staged, ToSet
    <3> QED BY <1>2, <2>6, <3>1, <3>2, <3>3
  <2> QED BY <2>2, <2>3, <2>4, <2>5, <2>6
<1>10. smode = "access" =>
         UNION {shown'[l] : l \in Asking("c")} = ToSet(findings)
  <2> SUFFICES ASSUME smode = "access"
               PROVE  UNION {shown[l] : l \in Asking("c")} = ToSet(findings)
    BY <1>5
  <2>1. DOMAIN findings = Indices(findings)
    BY LenProperties DEF Listed, Indices
  <2>2. \A i \in Indices(findings) : C(i) \in Asking("c")
    BY <1>1 DEF AsksFor, Asking, C
  <2>3. \A l \in Asking("c") : \E i \in Indices(findings) :
          l = C(i) /\ shown[l] = {findings[i]}
    BY DEF AsksFor
  <2>4. ASSUME NEW i \in Indices(findings)
        PROVE  shown[C(i)] = {findings[i]}
    <3>1. PICK j \in Indices(findings) :
            C(i) = C(j) /\ shown[C(i)] = {findings[j]}
      BY <2>2, <2>3
    <3>2. i = j
      BY <3>1 DEF C
    <3> QED BY <3>1, <3>2
  <2>5. ASSUME NEW x \in ToSet(findings)
        PROVE  x \in UNION {shown[l] : l \in Asking("c")}
    <3>1. PICK i \in Indices(findings) : x = findings[i]
      BY <2>1 DEF ToSet
    <3> QED BY <2>2, <2>4, <3>1
  <2>6. ASSUME NEW x \in UNION {shown[l] : l \in Asking("c")}
        PROVE  x \in ToSet(findings)
    <3>1. PICK l \in Asking("c") : x \in shown[l]
      OBVIOUS
    <3> QED BY <2>1, <2>3, <3>1 DEF ToSet
  <2> QED BY <2>5, <2>6
<1>11. Synthesised'
  BY <1>3, <1>4, <1>5, <1>9, <1>10 DEF Synthesised
<1> QED BY <1>5, <1>7, <1>8, <1>11

(* Every step of a staged workflow keeps the invariant. *)
LEMMA StagesInductive == StagesInv /\ [StagesNext]_stagesVars => StagesInv'
<1> SUFFICES ASSUME StagesInv, [StagesNext]_stagesVars PROVE StagesInv'
  OBVIOUS
<1> DEFINE t == Solo("tension")
<1>0. /\ spc \notin {"returned", "raised"} =>
           ToSet(trace) = ToSet(findings) \cup ToSet(critiques) \cup Heard
      /\ \A n \in SoloNames : Solo(n) \notin ToSet(findings) \cup ToSet(critiques)
  BY DEF StagesInv, Recorded, Listed, Solo, SoloNames
<1>1. CASE \E i \in Indices(Batch), outcome \in {"text", "empty", "failed"} :
             CallEnds(i, outcome)
  BY <1>1, CallEndsKeeps
<1>2. CASE BatchSettles
  BY <1>2, BatchSettlesKeeps
<1>3. CASE Frame
  <2>1. /\ Single("frame", "tension", {}, "critique") /\ spc = "frame"
        /\ spc' = "critique" /\ smode # "dialectic" /\ smode' = smode
        /\ findings' = findings /\ critiques' = critiques
    BY <1>3 DEF Frame, Single
  <2>2. Heard = {} /\ Heard' = {t} /\ "tension" \in SoloNames \ {"synth"}
    BY <2>1 DEF Heard, Solo, SoloNames
  <2>3. t \notin ToSet(trace)
    BY <1>0, <2>1, <2>2
  <2>4. Staged'
    BY <2>1 DEF StagesInv, Staged
  <2> QED BY <2>1, <2>2, <2>3, <2>4, StepKeeps
<1>4. CASE Rival
  <2>1. /\ Single("rival", "rival", {t}, "synth") /\ spc = "rival"
        /\ spc' = "synth" /\ smode = "adversarial" /\ smode' = smode
        /\ findings' = findings /\ critiques' = critiques
    BY <1>4 DEF Rival, Single, StagesInv, Staged
  <2>2. /\ Heard = {t} /\ Heard' = {t, Solo("rival")}
        /\ "rival" \in SoloNames \ {"synth"}
    BY <2>1 DEF Heard, SoloNames
  <2>3. Solo("rival") \notin ToSet(trace)
    BY <1>0, <2>1, <2>2 DEF Solo
  <2>4. Staged'
    BY <2>1 DEF StagesInv, Staged
  <2> QED BY <2>1, <2>2, <2>3, <2>4, StepKeeps
<1>5. CASE Tension
  <2>1. PICK to \in {"thesis", "direct"} : Single("frame", "tension", {}, to)
    BY <1>5 DEF Tension
  <2>2. /\ spc = "frame" /\ spc' = to /\ smode = "dialectic" /\ smode' = smode
        /\ findings' = findings /\ critiques' = critiques
    BY <1>5, <2>1 DEF Tension, Single
  <2>3. Heard = {} /\ Heard' = {t} /\ "tension" \in SoloNames \ {"synth"}
    BY <2>2 DEF Heard, SoloNames
  <2>4. t \notin ToSet(trace)
    BY <1>0, <2>2, <2>3
  <2>5. Staged'
    BY <2>2 DEF StagesInv, Staged
  <2> QED BY <2>1, <2>2, <2>3, <2>4, <2>5, StepKeeps
<1>6. CASE Thesis
  <2>1. /\ Single("thesis", "thesis", {}, "antithesis") /\ spc = "thesis"
        /\ spc' = "antithesis" /\ smode = "dialectic" /\ smode' = smode
        /\ findings' = findings /\ critiques' = critiques
    BY <1>6 DEF Thesis, Single, StagesInv, Staged
  <2>2. /\ Heard = {t} /\ Heard' = {t, Solo("thesis")}
        /\ "thesis" \in SoloNames \ {"synth"}
    BY <2>1 DEF Heard, SoloNames
  <2>3. Solo("thesis") \notin ToSet(trace)
    BY <1>0, <2>1, <2>2 DEF Solo
  <2>4. Staged'
    BY <2>1 DEF StagesInv, Staged
  <2> QED BY <2>1, <2>2, <2>3, <2>4, StepKeeps
<1>7. CASE DirectThesis
  <2>1. /\ Single("direct", "thesis", {}, "returned") /\ spc = "direct"
        /\ spc' = "returned" /\ smode = "dialectic" /\ smode' = smode
        /\ findings' = findings /\ critiques' = critiques
    BY <1>7 DEF DirectThesis, Single, StagesInv, Staged
  <2>2. Heard = {t} /\ "thesis" \in SoloNames \ {"synth"}
    BY <2>1 DEF Heard, SoloNames
  <2>3. Solo("thesis") \notin ToSet(trace)
    BY <1>0, <2>1, <2>2 DEF Solo
  <2>4. Staged'
    BY <2>1 DEF StagesInv, Staged
  <2> QED BY <2>1, <2>2, <2>3, <2>4, StepKeeps
<1>8. CASE Antithesis
  <2>1. /\ Single("antithesis", "antithesis", {Solo("thesis"), t}, "synth")
        /\ spc = "antithesis" /\ spc' = "synth" /\ smode = "dialectic"
        /\ smode' = smode /\ findings' = findings /\ critiques' = critiques
    BY <1>8 DEF Antithesis, Single, StagesInv, Staged
  <2>2. /\ Heard = {t, Solo("thesis")}
        /\ Heard' = {t, Solo("thesis"), Solo("antithesis")}
        /\ "antithesis" \in SoloNames \ {"synth"}
    BY <2>1 DEF Heard, SoloNames
  <2>3. Solo("antithesis") \notin ToSet(trace)
    BY <1>0, <2>1, <2>2 DEF Solo
  <2>4. Staged'
    BY <2>1 DEF StagesInv, Staged
  <2> QED BY <2>1, <2>2, <2>3, <2>4, StepKeeps
<1>9. CASE Synth
  BY <1>9, SynthKeeps
<1>10. CASE StageRaises
  BY <1>10 DEF StageRaises, StagesInv, Listed, Staged, Recorded, Collected,
     Batch, AsksFor, Asking, Synthesised
<1>11. CASE UNCHANGED stagesVars
  <2>1. Heard' = Heard /\ Batch' = Batch
    BY <1>11 DEF stagesVars, Heard, Batch
  <2> QED BY <1>11, <2>1 DEF stagesVars, StagesInv, Listed, Staged, Recorded,
          Collected, AsksFor, Asking, Synthesised
<1> QED
  BY <1>1, <1>2, <1>3, <1>4, <1>5, <1>6, <1>7, <1>8, <1>9, <1>10, <1>11
  DEF StagesNext

(* The invariant says what StagesInformed does. *)
LEMMA StagesInvInformed == StagesInv => StagesInformed
<1> SUFFICES ASSUME StagesInv PROVE StagesInformed
  OBVIOUS
<1>1. DOMAIN findings = Indices(findings)
  BY LenProperties DEF StagesInv, Listed, Indices
<1>2. \A l \in Asking("c") : \E i \in Indices(findings) :
        l = C(i) /\ shown[l] = {findings[i]}
  BY DEF StagesInv, AsksFor
<1>3. \A l \in Asking("c") : \E f \in ToSet(findings) : shown[l] = {f}
  BY <1>1, <1>2 DEF ToSet
<1>4. ASSUME NEW l \in Asking("c"), NEW k \in Asking("c"), shown[l] = shown[k]
      PROVE  l = k
  <2>1. PICK i \in Indices(findings) : l = C(i) /\ shown[l] = {findings[i]}
    BY <1>2
  <2>2. PICK j \in Indices(findings) : k = C(j) /\ shown[k] = {findings[j]}
    BY <1>2
  <2>3. findings[i] = findings[j]
    BY <1>4, <2>1, <2>2
  <2> QED BY <1>1, <2>1, <2>2, <2>3 DEF StagesInv, Listed, IsInjective
<1> QED BY <1>3, <1>4 DEF StagesInv, Listed, Synthesised, StagesInformed

(* The invariant of Stages holds at first. *)
LEMMA StagesStart == StagesInit => StagesInv
<1> SUFFICES ASSUME StagesInit PROVE StagesInv
  OBVIOUS
<1>1. /\ <<>> \in Seq(Labels) /\ IsInjective(<<>>) /\ ToSet(<<>>) = {}
      /\ DOMAIN <<>> = {}
  BY DEF IsInjective, ToSet
<1>2. Listed /\ Staged /\ Collected
  BY <1>1 DEF StagesInit, Listed, Staged, Collected
<1>3. Recorded /\ AsksFor /\ Synthesised
  BY <1>1 DEF StagesInit, Recorded, Heard, AsksFor, Asking, Synthesised
<1> QED BY <1>2, <1>3 DEF StagesInv

(* In every form of the staged workflows and for every number of angles,   *)
(* whatever order the calls of a batch end in and whichever answers are    *)
(* empty, each critique is about one nonempty analysis of its own and the  *)
(* synthesis shows all that was passed on, which is what the report lists. *)
THEOREM NothingIsLost == StagesSpec => []StagesInformed
<1>1. StagesSpec => []StagesInv
  BY StagesStart, StagesInductive, PTL DEF StagesSpec
<1> QED BY <1>1, StagesInvInformed, PTL

-----------------------------------------------------------------------------
(* TreeSearch.                                                             *)

TreeSpec == TreeInit /\ [][TreeNext]_treeVars

Thoughts == Seq(Nat)

-----------------------------------------------------------------------------
(* A part of a list from its front. *)
LEMMA TopIs ==
  ASSUME NEW S, NEW s \in Seq(S), NEW n \in Nat
  PROVE  /\ Top(s, n) \in Seq(S)
         /\ Len(Top(s, n)) = IF Len(s) < n THEN Len(s) ELSE n
         /\ \A k \in 1..Len(Top(s, n)) : Top(s, n)[k] = s[k]
<1> DEFINE m == IF Len(s) < n THEN Len(s) ELSE n
           t == SubSeq(s, 1, m)
<1>1. Len(s) \in Nat /\ DOMAIN s = 1..Len(s) /\ m \in Nat /\ m <= Len(s)
  BY LenProperties
<1>2. \A i \in 1..m : s[i] \in S
  <2> HIDE DEF m
  <2> QED BY <1>1, ElementOfSeq
<1> HIDE DEF m
<1>3. /\ t \in Seq(S)
      /\ Len(t) = IF 1 <= m THEN m - 1 + 1 ELSE 0
      /\ \A i \in 1..(m - 1 + 1) : t[i] = s[1 + i - 1]
  <2>1. 1 \in Int /\ m \in Int
    BY <1>1
  <2> QED BY <1>2, <2>1, SubSeqProperties
<1>4. Len(t) = m
  BY <1>1, <1>3
<1>5. \A i \in 1..m : t[i] = s[i]
  <2> TAKE i \in 1..m
  <2>1. i \in 1..(m - 1 + 1) /\ 1 + i - 1 = i
    BY <1>1
  <2> QED BY <1>3, <2>1
<1>6. Top(s, n) = t
  BY DEF Top, m
<1> QED BY <1>3, <1>4, <1>5, <1>6 DEF m

(* What sorting by score does to a list of thoughts. *)
LEMMA ByScoreIs ==
  ASSUME NEW S, NEW ids \in Seq(S), \A n \in DOMAIN score : score[n] \in Int
  PROVE  /\ Len(ids) \in Nat
         /\ \E at \in [1..Len(ids) -> 1..Len(ids)] :
              /\ \A i \in 1..Len(ids) : \E k \in 1..Len(ids) : at[k] = i
              /\ \A k, l \in 1..Len(ids) : at[k] = at[l] => k = l
              /\ ByScore(ids) = [k \in 1..Len(ids) |-> ids[at[k]]]
              /\ \A k, l \in 1..Len(ids) : k < l =>
                   ScoreOf(ids[at[l]]) <= ScoreOf(ids[at[k]])
<1> DEFINE n == Len(ids)
           I == DOMAIN ids
           o == Better(ids)
<1>1. n \in Nat /\ I = 1..n
  BY LenProperties
<1>2. \A x : ScoreOf(x) \in Int
  BY DEF ScoreOf
<1>3. IsFiniteSet(I) /\ Cardinality(I) = n
  <2>1. 1 \in Int /\ n \in Int
    BY <1>1
  <2>2. IsFiniteSet(1..n)
        /\ Cardinality(1..n) = IF 1 > n THEN 0 ELSE n - 1 + 1
    BY <2>1, FS_Interval
  <2> QED BY <1>1, <2>2
<1>4. \A i, j \in I : <<i, j>> \in o <=>
        \/ ScoreOf(ids[i]) > ScoreOf(ids[j])
        \/ ScoreOf(ids[i]) = ScoreOf(ids[j]) /\ i < j
  BY DEF Better
<1> HIDE DEF n, I, o
<1>5. StrictTotal(I, o)
  <2>1. \A i \in I : i \in Int /\ ScoreOf(ids[i]) \in Int
    BY <1>1, <1>2
  <2>2. \A i \in I : <<i, i>> \notin o
    BY <1>4, <2>1
  <2>3. \A i, j, k \in I : <<i, j>> \in o /\ <<j, k>> \in o => <<i, k>> \in o
    BY <1>4, <2>1
  <2>4. \A i, j \in I : i = j \/ <<i, j>> \in o \/ <<j, i>> \in o
    <3> TAKE i, j \in I
    <3> DEFINE x == ScoreOf(ids[i])
               y == ScoreOf(ids[j])
    <3>1. /\ x \in Int /\ y \in Int /\ i \in Int /\ j \in Int
          /\ <<i, j>> \in o <=> x > y \/ (x = y /\ i < j)
          /\ <<j, i>> \in o <=> y > x \/ (y = x /\ j < i)
      BY <1>4, <2>1
    <3> HIDE DEF x, y
    <3> QED BY <3>1
  <2> QED BY <2>2, <2>3, <2>4 DEF StrictTotal
<1>6. PICK at \in [1..Cardinality(I) -> I] :
        /\ \A i \in I : \E k \in 1..Cardinality(I) : at[k] = i
        /\ \A k, l \in 1..Cardinality(I) : k < l => <<at[k], at[l]>> \in o
        /\ \A k, l \in 1..Cardinality(I) : at[k] = at[l] => k = l
        /\ Arranged(ids, I, o) = [k \in 1..Cardinality(I) |-> ids[at[k]]]
  <2>1. IsFiniteSet(I)
    BY <1>3
  <2> QED BY <1>5, <2>1, ArrangedPlaces
<1>7. \A k, l \in 1..n : k < l => ScoreOf(ids[at[l]]) <= ScoreOf(ids[at[k]])
  <2> TAKE k, l \in 1..n
  <2> HAVE k < l
  <2>1. at[k] \in I /\ at[l] \in I /\ <<at[k], at[l]>> \in o
    BY <1>3, <1>6
  <2>2. ScoreOf(ids[at[k]]) \in Int /\ ScoreOf(ids[at[l]]) \in Int
    BY <1>2
  <2> QED BY <1>4, <2>1, <2>2
<1>8. ByScore(ids) = Arranged(ids, I, o)
  BY DEF ByScore, I, o
<1>9. at \in [1..n -> 1..n]
  BY <1>1, <1>3, <1>6
<1> QED BY <1>1, <1>3, <1>6, <1>7, <1>8, <1>9 DEF n

(* The best of a list: none of the others has a higher score. *)
LEMMA TopByScore ==
  ASSUME NEW S, NEW ids \in Seq(S), NEW c \in Nat \ {0},
         \A n \in DOMAIN score : score[n] \in Int
  PROVE  LET t == Top(ByScore(ids), c)
         IN  /\ t \in Seq(S) /\ Len(t) <= c /\ Len(t) \in Nat
             /\ ToSet(t) \subseteq ToSet(ids)
             /\ IsInjective(ids) => IsInjective(t)
             /\ t # <<>> <=> ids # <<>>
             /\ ids # <<>> => t[1] = ByScore(ids)[1] /\ t[1] \in ToSet(ids)
             /\ \A p \in ToSet(t), m \in ToSet(ids) \ ToSet(t) :
                  ScoreOf(m) <= ScoreOf(p)
<1> DEFINE n == Len(ids)
           b == ByScore(ids)
           t == Top(b, c)
<1>1. n \in Nat /\ DOMAIN ids = 1..n /\ \A i \in 1..n : ids[i] \in S
  BY LenProperties, ElementOfSeq
<1>2. PICK at \in [1..n -> 1..n] :
        /\ \A i \in 1..n : \E k \in 1..n : at[k] = i
        /\ \A k, l \in 1..n : at[k] = at[l] => k = l
        /\ b = [k \in 1..n |-> ids[at[k]]]
        /\ \A k, l \in 1..n : k < l =>
             ScoreOf(ids[at[l]]) <= ScoreOf(ids[at[k]])
  BY ByScoreIs
<1> HIDE DEF n, b
<1>3. b \in Seq(S) /\ Len(b) = n /\ \A k \in 1..n : b[k] = ids[at[k]]
  <2>1. b \in [1..n -> S]
    BY <1>1, <1>2
  <2>2. b \in Seq(S)
    BY <1>1, <2>1
  <2> QED BY <1>1, <1>2, <2>1, <2>2, LenProperties
<1>4. /\ t \in Seq(S) /\ Len(t) = IF n < c THEN n ELSE c
      /\ \A k \in 1..Len(t) : t[k] = b[k]
  BY <1>3, TopIs
<1> DEFINE m == Len(t)
<1> HIDE DEF t
<1>5. m \in Nat /\ m <= n /\ m <= c /\ DOMAIN t = 1..m
  BY <1>1, <1>4, LenProperties
<1>6. m < n => m = c
  BY <1>1, <1>4
<1> HIDE DEF m
<1>7. \A k \in 1..m : k \in 1..n /\ at[k] \in 1..n /\ t[k] = ids[at[k]]
  <2> TAKE k \in 1..m
  <2>1. k \in 1..n
    BY <1>1, <1>5
  <2> QED BY <1>2, <1>3, <1>4, <2>1 DEF m
<1>8. ToSet(t) \subseteq ToSet(ids)
  BY <1>1, <1>5, <1>7 DEF ToSet
<1>9. IsInjective(ids) => IsInjective(t)
  <2> SUFFICES ASSUME IsInjective(ids), NEW k \in 1..m, NEW l \in 1..m,
                      t[k] = t[l]
               PROVE  k = l
    BY <1>5 DEF IsInjective
  <2>1. /\ k \in 1..n /\ at[k] \in 1..n /\ t[k] = ids[at[k]]
        /\ l \in 1..n /\ at[l] \in 1..n /\ t[l] = ids[at[l]]
    BY <1>7
  <2>2. at[k] = at[l]
    BY <1>1, <2>1 DEF IsInjective
  <2> QED BY <1>2, <2>1, <2>2
<1>10. t # <<>> <=> ids # <<>>
  <2>1. t # <<>> <=> m # 0
    BY <1>4, EmptySeq DEF m
  <2>2. ids # <<>> <=> n # 0
    BY EmptySeq DEF n
  <2>3. m = IF n < c THEN n ELSE c
    BY <1>4 DEF m
  <2> QED BY <1>1, <2>1, <2>2, <2>3
<1>11. ids # <<>> => t[1] = b[1] /\ t[1] \in ToSet(ids)
  <2> HAVE ids # <<>>
  <2>1. m # 0
    BY <1>4, <1>10, EmptySeq DEF m
  <2>2. 1 \in 1..m
    BY <1>5, <2>1
  <2> QED BY <1>1, <1>4, <1>7, <2>2 DEF m, ToSet
<1>12. ASSUME NEW p \in ToSet(t), NEW x \in ToSet(ids) \ ToSet(t)
       PROVE  ScoreOf(x) <= ScoreOf(p)
  <2>1. PICK k \in 1..m : p = ids[at[k]]
    BY <1>5, <1>7 DEF ToSet
  <2>2. PICK i \in 1..n : x = ids[i]
    BY <1>1 DEF ToSet
  <2>3. PICK l \in 1..n : at[l] = i
    BY <1>2
  <2>4. l \notin 1..m
    BY <1>5, <1>7, <2>2, <2>3 DEF ToSet
  <2>5. k < l /\ k \in 1..n
    BY <1>1, <1>5, <2>4
  <2> QED BY <1>2, <2>1, <2>2, <2>3, <2>5
<1> QED
  BY <1>4, <1>5, <1>8, <1>9, <1>10, <1>11, <1>12 DEF t, b, m

(* The thoughts that clear the threshold. *)
LEMMA ClearsIs ==
  ASSUME NEW S, NEW ids \in Seq(S)
  PROVE  /\ Clears(ids) \in Seq(S)
         /\ ToSet(Clears(ids)) = {x \in ToSet(ids) : ScoreOf(x) >= Threshold}
         /\ IsInjective(ids) => IsInjective(Clears(ids))
<1> DEFINE I == {i \in DOMAIN ids : ScoreOf(ids[i]) >= Threshold}
<1>1. I \subseteq DOMAIN ids /\ Clears(ids) = Keep(ids, I)
  BY DEF Clears
<1>2. {ids[i] : i \in I} = {x \in ToSet(ids) : ScoreOf(x) >= Threshold}
  BY DEF ToSet
<1> HIDE DEF I
<1>3. /\ Keep(ids, I) \in Seq(S)
      /\ ToSet(Keep(ids, I)) = {ids[i] : i \in I}
      /\ IsInjective(ids) => IsInjective(Keep(ids, I))
  BY <1>1, KeepIs
<1> QED BY <1>1, <1>2, <1>3

(* The thoughts with a score, in the order they were added. *)
LEMMA ScoredIs ==
  ASSUME nodes \in Seq(Thoughts)
  PROVE  Scored \in Seq(Thoughts) /\ ToSet(Scored) \subseteq ToSet(nodes)
<1> DEFINE I == {i \in DOMAIN nodes : nodes[i] \in DOMAIN score}
<1>1. I \subseteq DOMAIN nodes /\ Scored = Keep(nodes, I)
  BY DEF Scored
<1>2. {nodes[i] : i \in I} \subseteq ToSet(nodes)
  BY DEF ToSet
<1> HIDE DEF I
<1>3. /\ Keep(nodes, I) \in Seq(Thoughts)
      /\ ToSet(Keep(nodes, I)) = {nodes[i] : i \in I}
  BY <1>1, KeepIs
<1> QED BY <1>1, <1>2, <1>3

(* The children of a thought: it is their beginning. *)
LEMMA ChildIs ==
  ASSUME NEW p \in Thoughts, NEW i \in Nat
  PROVE  /\ Len(p) \in Nat /\ Append(p, i) \in Thoughts
         /\ Len(Append(p, i)) = Len(p) + 1
         /\ SubSeq(Append(p, i), 1, Len(p)) = p
         /\ \A k \in 0..Len(p) : SubSeq(Append(p, i), 1, k) = SubSeq(p, 1, k)
         /\ Append(p, i)[Len(p) + 1] = i
<1> DEFINE c == Append(p, i)
           n == Len(p)
<1>1. /\ n \in Nat /\ c \in Seq(Nat) /\ Len(c) = n + 1
      /\ \A k \in 1..n : c[k] = p[k]
      /\ c[n + 1] = i
  BY AppendProperties, LenProperties DEF Thoughts
<1>2. \A k \in 1..n : p[k] \in Nat
  BY ElementOfSeq DEF Thoughts
<1> HIDE DEF c
<1>3. \A k \in 0..n : SubSeq(c, 1, k) = SubSeq(p, 1, k)
  <2> TAKE k \in 0..n
  <2>1. k \in Int /\ 1 \in Int
    BY <1>1
  <2>2. \A j \in 1..k : c[j] \in Nat /\ p[j] \in Nat /\ c[j] = p[j]
    <3> TAKE j \in 1..k
    <3>1. j \in 1..n
      BY <1>1
    <3> QED BY <1>1, <1>2, <3>1
  <2>3. /\ SubSeq(c, 1, k) \in Seq(Nat) /\ SubSeq(p, 1, k) \in Seq(Nat)
        /\ Len(SubSeq(c, 1, k)) = Len(SubSeq(p, 1, k))
        /\ \A j \in 1..(k - 1 + 1) : SubSeq(c, 1, k)[j] = c[1 + j - 1]
        /\ \A j \in 1..(k - 1 + 1) : SubSeq(p, 1, k)[j] = p[1 + j - 1]
        /\ Len(SubSeq(c, 1, k)) = IF 1 <= k THEN k - 1 + 1 ELSE 0
    BY <2>1, <2>2, SubSeqProperties
  <2>4. \A j \in 1..Len(SubSeq(c, 1, k)) : SubSeq(c, 1, k)[j] = SubSeq(p, 1, k)[j]
    <3> TAKE j \in 1..Len(SubSeq(c, 1, k))
    <3>1. j \in 1..(k - 1 + 1) /\ j \in 1..k /\ 1 + j - 1 = j
      BY <1>1, <2>3
    <3> QED BY <2>2, <2>3, <3>1
  <2> DEFINE x == SubSeq(c, 1, k)
             y == SubSeq(p, 1, k)
  <2>5. x \in Seq(Nat) /\ y \in Seq(Nat) /\ Len(x) = Len(y)
        /\ \A j \in 1..Len(x) : x[j] = y[j]
    BY <2>3, <2>4
  <2> HIDE DEF x, y
  <2>6. x = y
    BY <2>5, SeqEqual
  <2> QED BY <2>6 DEF x, y
<1>4. SubSeq(p, 1, n) = p
  BY SubSeqFull DEF Thoughts
<1>5. n \in 0..n
  BY <1>1
<1>6. SubSeq(c, 1, n) = p
  BY <1>3, <1>4, <1>5
<1> QED BY <1>1, <1>3, <1>6 DEF c, Thoughts

(* The list of children an expansion adds. *)
LEMMA ChildrenAre ==
  ASSUME NEW p \in Thoughts, NEW count \in Nat
  PROVE  /\ Children(p, count) \in Seq(Thoughts)
         /\ Len(Children(p, count)) = count
         /\ IsInjective(Children(p, count))
         /\ \A c \in ToSet(Children(p, count)) :
              /\ c \in Thoughts /\ Len(c) = Len(p) + 1
              /\ SubSeq(c, 1, Len(p)) = p
              /\ \A k \in 0..Len(p) : SubSeq(c, 1, k) = SubSeq(p, 1, k)
<1> DEFINE new == Children(p, count)
<1>1. \A i \in 1..count :
        /\ Len(p) \in Nat /\ Append(p, i) \in Thoughts
        /\ Len(Append(p, i)) = Len(p) + 1
        /\ SubSeq(Append(p, i), 1, Len(p)) = p
        /\ \A k \in 0..Len(p) : SubSeq(Append(p, i), 1, k) = SubSeq(p, 1, k)
        /\ Append(p, i)[Len(p) + 1] = i
  <2> TAKE i \in 1..count
  <2>1. i \in Nat
    OBVIOUS
  <2> QED BY <2>1, ChildIs
<1>2. Len(p) \in Nat
  BY LenProperties DEF Thoughts
<1>3. DOMAIN new = 1..count /\ \A i \in 1..count : new[i] = Append(p, i)
  BY DEF Children
<1>4. new \in [1..count -> Thoughts]
  BY <1>1 DEF Children
<1> HIDE DEF new
<1>5. new \in Seq(Thoughts) /\ Len(new) = count
  BY <1>4, <1>3, LenProperties
<1>6. \A i, j \in 1..count : new[i] = new[j] => i = j
  <2> TAKE i, j \in 1..count
  <2> HAVE new[i] = new[j]
  <2>1. Append(p, i) = Append(p, j)
    BY <1>3
  <2> QED BY <1>1, <2>1
<1>7. IsInjective(new)
  BY <1>3, <1>6 DEF IsInjective
<1>8. \A c \in ToSet(new) : \E i \in 1..count : c = Append(p, i)
  BY <1>3 DEF ToSet
<1> QED BY <1>1, <1>2, <1>5, <1>7, <1>8 DEF new

-----------------------------------------------------------------------------
(* The thoughts of the beams: expanded, or about to be. *)
Held == expanded \cup ToSet(parents)

TTypeOK ==
  /\ nodes \in Seq(Thoughts) /\ parents \in Seq(Thoughts)
  /\ siblings \in Seq(Thoughts) /\ todo \in Seq(Thoughts)
  /\ rounds \in Seq(Int)
  /\ \A n \in DOMAIN score : score[n] \in Int
  /\ expanded \subseteq Thoughts /\ DOMAIN score \subseteq Thoughts

(* Every thought is reached through expanded ones. *)
Rooted ==
  /\ ToSet(parents) \subseteq ToSet(nodes)
  /\ ToSet(siblings) \subseteq ToSet(nodes)
  /\ \A n \in ToSet(nodes) : \A k \in 0..(Len(n) - 1) : SubSeq(n, 1, k) \in expanded

(* A batch is one depth of the tree. *)
Level(d) ==
  /\ \A p \in ToSet(parents) : Len(p) = d
  /\ \A s \in ToSet(siblings) : Len(s) = d + 1 /\ SubSeq(s, 1, d) \notin ToSet(parents)
  /\ \A n \in expanded : Len(n) <= d
  /\ \A n \in DOMAIN score :
       \/ Len(n) <= d
       \/ tpc # "expand" /\ n \in ToSet(siblings)

(* Every thought of the batch is scored, and once. *)
Pending ==
  /\ IsInjective(parents) /\ IsInjective(siblings) /\ IsInjective(todo)
  /\ tpc \in {"score", "synthesize", "returned"} => parents = <<>>
  /\ tpc = "score" =>
       /\ ToSet(todo) \subseteq ToSet(siblings)
       /\ ToSet(siblings) \subseteq DOMAIN score \cup ToSet(todo)
       /\ \A n \in ToSet(todo) : n \notin DOMAIN score

Rounds ==
  \A i \in DOMAIN rounds :
    /\ scoring \in DOMAIN score => rounds[i] <= score[scoring]
    /\ (scoring \in DOMAIN score => i < Len(rounds)) => rounds[i] < Threshold

(* What the beams were chosen by. *)
Chosen ==
  /\ \A n \in Held \ {Root} :
       /\ n \in DOMAIN score /\ (Len(n) > 1 => score[n] >= Threshold)
       /\ Len(n) < MaxDepth
  /\ \A n \in Held \ {Root}, m \in DOMAIN score \ Held :
       Len(m) = Len(n) => score[m] <= score[n]
  /\ \A d \in Nat \ {0} :
       LET held == {n \in Held : Len(n) = d}
       IN  IsFiniteSet(held) /\ Cardinality(held) <= BeamWidth

Answered == tpc = "returned" => offered = Top(ByScore(Scored), 10)

TreeInv ==
  /\ TTypeOK /\ Rooted /\ (\E d \in Nat : Level(d)) /\ Pending /\ Rounds
  /\ Chosen /\ Answered

-----------------------------------------------------------------------------
(* The invariant of TreeSearch holds at first. *)
LEMMA TreeStart == TreeInit => TreeInv
<1> SUFFICES ASSUME TreeInit PROVE TreeInv
  OBVIOUS
<1>1. /\ <<>> \in Seq(Thoughts) /\ <<>> \in Seq(Int) /\ ToSet(<<>>) = {}
      /\ DOMAIN <<>> = {} /\ IsInjective(<<>>) /\ Root \in Thoughts
      /\ Len(Root) = 0
  BY DEF ToSet, IsInjective, Root, Thoughts
<1> DEFINE r == <<Root>>
<1>2. /\ r \in Seq(Thoughts) /\ DOMAIN r = {1} /\ r[1] = Root
  BY <1>1
<1>3. ToSet(r) = {Root} /\ IsInjective(r)
  BY <1>2 DEF ToSet, IsInjective
<1>4. /\ tpc = "expand" /\ nodes = r /\ parents = r /\ siblings = <<>>
      /\ todo = <<>> /\ rounds = <<>> /\ expanded = {} /\ DOMAIN score = {}
  BY <1>1 DEF TreeInit
<1> HIDE DEF r
<1>5. TTypeOK
  BY <1>1, <1>2, <1>4 DEF TTypeOK
<1>6. Rooted
  BY <1>1, <1>3, <1>4 DEF Rooted
<1>7. Level(0)
  BY <1>1, <1>3, <1>4 DEF Level
<1>8. Pending /\ Rounds /\ Answered
  BY <1>1, <1>3, <1>4 DEF Pending, Rounds, Answered
<1>9. Chosen
  <2>1. Held = {Root}
    BY <1>3, <1>4 DEF Held
  <2>2. \A d \in Nat \ {0} : {n \in Held : Len(n) = d} = {}
    BY <1>1, <2>1
  <2>3. IsFiniteSet({}) /\ Cardinality({}) <= BeamWidth
    BY FS_EmptySet, TreeAssumption
  <2> QED BY <2>1, <2>2, <2>3 DEF Chosen
<1> QED BY <1>5, <1>6, <1>7, <1>8, <1>9 DEF TreeInv

(* The next parent is expanded. *)
LEMMA ExpandKeeps ==
  ASSUME TreeInv, NEW count \in 0..MaxThoughts, Expand(count)
  PROVE  TreeInv'
<1> DEFINE p == Head(parents)
           new == Children(p, count)
           again == p = Root /\ count = 0 /\ tries < 3
<1>1. /\ tpc = "expand" /\ parents # <<>> /\ nodes' = nodes \o new
      /\ siblings' = siblings \o new
      /\ parents' = IF again THEN parents ELSE Tail(parents)
      /\ expanded' = expanded \cup {p}
      /\ tpc' = tpc /\ score' = score /\ todo' = todo /\ scoring' = scoring
      /\ rounds' = rounds /\ offered' = offered
  BY DEF Expand
<1>2. PICK d \in Nat : Level(d)
  BY DEF TreeInv
<1>3. /\ p \in Thoughts /\ Tail(parents) \in Seq(Thoughts)
      /\ IsInjective(Tail(parents)) /\ p \in ToSet(parents)
      /\ p \notin ToSet(Tail(parents))
      /\ ToSet(parents) = ToSet(Tail(parents)) \cup {p}
  BY <1>1, HeadApart DEF TreeInv, TTypeOK, Pending
<1>4. count \in Nat
  BY TreeAssumption
<1>5. /\ new \in Seq(Thoughts) /\ Len(new) = count /\ IsInjective(new)
      /\ Len(p) = d
      /\ \A c \in ToSet(new) :
           /\ c \in Thoughts /\ Len(c) = d + 1 /\ SubSeq(c, 1, d) = p
           /\ \A k \in 0..d : SubSeq(c, 1, k) = SubSeq(p, 1, k)
  <2>1. Len(p) = d
    BY <1>2, <1>3 DEF Level
  <2>2. PICK q : q = p
    OBVIOUS
  <2>3. q \in Thoughts /\ new = Children(q, count)
    BY <1>3, <2>2
  <2> HIDE DEF p, new
  <2>4. /\ Children(q, count) \in Seq(Thoughts) /\ Len(Children(q, count)) = count
        /\ IsInjective(Children(q, count))
        /\ \A c \in ToSet(Children(q, count)) :
             /\ c \in Thoughts /\ Len(c) = Len(q) + 1
             /\ SubSeq(c, 1, Len(q)) = q
             /\ \A k \in 0..Len(q) : SubSeq(c, 1, k) = SubSeq(q, 1, k)
    BY <1>4, <2>3, ChildrenAre
  <2> QED BY <2>1, <2>2, <2>3, <2>4
<1>6. again => ToSet(new) = {}
  BY <1>4, <1>5 DEF ToSet
<1>7. /\ parents' \in Seq(Thoughts) /\ IsInjective(parents')
      /\ ToSet(parents') \subseteq ToSet(parents)
      /\ ToSet(parents) = ToSet(parents') \cup {p}
      /\ ~again => p \notin ToSet(parents')
  <2>1. CASE again
    BY <1>1, <1>3, <2>1 DEF TreeInv, TTypeOK, Pending
  <2>2. CASE ~again
    BY <1>1, <1>3, <2>2
  <2> QED BY <2>1, <2>2
<1> HIDE DEF p, new, again
<1>8. /\ nodes' \in Seq(Thoughts) /\ ToSet(nodes') = ToSet(nodes) \cup ToSet(new)
  BY <1>1, <1>5, ConcatTold DEF TreeInv, TTypeOK
<1>9. ToSet(siblings) \cap ToSet(new) = {}
  BY <1>2, <1>3, <1>5 DEF Level
<1>10. /\ siblings' \in Seq(Thoughts) /\ IsInjective(siblings')
       /\ ToSet(siblings') = ToSet(siblings) \cup ToSet(new)
  BY <1>1, <1>5, <1>9, ConcatFresh DEF TreeInv, TTypeOK, Pending
<1>11. TTypeOK'
  BY <1>1, <1>3, <1>7, <1>8, <1>10 DEF TreeInv, TTypeOK
<1>12. Rooted'
  <2>1. ToSet(parents') \subseteq ToSet(nodes')
        /\ ToSet(siblings') \subseteq ToSet(nodes')
    BY <1>7, <1>8, <1>10 DEF TreeInv, Rooted
  <2>2. ASSUME NEW n \in ToSet(nodes), NEW k \in 0..(Len(n) - 1)
        PROVE  SubSeq(n, 1, k) \in expanded'
    BY <1>1 DEF TreeInv, Rooted
  <2>3. ASSUME NEW n \in ToSet(new), NEW k \in 0..(Len(n) - 1)
        PROVE  SubSeq(n, 1, k) \in expanded'
    <3>1. Len(n) = d + 1 /\ k \in 0..d
      BY <1>5
    <3>2. CASE k = d
      BY <1>1, <1>5, <3>2
    <3>3. CASE k # d
      <4>1. k \in 0..(Len(p) - 1) /\ p \in ToSet(nodes)
        BY <1>3, <1>5, <3>1, <3>3 DEF TreeInv, Rooted
      <4>2. SubSeq(p, 1, k) \in expanded
        BY <4>1 DEF TreeInv, Rooted
      <4>3. SubSeq(n, 1, k) = SubSeq(p, 1, k)
        BY <1>5, <3>1
      <4> QED BY <1>1, <4>2, <4>3
    <3> QED BY <3>2, <3>3
  <2> QED BY <1>8, <2>1, <2>2, <2>3 DEF Rooted
<1>13. Level(d)'
  <2>1. \A q \in ToSet(parents') : Len(q) = d
    BY <1>2, <1>7 DEF Level
  <2>2. ASSUME NEW s \in ToSet(siblings')
        PROVE  Len(s) = d + 1 /\ SubSeq(s, 1, d) \notin ToSet(parents')
    <3>1. CASE s \in ToSet(siblings)
      BY <1>2, <1>7, <3>1 DEF Level
    <3>2. CASE s \in ToSet(new)
      BY <1>5, <1>6, <1>7, <3>2
    <3> QED BY <1>10, <3>1, <3>2
  <2>3. \A n \in expanded' : Len(n) <= d
    BY <1>1, <1>2, <1>5 DEF Level
  <2>4. \A n \in DOMAIN score' : Len(n) <= d
    BY <1>1, <1>2 DEF Level
  <2> QED BY <2>1, <2>2, <2>3, <2>4 DEF Level
<1>14. Pending' /\ Rounds' /\ Answered'
  BY <1>1, <1>7, <1>10 DEF TreeInv, Pending, Rounds, Answered
<1>15. Held' = Held
  BY <1>1, <1>7 DEF Held
<1>16. Chosen'
  BY <1>1, <1>15 DEF TreeInv, Chosen
<1> QED BY <1>11, <1>12, <1>13, <1>14, <1>16 DEF TreeInv

(* Scoring of a batch starts: none of it has a score yet. *)
LEMMA StartScoringKeeps == TreeInv /\ StartScoring => TreeInv'
<1> SUFFICES ASSUME TreeInv, StartScoring PROVE TreeInv'
  OBVIOUS
<1>1. /\ tpc = "expand" /\ parents = <<>> /\ tpc' = "score" /\ todo' = siblings
      /\ nodes' = nodes /\ score' = score /\ parents' = parents
      /\ expanded' = expanded /\ siblings' = siblings /\ scoring' = scoring
      /\ rounds' = rounds
  BY DEF StartScoring
<1>2. PICK d \in Nat : Level(d)
  BY DEF TreeInv
<1>3. \A n \in ToSet(siblings) : n \notin DOMAIN score
  <2> SUFFICES ASSUME NEW n \in ToSet(siblings), n \in DOMAIN score PROVE FALSE
    OBVIOUS
  <2>1. Len(n) = d + 1 /\ Len(n) <= d
    BY <1>1, <1>2 DEF Level
  <2> QED BY <2>1
<1>4. Level(d)'
  BY <1>1, <1>2 DEF Level
<1>5. TTypeOK' /\ Rooted' /\ Pending' /\ Rounds' /\ Answered'
  BY <1>1, <1>3 DEF TreeInv, TTypeOK, Rooted, Pending, Rounds, Answered
<1>6. Held' = Held
  BY <1>1 DEF Held
<1>7. Chosen'
  BY <1>1, <1>6 DEF TreeInv, Chosen
<1> QED BY <1>4, <1>5, <1>7 DEF TreeInv

(* A thought gets its verdict of the round. *)
LEMMA ScoreRoundKeeps ==
  ASSUME TreeInv, NEW verdict \in TreeScores \cup {NoVerdict},
         NEW terminate \in BOOLEAN, ScoreRound(verdict, terminate)
  PROVE  TreeInv'
<1> DEFINE s == IF verdict = NoVerdict THEN 0 ELSE verdict
           now == Head(todo)
           old == IF scoring = now THEN rounds ELSE <<>>
           done == Append(old, s)
<1>1. /\ tpc = "score" /\ todo # <<>> /\ scoring' = now /\ rounds' = done
      /\ tpc' = tpc /\ nodes' = nodes /\ parents' = parents
      /\ expanded' = expanded /\ siblings' = siblings /\ offered' = offered
  BY DEF ScoreRound
<1>2. \/ /\ score' = [n \in DOMAIN score \cup {now} |->
                        IF n = now THEN Kept(done) ELSE score[n]]
         /\ todo' = Tail(todo)
      \/ s < Threshold /\ score' = score /\ todo' = todo
  <2>1. s \in Int /\ Threshold \in Int
    BY TreeAssumption DEF NoVerdict
  <2>2. \/ /\ score' = [n \in DOMAIN score \cup {now} |->
                          IF n = now THEN Kept(done) ELSE score[n]]
           /\ todo' = Tail(todo)
        \/ ~(s >= Threshold) /\ score' = score /\ todo' = todo
    BY DEF ScoreRound
  <2> HIDE DEF s, now, done
  <2> QED BY <2>1, <2>2
<1>3. PICK d \in Nat : Level(d)
  BY DEF TreeInv
<1>4. /\ now \in Thoughts /\ Tail(todo) \in Seq(Thoughts)
      /\ IsInjective(Tail(todo)) /\ now \in ToSet(todo)
      /\ now \notin ToSet(Tail(todo))
      /\ ToSet(todo) = ToSet(Tail(todo)) \cup {now}
  BY <1>1, HeadApart DEF TreeInv, TTypeOK, Pending
<1>5. /\ now \in ToSet(siblings) /\ now \notin DOMAIN score /\ Len(now) = d + 1
      /\ parents = <<>> /\ ToSet(parents) = {}
  <2>1. ToSet(<<>>) = {}
    BY DEF ToSet
  <2> QED BY <1>1, <1>3, <1>4, <2>1 DEF TreeInv, Pending, Level
<1>6. /\ done \in Seq(Int) /\ s \in Int /\ Len(old) \in Nat
      /\ Len(done) = Len(old) + 1 /\ done # <<>>
      /\ \A i \in 1..Len(old) : done[i] = old[i] /\ old[i] < Threshold
      /\ done[Len(old) + 1] = s
      /\ DOMAIN done = 1..(Len(old) + 1)
  <2>1. s \in Int
    BY TreeAssumption DEF NoVerdict
  <2>2. old \in Seq(Int) /\ Len(old) \in Nat /\ DOMAIN old = 1..Len(old)
    <3>1. <<>> \in Seq(Int)
      OBVIOUS
    <3>2. old \in Seq(Int)
      BY <3>1 DEF TreeInv, TTypeOK
    <3> HIDE DEF old
    <3> QED BY <3>2, LenProperties
  <2>3. \A i \in 1..Len(old) : old[i] < Threshold
    <3>1. CASE scoring = now
      BY <1>5, <2>2, <3>1 DEF TreeInv, Rounds
    <3>2. CASE scoring # now
      <4>1. Len(old) = 0
        BY <3>2
      <4> QED BY <4>1
    <3> QED BY <3>1, <3>2
  <2> HIDE DEF s, old
  <2>4. /\ done \in Seq(Int) /\ done # <<>> /\ Len(done) = Len(old) + 1
        /\ \A i \in 1..Len(old) : done[i] = old[i]
        /\ done[Len(old) + 1] = s
    BY <2>1, <2>2, AppendProperties
  <2> HIDE DEF done
  <2>5. DOMAIN done = 1..(Len(old) + 1)
    BY <2>4, LenProperties
  <2> QED BY <2>1, <2>2, <2>3, <2>4, <2>5
<1>7. Kept(done) \in ToSet(done) /\ \A t \in ToSet(done) : t <= Kept(done)
  <2> HIDE DEF done
  <2> QED BY <1>6, GreatestOfSeq DEF Kept
<1>8. Kept(done) \in Int
  <2> HIDE DEF done
  <2>1. \A i \in DOMAIN done : done[i] \in Int
    BY <1>6, ElementOfSeq, LenProperties
  <2> QED BY <1>7, <2>1 DEF ToSet
<1> HIDE DEF s, old, done, now
<1>9. CASE s < Threshold /\ score' = score /\ todo' = todo
  <2>1. TTypeOK' /\ Rooted' /\ Level(d)' /\ Pending' /\ Answered'
    BY <1>1, <1>3, <1>6, <1>9
    DEF TreeInv, TTypeOK, Rooted, Level, Pending, Answered
  <2>2. \A i \in DOMAIN done : done[i] < Threshold
    BY <1>6, <1>9
  <2>3. Rounds'
    BY <1>1, <1>5, <1>9, <2>2 DEF Rounds
  <2>4. Held' = Held
    BY <1>1 DEF Held
  <2>5. Chosen'
    BY <1>9, <2>4 DEF TreeInv, Chosen
  <2> QED BY <2>1, <2>3, <2>5 DEF TreeInv
<1>10. CASE /\ score' = [n \in DOMAIN score \cup {now} |->
                           IF n = now THEN Kept(done) ELSE score[n]]
            /\ todo' = Tail(todo)
  <2>1. /\ DOMAIN score' = DOMAIN score \cup {now} /\ score'[now] = Kept(done)
        /\ \A n \in DOMAIN score : score'[n] = score[n]
    BY <1>5, <1>10
  <2>2. TTypeOK'
    BY <1>1, <1>4, <1>6, <1>8, <1>10, <2>1 DEF TreeInv, TTypeOK
  <2>3. Rooted'
    BY <1>1 DEF TreeInv, Rooted
  <2>4. Level(d)'
    <3>1. \A n \in DOMAIN score' :
            \/ Len(n) <= d
            \/ tpc' # "expand" /\ n \in ToSet(siblings')
      BY <1>1, <1>3, <1>5, <2>1 DEF Level
    <3>2. /\ parents' = parents /\ siblings' = siblings /\ expanded' = expanded
      BY <1>1
    <3> QED BY <1>3, <3>1, <3>2 DEF Level
  <2>5. Pending'
    <3>1. /\ IsInjective(todo') /\ ToSet(todo') \subseteq ToSet(siblings)
          /\ ToSet(siblings) \subseteq DOMAIN score' \cup ToSet(todo')
          /\ \A n \in ToSet(todo') : n \notin DOMAIN score'
      BY <1>1, <1>4, <1>10, <2>1 DEF TreeInv, Pending
    <3>2. /\ parents' = parents /\ siblings' = siblings /\ tpc' = "score"
      BY <1>1
    <3> QED BY <1>5, <3>1, <3>2 DEF TreeInv, Pending
  <2>6. Rounds'
    <3>1. \A i \in DOMAIN done : done[i] <= Kept(done)
      BY <1>7 DEF ToSet
    <3>2. \A i \in DOMAIN done : i < Len(done) => done[i] < Threshold
      BY <1>6
    <3> QED BY <1>1, <2>1, <3>1, <3>2 DEF Rounds
  <2>7. Answered'
    BY <1>1 DEF Answered
  <2>8. Held' = Held /\ Held = expanded
    BY <1>1, <1>5 DEF Held
  <2>9. \A n \in Held : Len(n) <= d
    BY <1>3, <2>8 DEF Level
  <2>10. Chosen'
    <3>1. \A n \in Held \ {Root} :
            /\ n \in DOMAIN score' /\ (Len(n) > 1 => score'[n] >= Threshold)
            /\ Len(n) < MaxDepth
      BY <2>1 DEF TreeInv, Chosen
    <3>2. ASSUME NEW n \in Held \ {Root}, NEW m \in DOMAIN score' \ Held,
                 Len(m) = Len(n)
          PROVE  score'[m] <= score'[n]
      <4>1. m # now
        BY <1>5, <2>9, <3>2
      <4> QED BY <2>1, <3>2, <4>1 DEF TreeInv, Chosen
    <3> QED BY <2>8, <3>1, <3>2 DEF TreeInv, Chosen
  <2> QED BY <2>2, <2>3, <2>4, <2>5, <2>6, <2>7, <2>10 DEF TreeInv
<1> QED BY <1>2, <1>9, <1>10

(* The thoughts of a batch that the search goes on with. *)
LEMMA FrontierIs ==
  ASSUME TreeInv, EndBatch, NEW d \in Nat, Level(d)
  PROVE  /\ parents' \in Seq(Thoughts) /\ IsInjective(parents')
         /\ Len(parents') <= BeamWidth
         /\ ToSet(parents') \subseteq ToSet(siblings)
         /\ \A p \in ToSet(parents') :
              Len(p) < MaxDepth /\ (Len(p) > 1 => ScoreOf(p) >= Threshold)
         /\ \A p \in ToSet(parents'), m \in ToSet(siblings) \ ToSet(parents') :
              ScoreOf(m) <= ScoreOf(p)
<1> DEFINE first == siblings # <<>> /\ Len(siblings[1]) = 1
           clear == Clears(siblings)
           best == Top(ByScore(siblings), BeamWidth)
           next == IF first /\ clear = <<>> THEN best ELSE clear
           depth == IF siblings = <<>> THEN 0 ELSE Len(siblings[1])
           on == next # <<>> /\ depth < MaxDepth
<1>1. parents' = IF on THEN Frontier(next) ELSE <<>>
  BY DEF EndBatch
<1>2. /\ siblings \in Seq(Thoughts) /\ IsInjective(siblings)
      /\ BeamWidth \in Nat \ {0} /\ Threshold \in Int
      /\ \A n \in DOMAIN score : score[n] \in Int
      /\ \A x : ScoreOf(x) \in Int
      /\ \A x \in ToSet(siblings) : Len(x) = d + 1
  BY TreeAssumption DEF TreeInv, TTypeOK, Pending, ScoreOf, Level
<1>3. /\ clear \in Seq(Thoughts) /\ IsInjective(clear)
      /\ ToSet(clear) = {x \in ToSet(siblings) : ScoreOf(x) >= Threshold}
  BY <1>2, ClearsIs
<1>4. /\ best \in Seq(Thoughts) /\ IsInjective(best)
      /\ ToSet(best) \subseteq ToSet(siblings)
      /\ best # <<>> <=> siblings # <<>>
      /\ \A p \in ToSet(best), m \in ToSet(siblings) \ ToSet(best) :
           ScoreOf(m) <= ScoreOf(p)
  BY <1>2, TopByScore
<1>5. siblings # <<>> => siblings[1] \in ToSet(siblings)
  <2>1. Len(siblings) \in Nat /\ DOMAIN siblings = 1..Len(siblings)
        /\ (siblings # <<>> => Len(siblings) # 0)
    BY <1>2, LenProperties, EmptySeq
  <2> QED BY <2>1 DEF ToSet
<1> HIDE DEF clear, best
<1>6. /\ next \in Seq(Thoughts) /\ IsInjective(next)
      /\ ToSet(next) \subseteq ToSet(siblings)
      /\ \A p \in ToSet(next) : Len(p) > 1 => ScoreOf(p) >= Threshold
      /\ \A p \in ToSet(next), m \in ToSet(siblings) \ ToSet(next) :
           ScoreOf(m) <= ScoreOf(p)
  <2>1. CASE first /\ clear = <<>>
    <3>1. next = best /\ d + 1 = 1
      BY <1>2, <1>5, <2>1
    <3>2. \A p \in ToSet(next) : ~(Len(p) > 1)
      BY <1>2, <1>4, <3>1
    <3>3. \A p \in ToSet(next), m \in ToSet(siblings) \ ToSet(next) :
            ScoreOf(m) <= ScoreOf(p)
      BY <1>4, <3>1
    <3> HIDE DEF next
    <3>4. /\ next \in Seq(Thoughts) /\ IsInjective(next)
          /\ ToSet(next) \subseteq ToSet(siblings)
      BY <1>4, <3>1
    <3> QED BY <3>2, <3>3, <3>4
  <2>2. CASE ~(first /\ clear = <<>>)
    <3>1. next = clear
      BY <2>2
    <3> HIDE DEF next
    <3> QED BY <1>2, <1>3, <3>1
  <2> QED BY <2>1, <2>2
<1>7. CASE on
  <2>1. next # <<>> /\ siblings # <<>>
    <3>1. next # <<>>
      BY <1>7
    <3> HIDE DEF next
    <3>2. Len(next) \in Nat /\ DOMAIN next = 1..Len(next) /\ Len(next) # 0
      BY <1>6, <3>1, LenProperties, EmptySeq
    <3>3. next[1] \in ToSet(siblings)
      <4>1. 1 \in DOMAIN next
        BY <3>2
      <4>2. next[1] \in ToSet(next)
        BY <4>1 DEF ToSet
      <4> QED BY <1>6, <4>2
    <3>4. ToSet(<<>>) = {}
      BY DEF ToSet
    <3> QED BY <3>1, <3>3, <3>4
  <2>2. d + 1 < MaxDepth
    BY <1>2, <1>5, <1>7, <2>1
  <2>3. parents' = Top(ByScore(next), BeamWidth)
    BY <1>1, <1>7 DEF Frontier
  <2> HIDE DEF next
  <2> DEFINE t == Top(ByScore(next), BeamWidth)
  <2>4. /\ t \in Seq(Thoughts) /\ IsInjective(t) /\ Len(t) <= BeamWidth
        /\ ToSet(t) \subseteq ToSet(next)
        /\ \A p \in ToSet(t), m \in ToSet(next) \ ToSet(t) :
             ScoreOf(m) <= ScoreOf(p)
    BY <1>2, <1>6, TopByScore
  <2> HIDE DEF t
  <2>5. ASSUME NEW p \in ToSet(t), NEW m \in ToSet(siblings) \ ToSet(t)
        PROVE  ScoreOf(m) <= ScoreOf(p)
    BY <1>6, <2>4
  <2>6. \A p \in ToSet(t) :
          Len(p) < MaxDepth /\ (Len(p) > 1 => ScoreOf(p) >= Threshold)
    BY <1>2, <1>6, <2>2, <2>4
  <2> QED BY <1>6, <2>3, <2>4, <2>5, <2>6 DEF t
<1>8. CASE ~on
  <2>1. parents' = <<>>
    BY <1>1, <1>8
  <2>2. /\ <<>> \in Seq(Thoughts) /\ IsInjective(<<>>) /\ Len(<<>>) = 0
        /\ ToSet(<<>>) = {}
    BY DEF IsInjective, ToSet
  <2> QED BY <1>2, <2>1, <2>2
<1> QED BY <1>7, <1>8

(* The batch ends: its best are the next beam. *)
LEMMA EndBatchKeeps == TreeInv /\ EndBatch => TreeInv'
<1> SUFFICES ASSUME TreeInv, EndBatch PROVE TreeInv'
  OBVIOUS
<1>1. /\ tpc = "score" /\ todo = <<>> /\ tpc' \in {"expand", "synthesize"}
      /\ tpc' = "synthesize" => parents' = <<>>
      /\ siblings' = <<>> /\ nodes' = nodes /\ score' = score
      /\ expanded' = expanded /\ todo' = todo /\ scoring' = scoring
      /\ rounds' = rounds
  BY DEF EndBatch
<1>2. PICK d \in Nat : Level(d)
  BY DEF TreeInv
<1> DEFINE q == parents'
<1>3. /\ q \in Seq(Thoughts) /\ IsInjective(q) /\ Len(q) <= BeamWidth
      /\ ToSet(q) \subseteq ToSet(siblings)
      /\ \A p \in ToSet(q) :
           Len(p) < MaxDepth /\ (Len(p) > 1 => ScoreOf(p) >= Threshold)
      /\ \A p \in ToSet(q), m \in ToSet(siblings) \ ToSet(q) :
           ScoreOf(m) <= ScoreOf(p)
  BY <1>2, FrontierIs
<1>4. /\ <<>> \in Seq(Thoughts) /\ IsInjective(<<>>) /\ ToSet(<<>>) = {}
  BY DEF IsInjective, ToSet
<1>5. ToSet(siblings) \subseteq DOMAIN score
  BY <1>1, <1>4 DEF TreeInv, Pending
<1>6. \A p \in ToSet(q) : Len(p) = d + 1 /\ p \in DOMAIN score
  BY <1>2, <1>3, <1>5 DEF Level
<1>7. Held = expanded /\ Held' = expanded \cup ToSet(q)
  BY <1>1, <1>4 DEF TreeInv, Pending, Held
<1>8. \A n \in expanded : Len(n) \in Nat /\ Len(n) <= d
  <2>1. \A n \in expanded : Len(n) \in Nat
    BY LenProperties DEF TreeInv, TTypeOK, Thoughts
  <2> QED BY <1>2, <2>1 DEF Level
<1>9. TTypeOK' /\ Pending' /\ Rounds' /\ Answered'
  BY <1>1, <1>3, <1>4 DEF TreeInv, TTypeOK, Pending, Rounds, Answered
<1>10. Rooted'
  BY <1>1, <1>3, <1>4 DEF TreeInv, Rooted
<1>11. Level(d + 1)'
  <2>1. \A n \in DOMAIN score : Len(n) <= d + 1
    <3> TAKE n \in DOMAIN score
    <3>1. Len(n) \in Nat
      BY LenProperties DEF TreeInv, TTypeOK, Thoughts
    <3> QED BY <1>2, <3>1 DEF Level
  <2>2. \A n \in expanded : Len(n) <= d + 1
    BY <1>8
  <2> QED BY <1>1, <1>4, <1>6, <2>1, <2>2 DEF Level
<1>12. Chosen'
  <2>1. ASSUME NEW n \in Held' \ {Root}
        PROVE  /\ n \in DOMAIN score /\ (Len(n) > 1 => score[n] >= Threshold)
               /\ Len(n) < MaxDepth
    <3>1. CASE n \in expanded
      BY <1>7, <2>1, <3>1 DEF TreeInv, Chosen
    <3>2. CASE n \in ToSet(q)
      BY <1>3, <1>6, <3>2 DEF ScoreOf
    <3> QED BY <1>7, <2>1, <3>1, <3>2
  <2>2. ASSUME NEW n \in Held' \ {Root}, NEW m \in DOMAIN score \ Held',
               Len(m) = Len(n)
        PROVE  score[m] <= score[n]
    <3>1. CASE n \in expanded
      BY <1>7, <2>2, <3>1 DEF TreeInv, Chosen
    <3>2. CASE n \in ToSet(q)
      <4>1. m \in ToSet(siblings)
        BY <1>2, <1>6, <2>2, <3>2 DEF Level
      <4>2. m \notin ToSet(q) /\ n \in DOMAIN score
        BY <1>6, <1>7, <2>2, <3>2
      <4> QED BY <1>3, <2>2, <3>2, <4>1, <4>2 DEF ScoreOf
    <3> QED BY <1>7, <2>2, <3>1, <3>2
  <2>3. ASSUME NEW k \in Nat \ {0}
        PROVE  /\ IsFiniteSet({n \in Held' : Len(n) = k})
               /\ Cardinality({n \in Held' : Len(n) = k}) <= BeamWidth
    <3>1. CASE k = d + 1
      <4>1. {n \in Held' : Len(n) = k} = ToSet(q)
        BY <1>6, <1>7, <1>8, <3>1
      <4>2. /\ IsFiniteSet(ToSet(q)) /\ Cardinality(ToSet(q)) <= Len(q)
            /\ Cardinality(ToSet(q)) \in Nat /\ Len(q) \in Nat
        <5>1. PICK r : r = q
          OBVIOUS
        <5>2. r \in Seq(Thoughts)
          BY <1>3, <5>1
        <5>3. /\ IsFiniteSet(ToSet(r)) /\ Cardinality(ToSet(r)) <= Len(r)
              /\ Cardinality(ToSet(r)) \in Nat /\ Len(r) \in Nat
          BY <5>2, SizeOfSeq, LenProperties
        <5> QED BY <5>1, <5>3
      <4>3. BeamWidth \in Int
        BY TreeAssumption
      <4>4. Cardinality(ToSet(q)) <= BeamWidth
        <5> HIDE DEF q
        <5> QED BY <1>3, <4>2, <4>3
      <4> QED BY <4>1, <4>2, <4>4
    <3>2. CASE k # d + 1
      <4>1. {n \in Held' : Len(n) = k} = {n \in Held : Len(n) = k}
        BY <1>6, <1>7, <3>2
      <4> QED BY <4>1 DEF TreeInv, Chosen
    <3> QED BY <3>1, <3>2
  <2> QED BY <1>1, <2>1, <2>2, <2>3 DEF Chosen
<1>13. d + 1 \in Nat
  OBVIOUS
<1> QED BY <1>9, <1>10, <1>11, <1>12, <1>13 DEF TreeInv

(* The answer is written. *)
LEMMA SynthesizeKeeps == TreeInv /\ SynthesizeBest => TreeInv'
<1> SUFFICES ASSUME TreeInv, SynthesizeBest PROVE TreeInv'
  OBVIOUS
<1>1. /\ tpc = "synthesize" /\ tpc' = "returned"
      /\ offered' = Top(ByScore(Scored), 10)
      /\ nodes' = nodes /\ score' = score /\ parents' = parents
      /\ expanded' = expanded /\ siblings' = siblings /\ todo' = todo
      /\ scoring' = scoring /\ rounds' = rounds
  BY DEF SynthesizeBest
<1>2. PICK d \in Nat : Level(d)
  BY DEF TreeInv
<1>3. Top(ByScore(Scored), 10)' = Top(ByScore(Scored), 10)
  <2>1. Scored' = Scored
    BY <1>1 DEF Scored
  <2>2. ByScore(Scored)' = ByScore(Scored)
    BY <1>1, <2>1 DEF ByScore, Better, ScoreOf
  <2> QED BY <2>2 DEF Top
<1>4. Held' = Held
  BY <1>1 DEF Held
<1>5. Level(d)'
  BY <1>1, <1>2 DEF Level
<1>6. TTypeOK' /\ Rooted' /\ Pending' /\ Rounds' /\ Answered'
  BY <1>1, <1>3 DEF TreeInv, TTypeOK, Rooted, Pending, Rounds, Answered
<1>7. Chosen'
  BY <1>1, <1>4 DEF TreeInv, Chosen
<1> QED BY <1>5, <1>6, <1>7 DEF TreeInv

(* Every step of the tree search keeps the invariant. *)
LEMMA TreeInductive == TreeInv /\ [TreeNext]_treeVars => TreeInv'
<1> SUFFICES ASSUME TreeInv, [TreeNext]_treeVars PROVE TreeInv'
  OBVIOUS
<1>1. CASE \E count \in 0..MaxThoughts : Expand(count)
  BY <1>1, ExpandKeeps
<1>2. CASE StartScoring
  BY <1>2, StartScoringKeeps
<1>3. CASE \E v \in TreeScores \cup {NoVerdict}, t \in BOOLEAN : ScoreRound(v, t)
  BY <1>3, ScoreRoundKeeps
<1>4. CASE EndBatch
  BY <1>4, EndBatchKeeps
<1>5. CASE SynthesizeBest
  BY <1>5, SynthesizeKeeps
<1>6. CASE TreeFails \/ UNCHANGED treeVars
  <2>1. /\ tpc' = "raised" \/ (tpc' = tpc /\ offered' = offered)
        /\ (tpc' = tpc) \/ (tpc # "returned")
        /\ nodes' = nodes /\ score' = score /\ parents' = parents
        /\ expanded' = expanded /\ siblings' = siblings /\ todo' = todo
        /\ scoring' = scoring /\ rounds' = rounds
    BY <1>6 DEF TreeFails, treeVars
  <2>2. PICK d \in Nat : Level(d)
    BY DEF TreeInv
  <2>3. Top(ByScore(Scored), 10)' = Top(ByScore(Scored), 10)
    BY <2>1 DEF Top, ByScore, Scored, Better, ScoreOf
  <2>4. Held' = Held
    BY <2>1 DEF Held
  <2>5. Level(d)'
    BY <2>1, <2>2 DEF Level
  <2>6. TTypeOK' /\ Rooted' /\ Pending' /\ Rounds' /\ Answered'
    BY <2>1, <2>3 DEF TreeInv, TTypeOK, Rooted, Pending, Rounds, Answered
  <2>7. Chosen'
    BY <2>1, <2>4 DEF TreeInv, Chosen
  <2> QED BY <2>5, <2>6, <2>7 DEF TreeInv
<1> QED BY <1>1, <1>2, <1>3, <1>4, <1>5, <1>6 DEF TreeNext

(* The answer is written with the end of the best path in view. *)
LEMMA BestPathShown ==
  ASSUME TreeInv, tpc = "returned", offered # <<>>
  PROVE  /\ BestPath[Len(BestPath)] = offered[1]
         /\ ToSet(Front(BestPath)) \subseteq expanded
<1> DEFINE best == ByScore(Scored)[1]
           n == Len(best)
           path == [i \in 1..(n + 1) |-> SubSeq(best, 1, i - 1)]
<1>1. Scored \in Seq(Thoughts) /\ ToSet(Scored) \subseteq ToSet(nodes)
  BY ScoredIs DEF TreeInv, TTypeOK
<1>2. /\ Scored # <<>> /\ offered[1] = best /\ best \in ToSet(Scored)
  <2> DEFINE u == Scored
  <2>1. /\ offered = Top(ByScore(u), 10) /\ 10 \in Nat \ {0}
        /\ u \in Seq(Thoughts) /\ \A x \in DOMAIN score : score[x] \in Int
    BY <1>1 DEF TreeInv, Answered, TTypeOK
  <2> HIDE DEF u
  <2>2. /\ Top(ByScore(u), 10) # <<>> <=> u # <<>>
        /\ u # <<>> => /\ Top(ByScore(u), 10)[1] = ByScore(u)[1]
                       /\ Top(ByScore(u), 10)[1] \in ToSet(u)
    BY <2>1, TopByScore
  <2> QED BY <2>1, <2>2 DEF u
<1>3. BestPath = path
  BY <1>2 DEF BestPath
<1>4. best \in Thoughts /\ best \in ToSet(nodes)
  <2>1. ToSet(nodes) \subseteq Thoughts
    BY ElementOfSeq, LenProperties DEF TreeInv, TTypeOK, ToSet
  <2> QED BY <1>1, <1>2, <2>1
<1> HIDE DEF best
<1>5. n \in Nat /\ SubSeq(best, 1, n) = best
  BY <1>4, LenProperties, SubSeqFull DEF Thoughts
<1>6. \A k \in 0..(n - 1) : SubSeq(best, 1, k) \in expanded
  BY <1>4 DEF TreeInv, Rooted
<1> HIDE DEF n
<1>7. /\ path \in Seq(Thoughts) /\ Len(path) = n + 1
      /\ \A i \in 1..(n + 1) : path[i] = SubSeq(best, 1, i - 1)
  <2>1. ASSUME NEW i \in 1..(n + 1) PROVE SubSeq(best, 1, i - 1) \in Thoughts
    <3>1. 1 \in Int /\ i - 1 \in Int
      BY <1>5
    <3>2. \A j \in 1..(i - 1) : best[j] \in Nat
      <4> TAKE j \in 1..(i - 1)
      <4>1. j \in 1..Len(best)
        BY <1>5 DEF n
      <4> QED BY <1>4, <4>1, ElementOfSeq DEF Thoughts
    <3> QED BY <3>1, <3>2, SubSeqProperties DEF Thoughts
  <2>2. path \in [1..(n + 1) -> Thoughts]
    BY <2>1
  <2>3. n + 1 \in Nat
    BY <1>5
  <2>4. path \in Seq(Thoughts)
    <3> DEFINE c == n + 1
    <3>1. path \in [1..c -> Thoughts] /\ c \in Nat
      BY <2>2, <2>3
    <3> HIDE DEF path, c
    <3> QED BY <3>1, SeqDef
  <2>5. \A i \in 1..(n + 1) : path[i] = SubSeq(best, 1, i - 1)
    OBVIOUS
  <2>6. DOMAIN path = 1..(n + 1)
    OBVIOUS
  <2> HIDE DEF path
  <2>7. Len(path) = n + 1
    BY <2>2, <2>3, <2>4, <2>6, LenProperties
  <2> QED BY <2>4, <2>5, <2>7
<1> HIDE DEF path
<1>8. path[n + 1] = best
  <2>1. n + 1 \in 1..(n + 1) /\ (n + 1) - 1 = n
    BY <1>5
  <2> QED BY <1>5, <1>7, <2>1
<1>9. ToSet(Front(path)) \subseteq expanded
  <2> DEFINE t == SubSeq(path, 1, n)
  <2>1. Front(path) = t
    BY <1>5, <1>7 DEF Front
  <2>2. \A i \in 1..n : path[i] \in Thoughts
    <3>1. \A i \in 1..n : i \in 1..Len(path)
      BY <1>5, <1>7
    <3> QED BY <1>7, <3>1, ElementOfSeq
  <2>3. /\ t \in Seq(Thoughts) /\ Len(t) = IF 1 <= n THEN n - 1 + 1 ELSE 0
        /\ \A i \in 1..(n - 1 + 1) : t[i] = path[1 + i - 1]
    <3>1. 1 \in Int /\ n \in Int
      BY <1>5
    <3> QED BY <2>2, <3>1, SubSeqProperties
  <2> HIDE DEF t
  <2>4. DOMAIN t = 1..n
    BY <1>5, <2>3, LenProperties
  <2>5. ASSUME NEW i \in 1..n PROVE t[i] \in expanded
    <3>1. /\ i \in 1..(n - 1 + 1) /\ 1 + i - 1 = i /\ i \in 1..(n + 1)
          /\ i - 1 \in 0..(n - 1)
      BY <1>5
    <3>2. t[i] = SubSeq(best, 1, i - 1)
      BY <1>7, <2>3, <3>1
    <3> QED BY <1>6, <3>1, <3>2
  <2> QED BY <2>1, <2>4, <2>5 DEF ToSet
<1> QED BY <1>2, <1>3, <1>7, <1>8, <1>9

(* The invariant says what TreeSound does. *)
LEMMA TreeInvSound == TreeInv => TreeSound
<1> SUFFICES ASSUME TreeInv PROVE TreeSound
  OBVIOUS
<1> DEFINE at(d) == {n \in expanded : Len(n) = d}
<1>1. \A d \in 1..MaxDepth : Cardinality(at(d)) <= BeamWidth
  <2> TAKE d \in 1..MaxDepth
  <2> DEFINE held == {n \in Held : Len(n) = d}
  <2>1. d \in Nat \ {0} /\ BeamWidth \in Nat
    BY TreeAssumption
  <2>2. IsFiniteSet(held) /\ Cardinality(held) <= BeamWidth
    BY <2>1 DEF TreeInv, Chosen
  <2>3. at(d) \subseteq held
    BY DEF Held
  <2> HIDE DEF at, held
  <2>4. IsFiniteSet(at(d)) /\ Cardinality(at(d)) <= Cardinality(held)
        /\ Cardinality(at(d)) \in Nat /\ Cardinality(held) \in Nat
    BY <2>2, <2>3, FS_Subset, FS_CardinalityType
  <2> QED BY <2>1, <2>2, <2>4
<1>2. \A n \in expanded \ {Root} :
        /\ n \in DOMAIN score /\ (Len(n) > 1 => ScoreOf(n) >= Threshold)
        /\ Len(n) < MaxDepth
  BY DEF TreeInv, Chosen, Held, ScoreOf
<1>3. at(MaxDepth) \subseteq {Root}
  <2> SUFFICES ASSUME NEW n \in expanded, Len(n) = MaxDepth, n # Root PROVE FALSE
    OBVIOUS
  <2>1. Len(n) < MaxDepth
    BY <1>2
  <2> QED BY <2>1, TreeAssumption
<1>4. ASSUME tpc = "returned", NEW n \in expanded \ {Root},
             NEW m \in DOMAIN score \ expanded, Len(m) = Len(n)
      PROVE  ScoreOf(m) <= ScoreOf(n)
  <2>1. Held = expanded
    <3>1. ToSet(<<>>) = {}
      BY DEF ToSet
    <3> QED BY <1>4, <3>1 DEF TreeInv, Pending, Held
  <2>2. score[m] <= score[n]
    BY <1>4, <2>1 DEF TreeInv, Chosen
  <2> QED BY <1>2, <1>4, <2>2 DEF ScoreOf
<1>5. tpc = "returned" /\ offered # <<>> =>
        /\ BestPath[Len(BestPath)] = offered[1]
        /\ ToSet(Front(BestPath)) \subseteq expanded
  BY BestPathShown
<1>6. \A i \in DOMAIN rounds :
        /\ scoring \in DOMAIN score => rounds[i] <= score[scoring]
        /\ (scoring \in DOMAIN score => i < Len(rounds)) => rounds[i] < Threshold
  BY DEF TreeInv, Rounds
<1> QED BY <1>1, <1>2, <1>3, <1>4, <1>5, <1>6 DEF TreeSound

(* For every depth, beam width, number of rounds and threshold, the        *)
(* Coordinator of tot_gan_pattern.py keeps the best round of a thought,    *)
(* expands no more of a depth than the beam holds and no worse thought     *)
(* than one it left aside, and writes the answer with the end of the best  *)
(* path in view, every step of which it explored.                          *)
THEOREM BestIsFound == TreeSpec => []TreeSound
<1>1. TreeSpec => []TreeInv
  BY TreeStart, TreeInductive, PTL DEF TreeSpec
<1> QED BY <1>1, TreeInvSound, PTL
=============================================================================
