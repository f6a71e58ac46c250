--------------------------- MODULE LruCacheProofs ---------------------------
(***************************************************************************)
(* The in-memory cache keeps its map and its list together, evicts in the  *)
(* order of use and does what Store promises, for any keys, callers, cap   *)
(* and lifetimes.                                                          *)
(***************************************************************************)
EXTENDS LruCache, FiniteSetTheorems, SequenceTheorems, WellFoundedInduction, TLAPS

USE ZenonT(40)

-----------------------------------------------------------------------------
(***************************************************************************)
(* Lists.  A set of numbers has a least one, which is what the inductions  *)
(* over a list are made with.                                              *)
(***************************************************************************)
Below == {p \in Nat \X Nat : p[1] < p[2]}

LEMMA LeastNumber ==
    ASSUME NEW T, T \subseteq Nat, T # {} PROVE \E x \in T : \A y \in T : x <= y
<1>1. IsWellFoundedOn(Below, Nat)
  <2>1. IsWellFoundedOn(OpToRel(<, Nat), Nat)
    BY NatLessThanWellFounded
  <2>2. OpToRel(<, Nat) = Below
    BY DEF OpToRel, Below
  <2> QED
    BY <2>1, <2>2
<1>2. PICK x \in T : \A y \in T : ~(<<y, x>> \in Below)
  BY <1>1, WFMin
<1>3. \A y \in T : <<y, x>> \in Nat \X Nat /\ <<y, x>>[1] = y /\ <<y, x>>[2] = x
  OBVIOUS
<1>4. \A y \in T : ~(y < x)
  BY <1>2, <1>3 DEF Below
<1> QED
  BY <1>4, SMT

\* What holds of 0 and is handed on to the next number holds of all of them.
LEMMA Induct ==
    ASSUME NEW P, 0 \in P, \A n \in Nat : n \in P => n + 1 \in P
    PROVE  Nat \subseteq P
<1> SUFFICES ASSUME Nat \ P # {} PROVE FALSE
  OBVIOUS
<1>1. PICK x \in Nat \ P : \A y \in Nat \ P : x <= y
  <2>1. Nat \ P \subseteq Nat
    OBVIOUS
  <2> QED
    BY <2>1, LeastNumber
<1>2. x # 0 /\ x - 1 \in Nat /\ x - 1 < x
  BY <1>1, SMT
<1>3. x - 1 \in P
  BY <1>1, <1>2, SMT
<1>4. (x - 1) + 1 = x
  BY <1>1, SMT
<1> QED
  BY <1>1, <1>2, <1>3, <1>4

\* The function upTo in Stays, for a list of length n.
UpTo(F, s, I, n) ==
    F = [i \in 0 .. n |-> IF i = 0 THEN <<>>
                          ELSE IF i \in I THEN Append(F[i-1], s[i]) ELSE F[i-1]]

LEMMA UpToExists ==
    ASSUME NEW s, NEW I, NEW n \in Nat PROVE \E F : UpTo(F, s, I, n)
<1> DEFINE P == {k \in Nat : \E F : UpTo(F, s, I, k)}
<1>1. 0 \in P
  <2> DEFINE F == [i \in 0 .. 0 |-> <<>>]
  <2>1. UpTo(F, s, I, 0)
    BY SMT DEF UpTo
  <2> QED
    BY <2>1
<1>2. ASSUME NEW k \in Nat, k \in P PROVE k + 1 \in P
  <2>1. PICK F : UpTo(F, s, I, k)
    BY <1>2
  <2> DEFINE G == [i \in 0 .. k+1 |->
                      IF i <= k THEN F[i]
                      ELSE IF k+1 \in I THEN Append(F[k], s[k+1]) ELSE F[k]]
  <2>2. \A i \in 0 .. k : F[i] = IF i = 0 THEN <<>>
                                 ELSE IF i \in I THEN Append(F[i-1], s[i]) ELSE F[i-1]
    BY <2>1 DEF UpTo
  <2>3. ASSUME NEW i \in 0 .. k+1
        PROVE  G[i] = IF i = 0 THEN <<>> ELSE IF i \in I THEN Append(G[i-1], s[i]) ELSE G[i-1]
    <3>1. CASE i = 0
      BY <2>2, <3>1, SMT
    <3>2. CASE i \in 1 .. k
      <4>1. G[i] = F[i] /\ G[i-1] = F[i-1] /\ i # 0
        BY <3>2, SMT
      <4> QED
        BY <2>2, <3>2, <4>1, SMT
    <3>3. CASE i = k+1
      <4>1. G[i-1] = F[k] /\ i # 0
        BY <3>3, SMT
      <4> QED
        BY <3>3, <4>1, SMT
    <3> QED
      BY <3>1, <3>2, <3>3, SMT
  <2>4. UpTo(G, s, I, k+1)
    <3>1. G = [i \in 0 .. k+1 |-> G[i]]
      OBVIOUS
    <3> HIDE DEF G
    <3> QED
      BY <2>3, <3>1 DEF UpTo
  <2> QED
    BY <2>4, SMT
<1>3. Nat \subseteq P
  <2> HIDE DEF P
  <2> QED
    BY <1>1, <1>2, Induct
<1> QED
  BY <1>3

LEMMA StaysIs ==
    ASSUME NEW S, NEW s \in Seq(S), NEW I
    PROVE  \E F : UpTo(F, s, I, Len(s)) /\ Stays(s, I) = F[Len(s)]
<1>1. Stays(s, I) = (CHOOSE F : UpTo(F, s, I, Len(s)))[Len(s)]
  BY DEF Stays, UpTo
<1>2. Len(s) \in Nat
  BY SMT
<1>3. \E F : UpTo(F, s, I, Len(s))
  BY <1>2, UpToExists
<1> QED
  BY <1>1, <1>3

\* m lists the numbers in J in increasing order; w is what s has at the places m.
Lists(m, J) ==
    /\ m \in Seq(Nat)
    /\ \A a, b \in 1 .. Len(m) : a < b => m[a] < m[b]
    /\ \A a \in 1 .. Len(m) : m[a] \in J
    /\ \A i \in J : \E a \in 1 .. Len(m) : m[a] = i
Reads(w, s, m) == Len(w) = Len(m) /\ \A a \in 1 .. Len(m) : w[a] = s[m[a]]

LEMMA AppendLists ==
    ASSUME NEW m, NEW J, Lists(m, J), NEW k \in Nat, \A i \in J : i < k
    PROVE  Lists(Append(m, k), J \cup {k})
<1> DEFINE w == Append(m, k)
<1>1. m \in Seq(Nat) /\ Len(m) \in Nat
  BY SMT DEF Lists
<1>2. /\ w \in Seq(Nat) /\ Len(w) = Len(m) + 1 /\ w[Len(m) + 1] = k
      /\ \A a \in 1 .. Len(m) : w[a] = m[a]
  BY <1>1, SMT
<1> HIDE DEF w
<1>3. \A a \in 1 .. Len(w) : a \in 1 .. Len(m) \/ a = Len(m) + 1
  BY <1>1, <1>2, SMT
<1>4. \A a \in 1 .. Len(m) : m[a] \in J /\ m[a] < k
  BY DEF Lists
<1>5. ASSUME NEW a \in 1 .. Len(w), NEW b \in 1 .. Len(w), a < b PROVE w[a] < w[b]
  <2>1. a \in 1 .. Len(m)
    BY <1>1, <1>2, <1>5, SMT
  <2>2. CASE b \in 1 .. Len(m)
    BY <1>2, <1>5, <2>1, <2>2 DEF Lists
  <2>3. CASE b = Len(m) + 1
    BY <1>2, <1>4, <2>1, <2>3
  <2> QED
    BY <1>3, <2>2, <2>3
<1>6. \A a \in 1 .. Len(w) : w[a] \in J \cup {k}
  BY <1>2, <1>3, <1>4
<1>7. ASSUME NEW i \in J \cup {k} PROVE \E a \in 1 .. Len(w) : w[a] = i
  <2>1. CASE i = k
    <3>1. Len(m) + 1 \in 1 .. Len(w)
      BY <1>1, <1>2, SMT
    <3> QED
      BY <1>2, <2>1, <3>1
  <2>2. CASE i \in J
    <3>1. PICK a \in 1 .. Len(m) : m[a] = i
      BY <2>2 DEF Lists
    <3>2. a \in 1 .. Len(w)
      BY <1>1, <1>2, SMT
    <3> QED
      BY <1>2, <3>1, <3>2, SMT
  <2> QED
    BY <2>1, <2>2
<1>8. Lists(w, J \cup {k})
  BY <1>2, <1>5, <1>6, <1>7, SMT DEF Lists
<1> QED
  BY <1>8 DEF w

LEMMA AppendReads ==
    ASSUME NEW S, NEW w \in Seq(S), NEW s, NEW m \in Seq(Nat), Reads(w, s, m), NEW k \in Nat,
           s[k] \in S
    PROVE  Append(w, s[k]) \in Seq(S) /\ Reads(Append(w, s[k]), s, Append(m, k))
<1>1. Len(w) = Len(m) /\ Len(m) \in Nat /\ \A a \in 1 .. Len(m) : w[a] = s[m[a]]
  BY SMT DEF Reads
<1>2. /\ Len(Append(m, k)) = Len(m) + 1 /\ Append(m, k)[Len(m) + 1] = k
      /\ \A a \in 1 .. Len(m) : Append(m, k)[a] = m[a]
  BY SMT
<1>3. /\ Append(w, s[k]) \in Seq(S)
      /\ Len(Append(w, s[k])) = Len(w) + 1 /\ Append(w, s[k])[Len(w) + 1] = s[k]
      /\ \A a \in 1 .. Len(w) : Append(w, s[k])[a] = w[a]
  BY SMT
<1>4. \A a \in 1 .. Len(m) + 1 : a \in 1 .. Len(m) \/ a = Len(m) + 1
  BY <1>1, SMT
<1> QED
  BY <1>1, <1>2, <1>3, <1>4, SMT DEF Reads

\* Two lists of a length lose the same places, and keep the others in order.
LEMMA StaysTogether ==
    ASSUME NEW S, NEW s \in Seq(S), NEW T, NEW t \in Seq(T), Len(t) = Len(s),
           NEW I, I \subseteq 1 .. Len(s)
    PROVE  \E m : /\ Lists(m, I)
                  /\ Stays(s, I) \in Seq(S) /\ Reads(Stays(s, I), s, m)
                  /\ Stays(t, I) \in Seq(T) /\ Reads(Stays(t, I), t, m)
<1>1. PICK F : UpTo(F, s, I, Len(s)) /\ Stays(s, I) = F[Len(s)]
  BY StaysIs
<1>2. PICK G : UpTo(G, t, I, Len(s)) /\ Stays(t, I) = G[Len(s)]
  BY StaysIs
<1> DEFINE Good(n) == \E m : /\ Lists(m, I \cap 1 .. n)
                             /\ F[n] \in Seq(S) /\ Reads(F[n], s, m)
                             /\ G[n] \in Seq(T) /\ Reads(G[n], t, m)
           P == {n \in Nat : n <= Len(s) => Good(n)}
<1>3. 0 \in P
  <2>1. F[0] = <<>> /\ G[0] = <<>>
    BY <1>1, <1>2, SMT DEF UpTo
  <2>2. I \cap 1 .. 0 = {}
    <3>1. \A i \in Nat : ~(1 <= i /\ i <= 0)
      BY SMT
    <3> QED
      BY <3>1, SMT
  <2>3. Lists(<<>>, {})
    BY SMT DEF Lists
  <2>4. F[0] \in Seq(S) /\ G[0] \in Seq(T) /\ Reads(F[0], s, <<>>) /\ Reads(G[0], t, <<>>)
    BY <2>1, SMT DEF Reads
  <2> QED
    BY <2>2, <2>3, <2>4
<1>4. ASSUME NEW n \in Nat, n \in P PROVE n + 1 \in P
  <2> SUFFICES ASSUME n + 1 <= Len(s) PROVE Good(n + 1)
    <3> HIDE DEF Good
    <3> QED
      BY SMT
  <2>1. n <= Len(s) /\ n + 1 \in 0 .. Len(s) /\ n + 1 \in 1 .. Len(s) /\ n + 1 # 0 /\ (n + 1) - 1 = n
    BY SMT
  <2>2. PICK m : /\ Lists(m, I \cap 1 .. n)
                 /\ F[n] \in Seq(S) /\ Reads(F[n], s, m)
                 /\ G[n] \in Seq(T) /\ Reads(G[n], t, m)
    BY <1>4, <2>1
  <2>3. /\ F[n+1] = IF n+1 \in I THEN Append(F[n], s[n+1]) ELSE F[n]
        /\ G[n+1] = IF n+1 \in I THEN Append(G[n], t[n+1]) ELSE G[n]
    BY <1>1, <1>2, <2>1 DEF UpTo
  <2>4. CASE n+1 \in I
    <3>1. I \cap 1 .. n+1 = (I \cap 1 .. n) \cup {n+1}
      BY <2>4, SMT
    <3>2. Lists(Append(m, n+1), I \cap 1 .. n+1)
      BY <2>2, <3>1, AppendLists, SMT
    <3>3. s[n+1] \in S /\ t[n+1] \in T /\ m \in Seq(Nat)
      BY <2>1, <2>2, SMT DEF Lists
    <3>4. Append(F[n], s[n+1]) \in Seq(S) /\ Reads(Append(F[n], s[n+1]), s, Append(m, n+1))
      BY <2>2, <3>3, AppendReads, SMT
    <3>5. Append(G[n], t[n+1]) \in Seq(T) /\ Reads(Append(G[n], t[n+1]), t, Append(m, n+1))
      BY <2>2, <3>3, AppendReads, SMT
    <3> QED
      BY <2>3, <2>4, <3>2, <3>4, <3>5
  <2>5. CASE n+1 \notin I
    <3>1. I \cap 1 .. n+1 = I \cap 1 .. n
      BY <2>5, SMT
    <3> QED
      BY <2>2, <2>3, <2>5, <3>1
  <2> QED
    BY <2>4, <2>5
<1>5. Good(Len(s))
  <2>1. Nat \subseteq P
    <3> HIDE DEF P
    <3> QED
      BY <1>3, <1>4, Induct
  <2>2. Len(s) \in Nat /\ Len(s) <= Len(s)
    BY SMT
  <2> HIDE DEF Good
  <2> QED
    BY <2>1, <2>2
<1>6. I \cap 1 .. Len(s) = I
  OBVIOUS
<1>7. PICK m : /\ Lists(m, I)
               /\ F[Len(s)] \in Seq(S) /\ Reads(F[Len(s)], s, m)
               /\ G[Len(s)] \in Seq(T) /\ Reads(G[Len(s)], t, m)
  BY <1>5, <1>6
<1> QED
  BY <1>1, <1>2, <1>7

-----------------------------------------------------------------------------
(***************************************************************************)
(* The list of elements and the history of the keys.                       *)
(***************************************************************************)
\* The keys of l are distinct, and t is the list of them.
Ordered(l, t) ==
    /\ l \in Seq(Elements) /\ t \in Seq(Keys) /\ Len(t) = Len(l)
    /\ \A i, j \in 1 .. Len(l) : l[i].key = l[j].key => i = j
    /\ \A i \in 1 .. Len(l) : t[i] = l[i].key

KeysOf(l) == {l[i].key : i \in 1 .. Len(l)}

ListOK ==
    /\ TypeOK
    /\ Ordered(lru, touched)
    /\ items = KeysOf(lru)
    /\ MaxEntries > 0 => Len(lru) <= MaxEntries
    /\ cutoff <= now

LEMMA OrderedCard ==
    ASSUME NEW l, NEW t, Ordered(l, t)
    PROVE  IsFiniteSet(KeysOf(l)) /\ Cardinality(KeysOf(l)) = Len(l)
<1> DEFINE f == [i \in 1 .. Len(l) |-> l[i].key]
<1>1. Len(l) \in Nat
  BY SMT DEF Ordered
<1>2. f \in Bijection(1 .. Len(l), KeysOf(l))
  <2>1. f \in [1 .. Len(l) -> KeysOf(l)]
    BY DEF KeysOf
  <2>2. \A i, j \in 1 .. Len(l) : f[i] = f[j] => i = j
    BY DEF Ordered
  <2>3. \A k \in KeysOf(l) : \E i \in 1 .. Len(l) : f[i] = k
    BY DEF KeysOf
  <2> HIDE DEF f
  <2> QED
    BY <2>1, <2>2, <2>3 DEF Bijection, Injection, Surjection, IsInjective
<1>3. IsFiniteSet(1 .. Len(l)) /\ Cardinality(1 .. Len(l)) = Len(l)
  <2>1. 1 \in Int /\ Len(l) \in Int
    BY <1>1, SMT
  <2>2. /\ IsFiniteSet(1 .. Len(l))
        /\ Cardinality(1 .. Len(l)) = IF 1 > Len(l) THEN 0 ELSE Len(l) - 1 + 1
    BY <2>1, FS_Interval
  <2> QED
    BY <1>1, <2>2, SMT
<1>4. ExistsBijection(1 .. Len(l), KeysOf(l))
  BY <1>2 DEF ExistsBijection
<1> QED
  BY <1>3, <1>4, FS_Bijection

\* What is left when the keys ks go.
LEMMA RemovalOrdered ==
    ASSUME Ordered(lru, touched), NEW ks
    PROVE  /\ Ordered(Without(ks), Untouched(ks))
           /\ KeysOf(Without(ks)) = KeysOf(lru) \ ks
           /\ \A j \in 1 .. Len(Without(ks)) : \E i \in 1 .. Len(lru) : Without(ks)[j] = lru[i]
<1> DEFINE I == {i \in 1 .. Len(lru) : lru[i].key \notin ks}
           w == Without(ks)
           u == Untouched(ks)
<1>1. /\ lru \in Seq(Elements) /\ touched \in Seq(Keys) /\ Len(touched) = Len(lru)
      /\ \A i \in 1 .. Len(lru) : touched[i] = lru[i].key
  BY DEF Ordered
<1>2. w = Stays(lru, I) /\ u = Stays(touched, I)
  <2>1. DOMAIN lru = 1 .. Len(lru) /\ DOMAIN touched = 1 .. Len(lru)
    BY <1>1, SMT
  <2>2. {i \in DOMAIN touched : touched[i] \notin ks} = I
    BY <1>1, <2>1
  <2> QED
    BY <2>1, <2>2 DEF Without, Untouched
<1>3. PICK m : /\ Lists(m, I)
               /\ w \in Seq(Elements) /\ Reads(w, lru, m)
               /\ u \in Seq(Keys) /\ Reads(u, touched, m)
  <2>1. I \subseteq 1 .. Len(lru)
    OBVIOUS
  <2> HIDE DEF I, w, u
  <2> QED
    BY <1>1, <1>2, <2>1, StaysTogether
<1> HIDE DEF w, u
<1>4. Len(w) = Len(m) /\ Len(u) = Len(m) /\ Len(m) \in Nat
  BY <1>3, SMT DEF Reads, Lists
<1>5. \A j \in 1 .. Len(m) : /\ m[j] \in 1 .. Len(lru) /\ lru[m[j]].key \notin ks
                             /\ w[j] = lru[m[j]] /\ u[j] = touched[m[j]]
  BY <1>3 DEF Reads, Lists
<1>6. ASSUME NEW i \in 1 .. Len(w), NEW j \in 1 .. Len(w), w[i].key = w[j].key
      PROVE  i = j
  <2>1. m[i] = m[j]
    BY <1>4, <1>5, <1>6, SMT DEF Ordered
  <2>2. m[i] \in Nat /\ m[j] \in Nat /\ i \in Nat /\ j \in Nat
    BY <1>4, <1>5, SMT
  <2>3. ~(i < j) /\ ~(j < i)
    BY <1>3, <1>4, <2>1, <2>2, SMT DEF Lists
  <2> QED
    BY <2>2, <2>3, SMT
<1>7. \A j \in 1 .. Len(w) : u[j] = w[j].key
  <2> SUFFICES ASSUME NEW j \in 1 .. Len(w)
               PROVE  u[j] = w[j].key
    OBVIOUS
  <2>1. m[j] \in 1 .. Len(lru) /\ w[j] = lru[m[j]] /\ u[j] = touched[m[j]]
    BY <1>4, <1>5
  <2> QED
    BY <1>1, <2>1
<1>8. Ordered(w, u)
  BY <1>3, <1>4, <1>6, <1>7 DEF Ordered
<1>9. KeysOf(w) = KeysOf(lru) \ ks
  <2>1. ASSUME NEW k \in KeysOf(w) PROVE k \in KeysOf(lru) \ ks
    BY <1>4, <1>5 DEF KeysOf
  <2>2. ASSUME NEW k \in KeysOf(lru) \ ks PROVE k \in KeysOf(w)
    <3>1. PICK i \in 1 .. Len(lru) : lru[i].key = k
      BY DEF KeysOf
    <3>2. PICK j \in 1 .. Len(m) : m[j] = i
      BY <1>3, <3>1 DEF Lists
    <3> QED
      BY <1>4, <1>5, <3>1, <3>2 DEF KeysOf
  <2> QED
    BY <2>1, <2>2
<1>10. \A j \in 1 .. Len(w) : \E i \in 1 .. Len(lru) : w[j] = lru[i]
  BY <1>4, <1>5
<1> QED
  BY <1>8, <1>9, <1>10 DEF w, u

\* An element with a key of its own goes to the front.
LEMMA PushFrontOrdered ==
    ASSUME NEW l, NEW t, Ordered(l, t), NEW el \in Elements, el.key \notin KeysOf(l)
    PROVE  /\ Ordered(PushFront(el, l), PushFront(el.key, t))
           /\ KeysOf(PushFront(el, l)) = KeysOf(l) \cup {el.key}
           /\ Len(PushFront(el, l)) = Len(l) + 1
           /\ PushFront(el, l)[1] = el
           /\ \A i \in 1 .. Len(l) : PushFront(el, l)[i + 1] = l[i]
<1> DEFINE w == PushFront(el, l)
           u == PushFront(el.key, t)
<1>1. l \in Seq(Elements) /\ t \in Seq(Keys) /\ Len(t) = Len(l) /\ Len(l) \in Nat
  BY SMT DEF Ordered
<1>2. el.key \in Keys
  BY DEF Elements
<1>3. /\ w \in Seq(Elements) /\ Len(w) = Len(l) + 1 /\ w[1] = el
      /\ \A i \in 2 .. Len(w) : w[i] = l[i-1]
  BY <1>1, SMT DEF PushFront
<1>4. /\ u \in Seq(Keys) /\ Len(u) = Len(l) + 1 /\ u[1] = el.key
      /\ \A i \in 2 .. Len(w) : u[i] = t[i-1]
  BY <1>1, <1>2, <1>3, SMT DEF PushFront
<1> HIDE DEF w, u
<1>5. \A i \in 1 .. Len(w) : i = 1 \/ (i \in 2 .. Len(w) /\ i - 1 \in 1 .. Len(l))
  BY <1>1, <1>3, SMT
<1>6. \A i \in 1 .. Len(l) : l[i].key # el.key
  BY DEF KeysOf
<1>7. ASSUME NEW i \in 1 .. Len(w), NEW j \in 1 .. Len(w), w[i].key = w[j].key
      PROVE  i = j
  <2>1. CASE i = 1 \/ j = 1
    <3>1. \A n \in 1 .. Len(w) : n # 1 => w[n].key # el.key
      BY <1>3, <1>5, <1>6
    <3> QED
      BY <1>3, <1>7, <2>1, <3>1
  <2>2. CASE i # 1 /\ j # 1
    <3>1. i - 1 = j - 1
      BY <1>3, <1>5, <1>7, <2>2 DEF Ordered
    <3> QED
      BY <3>1, SMT
  <2> QED
    BY <2>1, <2>2
<1>8. ASSUME NEW i \in 1 .. Len(w) PROVE u[i] = w[i].key
  <2>1. CASE i = 1
    BY <1>3, <1>4, <2>1
  <2>2. CASE i \in 2 .. Len(w) /\ i - 1 \in 1 .. Len(l)
    BY <1>3, <1>4, <2>2, SMT DEF Ordered
  <2> QED
    BY <1>5, <2>1, <2>2
<1>9. Ordered(w, u)
  BY <1>3, <1>4, <1>7, <1>8 DEF Ordered
<1>10. \A i \in 1 .. Len(l) : i + 1 \in 2 .. Len(w) /\ i + 1 \in 1 .. Len(w) /\ (i + 1) - 1 = i
  BY <1>1, <1>3, SMT
<1>11. KeysOf(w) = KeysOf(l) \cup {el.key}
  <2>1. ASSUME NEW k \in KeysOf(w) PROVE k \in KeysOf(l) \cup {el.key}
    BY <1>3, <1>5 DEF KeysOf
  <2>2. ASSUME NEW k \in KeysOf(l) PROVE k \in KeysOf(w)
    <3>1. PICK i \in 1 .. Len(l) : l[i].key = k
      BY DEF KeysOf
    <3>2. i + 1 \in 1 .. Len(w) /\ w[i + 1] = l[i]
      BY <1>3, <1>10
    <3> QED
      BY <3>1, <3>2 DEF KeysOf
  <2>3. el.key \in KeysOf(w)
    <3>1. 1 \in 1 .. Len(w)
      BY <1>1, <1>3, SMT
    <3> QED
      BY <1>3, <3>1 DEF KeysOf
  <2> QED
    BY <2>1, <2>2, <2>3
<1>12. \A i \in 1 .. Len(l) : w[i + 1] = l[i]
  BY <1>3, <1>10
<1> QED
  BY <1>3, <1>9, <1>11, <1>12 DEF w, u

\* The element of the list l with the key k.
El(l, k) == CHOOSE el \in Range(l) : el.key = k

LEMMA ElIs ==
    ASSUME NEW l, NEW t, Ordered(l, t), NEW i \in 1 .. Len(l)
    PROVE  El(l, l[i].key) = l[i]
<1>1. DOMAIN l = 1 .. Len(l)
  BY SMT DEF Ordered
<1>2. Range(l) = {l[j] : j \in 1 .. Len(l)}
  BY <1>1 DEF Range
<1>3. l[i] \in Range(l)
  BY <1>2
<1>4. \A el \in Range(l) : el.key = l[i].key => el = l[i]
  BY <1>2 DEF Ordered
<1> QED
  BY <1>3, <1>4 DEF El

LEMMA ElementIs ==
    ASSUME ListOK, NEW k \in items
    PROVE  /\ element(k) = El(lru, k)
           /\ El(lru, k) \in Elements /\ El(lru, k).key = k
           /\ \E i \in 1 .. Len(lru) : lru[i] = El(lru, k)
<1>1. PICK i \in 1 .. Len(lru) : lru[i].key = k
  BY DEF ListOK, KeysOf
<1>2. El(lru, k) = lru[i]
  BY <1>1, ElIs DEF ListOK
<1>3. lru[i] \in Elements
  BY SMT DEF ListOK, Ordered
<1>4. element(k) = El(lru, k)
  BY DEF element, El
<1> QED
  BY <1>1, <1>2, <1>3, <1>4, SMT

LEMMA ExpiryIsNat == \A el \in Elements : el.expiry \in Nat
<1>1. ASSUME NEW t \in 1 .. MaxTime, NEW w \in Writes, w.ttl > 0 PROVE t + w.ttl \in Nat
  BY <1>1, CacheAssumption, SMT DEF CacheAssumption
<1>2. \A e \in Expiries : e \in Nat
  BY <1>1, SMT DEF Expiries
<1> QED
  BY <1>2 DEF Elements

-----------------------------------------------------------------------------
(***************************************************************************)
(* The two ways in which a step changes the list.                          *)
(***************************************************************************)
\* The keys ks go.
LEMMA RemovalKeeps ==
    ASSUME ListOK, NEW ks, removeElements(ks)
    PROVE  /\ Ordered(lru', touched') /\ items' = KeysOf(lru')
           /\ Len(lru') <= Len(lru)
           /\ \A j \in items' : El(lru', j) = El(lru, j)
<1>1. Ordered(lru, touched) /\ items = KeysOf(lru)
  BY DEF ListOK
<1>2. lru' = Without(ks) /\ touched' = Untouched(ks) /\ items' = items \ ks
  BY DEF removeElements
<1>3. /\ Ordered(lru', touched') /\ items' = KeysOf(lru')
      /\ \A j \in 1 .. Len(lru') : \E i \in 1 .. Len(lru) : lru'[j] = lru[i]
  BY <1>1, <1>2, RemovalOrdered, SMT
<1>4. Len(lru') <= Len(lru)
  <2>1. /\ IsFiniteSet(items) /\ Cardinality(items) = Len(lru)
        /\ Cardinality(items \ ks) = Len(lru')
    BY <1>1, <1>2, <1>3, OrderedCard
  <2>2. items \ ks \in SUBSET items
    OBVIOUS
  <2>3. Cardinality(items \ ks) <= Cardinality(items)
    BY <2>1, <2>2, FS_Subset
  <2> QED
    BY <2>1, <2>3
<1>5. ASSUME NEW j \in items' PROVE El(lru', j) = El(lru, j)
  <2>1. PICK n \in 1 .. Len(lru') : lru'[n].key = j
    BY <1>3 DEF KeysOf
  <2>2. PICK i \in 1 .. Len(lru) : lru'[n] = lru[i]
    BY <1>3
  <2>3. El(lru', j) = lru'[n]
    BY <1>3, <2>1, ElIs
  <2>4. El(lru, j) = lru[i]
    BY <1>1, <2>1, <2>2, ElIs
  <2> QED
    BY <2>2, <2>3, <2>4
<1> QED
  BY <1>3, <1>4, <1>5

\* The keys ks make room and el goes to the front.
Puts(el, ks) ==
    /\ lru' = PushFront(el, Without(ks))
    /\ items' = (items \ ks) \cup {el.key}
    /\ touched' = PushFront(el.key, Untouched(ks))

LEMMA PutsKeeps ==
    ASSUME ListOK, NEW ks, NEW el \in Elements, el.key \notin items \ ks, Puts(el, ks)
    PROVE  /\ Ordered(lru', touched') /\ items' = KeysOf(lru')
           /\ Len(lru') = Cardinality(items \ ks) + 1
           /\ El(lru', el.key) = el
           /\ \A j \in items \ ks : El(lru', j) = El(lru, j)
<1> DEFINE w == Without(ks)
           u == Untouched(ks)
<1>1. Ordered(lru, touched) /\ items = KeysOf(lru)
  BY DEF ListOK
<1>2. lru' = PushFront(el, w) /\ touched' = PushFront(el.key, u) /\ items' = (items \ ks) \cup {el.key}
  BY DEF Puts
<1>3. /\ Ordered(w, u) /\ KeysOf(w) = items \ ks
      /\ \A j \in 1 .. Len(w) : \E i \in 1 .. Len(lru) : w[j] = lru[i]
  BY <1>1, RemovalOrdered
<1>4. Len(w) = Cardinality(items \ ks)
  BY <1>3, OrderedCard
<1> HIDE DEF w, u
<1>5. el.key \notin KeysOf(w)
  BY <1>3
<1>6. /\ Ordered(lru', touched') /\ items' = KeysOf(lru')
      /\ Len(lru') = Len(w) + 1
      /\ lru'[1] = el /\ \A i \in 1 .. Len(w) : lru'[i + 1] = w[i]
  BY <1>2, <1>3, <1>5, PushFrontOrdered, SMT
<1>7. Len(w) \in Nat
  BY <1>3, SMT DEF Ordered
<1>8. El(lru', el.key) = el
  <2>1. 1 \in 1 .. Len(lru')
    BY <1>6, <1>7, SMT
  <2> QED
    BY <1>6, <2>1, ElIs
<1>9. ASSUME NEW j \in items \ ks PROVE El(lru', j) = El(lru, j)
  <2>1. PICK n \in 1 .. Len(w) : w[n].key = j
    BY <1>3 DEF KeysOf
  <2>2. PICK i \in 1 .. Len(lru) : w[n] = lru[i]
    BY <1>3
  <2>3. n + 1 \in 1 .. Len(lru') /\ lru'[n + 1] = w[n]
    BY <1>6, <1>7, SMT
  <2>4. El(lru', j) = w[n]
    BY <1>6, <2>1, <2>3, ElIs, SMT
  <2>5. El(lru, j) = lru[i]
    BY <1>1, <2>1, <2>2, ElIs
  <2> QED
    BY <2>2, <2>4, <2>5
<1> QED
  BY <1>4, <1>6, <1>8, <1>9

\* An element takes the place of the one with its key.
LEMMA ReplaceIsPuts ==
    ASSUME ListOK, NEW el \in Elements, el.key \in items,
           lru' = PushFront(el, Without({el.key})), items' = items, Touch(el.key)
    PROVE  Puts(el, {el.key}) /\ Cardinality(items \ {el.key}) + 1 = Len(lru)
<1>1. items' = (items \ {el.key}) \cup {el.key}
  OBVIOUS
<1>2. {el.key} \cup (items \ items') = {el.key}
  OBVIOUS
<1>3. touched' = PushFront(el.key, Untouched({el.key}))
  BY <1>2 DEF Touch
<1>4. IsFiniteSet(items) /\ Cardinality(items) = Len(lru) /\ Len(lru) \in Nat
  BY OrderedCard, SMT DEF ListOK, Ordered
<1>5. Cardinality(items \ {el.key}) = Cardinality(items) - 1
  BY <1>4, FS_RemoveElement
<1> QED
  BY <1>1, <1>3, <1>4, <1>5, SMT DEF Puts

LEMMA EvictsOne ==
    ASSUME ListOK
    PROVE  /\ evicts \subseteq items /\ Cardinality(items \ evicts) \in Nat
           /\ MaxEntries > 0 => Cardinality(items \ evicts) + 1 <= MaxEntries
           /\ evicts # {} => /\ evicts = {lru[Len(lru)].key}
                             /\ Len(lru) = MaxEntries /\ Len(lru) \in 1 .. Len(lru)
<1>1. IsFiniteSet(items) /\ Cardinality(items) = Len(lru) /\ Len(lru) \in Nat
  BY OrderedCard, SMT DEF ListOK, Ordered
<1>2. MaxEntries \in Int /\ (MaxEntries > 0 => Len(lru) <= MaxEntries)
  BY CacheAssumption DEF CacheAssumption, ListOK
<1>3. CASE MaxEntries > 0 /\ Len(lru) >= MaxEntries
  <2>1. evicts = {lru[Len(lru)].key}
    BY <1>3 DEF evicts, Back
  <2>2. Len(lru) = MaxEntries /\ Len(lru) \in 1 .. Len(lru)
    BY <1>1, <1>2, <1>3, SMT
  <2>3. lru[Len(lru)].key \in items
    BY <2>2 DEF ListOK, KeysOf
  <2>4. Cardinality(items \ evicts) = Len(lru) - 1
    BY <1>1, <2>1, <2>3, FS_RemoveElement
  <2> QED
    BY <1>1, <1>2, <2>1, <2>2, <2>3, <2>4, SMT
<1>4. CASE ~(MaxEntries > 0 /\ Len(lru) >= MaxEntries)
  <2>1. evicts = {}
    BY <1>4 DEF evicts
  <2>2. items \ evicts = items
    BY <2>1
  <2>3. MaxEntries > 0 => Len(lru) + 1 <= MaxEntries
    BY <1>1, <1>2, <1>4, SMT
  <2> QED
    BY <1>1, <2>1, <2>2, <2>3
<1> QED
  BY <1>3, <1>4

\* A new element, after the eviction it needs.
LEMMA InsertIsPuts ==
    ASSUME ListOK, NEW el \in Elements, el.key \notin items,
           lru' = PushFront(el, Without(evicts)), items' = (items \ evicts) \cup {el.key}, Touch(el.key)
    PROVE  Puts(el, evicts)
<1>1. items \ items' = evicts
  BY EvictsOne
<1>2. \A i \in DOMAIN touched : touched[i] # el.key
  BY SMT DEF ListOK, Ordered, KeysOf
<1>3. {i \in DOMAIN touched : touched[i] \notin {el.key} \cup (items \ items')}
        = {i \in DOMAIN touched : touched[i] \notin evicts}
  BY <1>1, <1>2
<1>4. Untouched({el.key} \cup (items \ items')) = Untouched(evicts)
  BY <1>3 DEF Untouched
<1> QED
  BY <1>4 DEF Touch, Puts

LEMMA SetIsPuts ==
    ASSUME ListOK, NEW c \in Callers, SetStore(c)
    PROVE  /\ set[c].el \in Elements
           /\ \E ks : /\ Puts(set[c].el, ks) /\ set[c].el.key \notin items \ ks
                      /\ ks \subseteq evicts \cup {set[c].el.key}
                      /\ set[c].el.key \in items => set[c].el.key \in ks /\ items' = items
                      /\ Cardinality(items \ ks) \in Nat
                      /\ MaxEntries > 0 => Cardinality(items \ ks) + 1 <= MaxEntries
<1> DEFINE el == set[c].el
<1>1. el \in Elements
  BY DEF ListOK, TypeOK, SetStore, Idle
<1>2. CASE el.key \in items
  <2>1. lru' = PushFront(el, Without({el.key})) /\ items' = items /\ Touch(el.key)
    BY <1>2 DEF SetStore
  <2>2. Puts(el, {el.key}) /\ Cardinality(items \ {el.key}) + 1 = Len(lru)
    BY <1>1, <1>2, <2>1, ReplaceIsPuts
  <2>3. Cardinality(items \ {el.key}) \in Nat
    <3>1. IsFiniteSet(items)
      BY OrderedCard DEF ListOK
    <3>2. IsFiniteSet(items \ {el.key})
      BY <3>1, FS_RemoveElement
    <3> QED
      BY <3>2, FS_CardinalityType
  <2> QED
    BY <1>1, <2>1, <2>2, <2>3 DEF ListOK
<1>3. CASE el.key \notin items
  <2>1. lru' = PushFront(el, Without(evicts)) /\ items' = (items \ evicts) \cup {el.key} /\ Touch(el.key)
    BY <1>3 DEF SetStore
  <2>2. Puts(el, evicts)
    BY <1>1, <1>3, <2>1, InsertIsPuts
  <2> QED
    BY <1>1, <1>3, <2>2, EvictsOne
<1> QED
  BY <1>2, <1>3

LEMMA HitIsPuts ==
    ASSUME ListOK, NEW k \in items,
           lru' = PushFront(element(k), Without({k})), items' = items, Touch(k)
    PROVE  Puts(El(lru, k), {k}) /\ Cardinality(items \ {k}) + 1 = Len(lru)
<1>1. element(k) = El(lru, k) /\ El(lru, k) \in Elements /\ El(lru, k).key = k
  BY ElementIs
<1> QED
  BY <1>1, ReplaceIsPuts

-----------------------------------------------------------------------------
(***************************************************************************)
(* The invariant.                                                          *)
(***************************************************************************)
LEMMA InitListOK == Init => ListOK
<1> SUFFICES ASSUME Init PROVE ListOK
  OBVIOUS
<1>1. lru = <<>> /\ touched = <<>> /\ items = {} /\ now = 1 /\ cutoff = 0 /\ got = NoGet
  BY DEF Init
<1>2. 1 \in 1 .. MaxTime /\ 0 \in 0 .. MaxTime
  BY CacheAssumption, SMT DEF CacheAssumption
<1>3. Len(lru) = 0 /\ 1 .. Len(lru) = {} /\ lru \in Seq(Elements) /\ touched \in Seq(Keys)
  BY <1>1, SMT
<1>4. TypeOK
  BY <1>1, <1>2, <1>3 DEF TypeOK, Init, Idle
<1>5. Ordered(lru, touched) /\ KeysOf(lru) = {}
  BY <1>1, <1>3 DEF Ordered, KeysOf
<1>6. (MaxEntries > 0 => Len(lru) <= MaxEntries) /\ cutoff <= now
  BY <1>1, <1>3, CacheAssumption, SMT DEF CacheAssumption
<1> QED
  BY <1>1, <1>4, <1>5, <1>6 DEF ListOK

\* What a step leaves to show once the list and the map are in order.
LEMMA Assembled ==
    ASSUME ListOK, Ordered(lru', touched'), items' = KeysOf(lru'),
           MaxEntries > 0 => Len(lru') <= MaxEntries,
           now' \in 1 .. MaxTime, cutoff' \in 0 .. MaxTime, cutoff' <= now', stopped' \in BOOLEAN,
           set' \in [Callers -> {Idle} \cup [st : {"locking"}, el : Elements]],
           got' \in {NoGet} \cup [op : {"hit"}, key : Keys, value : Values] \cup [op : {"miss"}, key : Keys]
    PROVE  ListOK'
<1>1. lru' \in Seq(Elements) /\ touched' \in Seq(Keys)
  BY DEF Ordered
<1>2. items' \subseteq Keys
  <2>1. \A i \in 1 .. Len(lru') : lru'[i] \in Elements
    BY <1>1, SMT
  <2> QED
    BY <2>1, SMT DEF KeysOf, Elements
<1>3. TypeOK'
  BY <1>1, <1>2 DEF TypeOK
<1> QED
  BY <1>3 DEF ListOK, Ordered, KeysOf

LEMMA GetListOK ==
    ASSUME ListOK, NEW k \in Keys, Get(k) PROVE ListOK'
<1>0. /\ now' \in 1 .. MaxTime /\ cutoff' \in 0 .. MaxTime /\ cutoff' <= now' /\ stopped' \in BOOLEAN
      /\ set' \in [Callers -> {Idle} \cup [st : {"locking"}, el : Elements]]
  BY DEF Get, ListOK, TypeOK
<1>m. Miss(k) \in [op : {"miss"}, key : Keys]
  BY DEF Miss
<1>1. CASE k \notin items
  <2>1. UNCHANGED <<items, lru, touched>> /\ got' = Miss(k)
    BY <1>1 DEF Get
  <2>2. Ordered(lru', touched') /\ items' = KeysOf(lru') /\ (MaxEntries > 0 => Len(lru') <= MaxEntries)
    BY <2>1 DEF ListOK
  <2> QED
    BY <1>0, <1>m, <2>1, <2>2, Assembled
<1>2. CASE k \in items /\ expired(element(k), now)
  <2>1. removeElements({k}) /\ got' = Miss(k)
    BY <1>2 DEF Get
  <2>2. Ordered(lru', touched') /\ items' = KeysOf(lru') /\ Len(lru') <= Len(lru)
    BY <2>1, RemovalKeeps
  <2>3. MaxEntries > 0 => Len(lru') <= MaxEntries
    BY <2>2, CacheAssumption, SMT DEF CacheAssumption, ListOK, Ordered
  <2> QED
    BY <1>0, <1>m, <2>1, <2>2, <2>3, Assembled
<1>3. CASE k \in items /\ ~expired(element(k), now)
  <2>1. lru' = PushFront(element(k), Without({k})) /\ items' = items /\ Touch(k) /\ got' = Hit(k, element(k).value)
    BY <1>3 DEF Get
  <2>2. element(k) = El(lru, k) /\ El(lru, k) \in Elements /\ El(lru, k).key = k
    BY <1>3, ElementIs
  <2>3. Puts(El(lru, k), {k}) /\ Cardinality(items \ {k}) + 1 = Len(lru)
    <3>1. k \in items
      BY <1>3
    <3> QED
      BY <2>1, <3>1, HitIsPuts
  <2>4. Ordered(lru', touched') /\ items' = KeysOf(lru') /\ Len(lru') = Len(lru)
    BY <2>2, <2>3, PutsKeeps
  <2>5. MaxEntries > 0 => Len(lru') <= MaxEntries
    BY <2>4 DEF ListOK
  <2>6. got' \in [op : {"hit"}, key : Keys, value : Values]
    BY <2>1, <2>2 DEF Hit, Elements
  <2> QED
    BY <1>0, <2>4, <2>5, <2>6, Assembled
<1> QED
  BY <1>1, <1>2, <1>3

LEMMA SetListOK ==
    ASSUME ListOK, NEW c \in Callers, SetStore(c) PROVE ListOK'
<1>1. /\ now' \in 1 .. MaxTime /\ cutoff' \in 0 .. MaxTime /\ cutoff' <= now' /\ stopped' \in BOOLEAN
      /\ set' \in [Callers -> {Idle} \cup [st : {"locking"}, el : Elements]] /\ got' = NoGet
  BY DEF SetStore, ListOK, TypeOK
<1>2. set[c].el \in Elements
  BY SetIsPuts
<1>3. PICK ks : /\ Puts(set[c].el, ks) /\ set[c].el.key \notin items \ ks
                /\ MaxEntries > 0 => Cardinality(items \ ks) + 1 <= MaxEntries
  BY SetIsPuts
<1>4. Ordered(lru', touched') /\ items' = KeysOf(lru') /\ Len(lru') = Cardinality(items \ ks) + 1
  BY <1>2, <1>3, PutsKeeps
<1> QED
  BY <1>1, <1>3, <1>4, Assembled

LEMMA RemovalListOK ==
    ASSUME ListOK, NEW ks, removeElements(ks), got' = NoGet,
           UNCHANGED <<now, set, stopped>>, cutoff' \in {cutoff, 0}
    PROVE  ListOK'
<1>1. /\ now' \in 1 .. MaxTime /\ cutoff' \in 0 .. MaxTime /\ cutoff' <= now' /\ stopped' \in BOOLEAN
      /\ set' \in [Callers -> {Idle} \cup [st : {"locking"}, el : Elements]]
  BY CacheAssumption, SMT DEF ListOK, TypeOK, CacheAssumption
<1>2. Ordered(lru', touched') /\ items' = KeysOf(lru') /\ Len(lru') <= Len(lru)
  BY RemovalKeeps
<1>3. MaxEntries > 0 => Len(lru') <= MaxEntries
  BY <1>2, CacheAssumption, SMT DEF CacheAssumption, ListOK, Ordered
<1> QED
  BY <1>1, <1>2, <1>3, Assembled, SMT

LEMMA NextListOK == ListOK /\ [Next]_vars => ListOK'
<1> SUFFICES ASSUME ListOK, [Next]_vars PROVE ListOK'
  OBVIOUS
<1>1. ASSUME NEW k \in Keys, Get(k) PROVE ListOK'
  BY <1>1, GetListOK
<1>2. ASSUME NEW k \in Keys, Delete(k) PROVE ListOK'
  BY <1>2, RemovalListOK DEF Delete
<1>3. ASSUME NEW c \in Callers, NEW k \in Keys, NEW w \in Writes, SetExpiry(c, k, w) PROVE ListOK'
  <2> DEFINE el == [key |-> k, value |-> w.value, expiry |-> IF w.ttl > 0 THEN now + w.ttl ELSE 0]
  <2>1. (IF w.ttl > 0 THEN now + w.ttl ELSE 0) \in Expiries
    BY SMT DEF Expiries, ListOK, TypeOK
  <2>2. el \in Elements
    BY <2>1 DEF Elements, Values
  <2>3. set' = [set EXCEPT ![c] = [st |-> "locking", el |-> el]] /\ got' = NoGet
        /\ UNCHANGED <<items, lru, now, cutoff, stopped, touched>>
    BY <1>3 DEF SetExpiry
  <2> HIDE DEF el
  <2>4. set' \in [Callers -> {Idle} \cup [st : {"locking"}, el : Elements]]
    BY <2>2, <2>3 DEF ListOK, TypeOK
  <2> QED
    BY <2>3, <2>4, SMT DEF ListOK, TypeOK, Ordered, KeysOf
<1>4. ASSUME NEW c \in Callers, SetStore(c) PROVE ListOK'
  BY <1>4, SetListOK
<1>5. CASE SweepStart \/ CleanupReturns \/ Pass
  <2>1. UNCHANGED <<items, lru, set, touched>> /\ got' = NoGet
    BY <1>5 DEF SweepStart, CleanupReturns, Pass
  <2>2. now' \in 1 .. MaxTime /\ cutoff' \in 0 .. MaxTime /\ cutoff' <= now' /\ stopped' \in BOOLEAN
    <3>1. CASE SweepStart
      BY <3>1, CacheAssumption, SMT DEF SweepStart, ListOK, TypeOK, CacheAssumption
    <3>2. CASE CleanupReturns
      BY <3>2 DEF CleanupReturns, ListOK, TypeOK
    <3>3. CASE Pass
      BY <3>3, CacheAssumption, SMT DEF Pass, ListOK, TypeOK, CacheAssumption
    <3> QED
      BY <1>5, <3>1, <3>2, <3>3, SMT
  <2> QED
    BY <2>1, <2>2, SMT DEF ListOK, TypeOK, Ordered, KeysOf
<1>6. CASE SweepStore
  BY <1>6, RemovalListOK DEF SweepStore
<1>7. CASE UNCHANGED vars
  BY <1>7, SMT DEF vars, ListOK, TypeOK, Ordered, KeysOf
<1> QED
  BY <1>1, <1>2, <1>3, <1>4, <1>5, <1>6, <1>7 DEF Next

LEMMA ListInvariance == Spec => []ListOK
BY InitListOK, NextListOK, PTL DEF Spec

\* The map and the list of the cache never drift apart and never outgrow
\* maxEntries, whatever Set, evictLRU, Get and the sweep do between them.
THEOREM MapFollowsList == Spec => []MapMatchesList
<1>1. ListOK => MapMatchesList
  <2> SUFFICES ASSUME ListOK PROVE MapMatchesList
    OBVIOUS
  <2>1. DOMAIN lru = 1 .. Len(lru)
    BY SMT DEF ListOK, Ordered
  <2>2. items = {el.key : el \in Range(lru)}
    BY <2>1 DEF ListOK, KeysOf, Range
  <2>3. Cardinality(items) = Len(lru)
    BY OrderedCard DEF ListOK
  <2> QED
    BY <2>2, <2>3 DEF ListOK, MapMatchesList
<1> QED
  BY <1>1, ListInvariance, PTL

-----------------------------------------------------------------------------
(***************************************************************************)
(* Why an entry leaves.                                                    *)
(***************************************************************************)
\* The history has the keys at the places of their elements.
LEMMA LastIsLeastRecent ==
    ASSUME ListOK, Len(lru) \in 1 .. Len(lru) PROVE LeastRecent(lru[Len(lru)].key)
<1> DEFINE age(j) == CHOOSE i \in DOMAIN touched : touched[i] = j
<1>1. ASSUME NEW n \in 1 .. Len(lru) PROVE age(lru[n].key) = n
  <2>1. n \in DOMAIN touched /\ touched[n] = lru[n].key
    BY SMT DEF ListOK, Ordered
  <2>2. \A i \in DOMAIN touched : touched[i] = lru[n].key => i = n
    BY SMT DEF ListOK, Ordered
  <2> QED
    BY <2>1, <2>2
<1> HIDE DEF age
<1>2. ASSUME NEW j \in items \ {lru[Len(lru)].key} PROVE age(j) < age(lru[Len(lru)].key)
  <2>1. PICK n \in 1 .. Len(lru) : lru[n].key = j
    BY DEF ListOK, KeysOf
  <2>2. n < Len(lru)
    BY <2>1, SMT
  <2>3. age(j) = n /\ age(lru[Len(lru)].key) = Len(lru)
    BY <1>1, <2>1
  <2> QED
    BY <2>2, <2>3
<1> QED
  BY <1>2 DEF LeastRecent, age

\* An entry leaves the cache only when it has expired, is deleted or is the least
\* recently used one of a full cache that Set needs room in.
THEOREM NothingLeavesUnasked == Spec => EntriesLeaveForAReason
<1> DEFINE Reason(k) ==
             \/ expired(element(k), now)
             \/ Delete(k)
             \/ items' \ items # {} /\ Len(lru) = MaxEntries /\ LeastRecent(k)
<1>1. ASSUME ListOK, Next, NEW k \in items \ items' PROVE Reason(k)
  <2>1. ASSUME NEW j \in Keys, Get(j) PROVE Reason(k)
    <3>1. CASE j \in items /\ expired(element(j), now)
      <4>1. k = j
        BY <2>1, <3>1 DEF Get, removeElements
      <4> QED
        BY <3>1, <4>1
    <3>2. CASE ~(j \in items /\ expired(element(j), now))
      BY <2>1, <3>2 DEF Get
    <3> QED
      BY <3>1, <3>2
  <2>2. ASSUME NEW j \in Keys, Delete(j) PROVE Reason(k)
    <3>1. k = j
      BY <2>2 DEF Delete, removeElements
    <3> QED
      BY <2>2, <3>1
  <2>3. ASSUME NEW c \in Callers, SetStore(c) PROVE Reason(k)
    <3>1. PICK ks : /\ Puts(set[c].el, ks)
                    /\ ks \subseteq evicts \cup {set[c].el.key}
                    /\ set[c].el.key \in items => items' = items
      BY <1>1, <2>3, SetIsPuts
    <3>2. k \in evicts /\ set[c].el.key \in items' \ items
      BY <3>1 DEF Puts
    <3>3. k = lru[Len(lru)].key /\ Len(lru) = MaxEntries /\ Len(lru) \in 1 .. Len(lru)
      BY <1>1, <3>2, EvictsOne
    <3>4. LeastRecent(k)
      BY <1>1, <3>3, LastIsLeastRecent
    <3> QED
      BY <3>2, <3>3, <3>4
  <2>4. CASE SweepStore
    <3>1. k \in items /\ expired(element(k), cutoff)
      BY <2>4 DEF SweepStore, removeElements, sweeps
    <3>2. element(k) \in Elements
      BY <1>1, <3>1, ElementIs
    <3>3. element(k).expiry \in Nat
      BY <3>2, ExpiryIsNat
    <3>4. cutoff \in Nat /\ now \in Nat /\ cutoff <= now
      BY <1>1, CacheAssumption, SMT DEF ListOK, TypeOK, CacheAssumption
    <3>5. expired(element(k), now)
      BY <3>1, <3>3, <3>4, SMT DEF expired
    <3> QED
      BY <3>5
  <2>5. ASSUME items' = items PROVE Reason(k)
    BY <2>5
  <2> HIDE DEF Reason
  <2> QED
    BY <1>1, <2>1, <2>2, <2>3, <2>4, <2>5
       DEF Next, SetExpiry, SweepStart, CleanupReturns, Pass
<1>2. ListOK /\ [Next]_vars => [\A k \in items \ items' : Reason(k)]_vars
  <2> HIDE DEF Reason
  <2> QED
    BY <1>1
<1>3. Spec => [][\A k \in items \ items' : Reason(k)]_vars
  <2> HIDE DEF Reason
  <2> QED
    BY <1>2, ListInvariance, PTL DEF Spec
<1> QED
  BY <1>3 DEF EntriesLeaveForAReason

-----------------------------------------------------------------------------
(***************************************************************************)
(* The cache is a store.                                                   *)
(***************************************************************************)
Entry(el) == [value |-> el.value, expiry |-> el.expiry]
Mapped == [k \in items |-> [value |-> element(k).value, expiry |-> element(k).expiry]]

LEMMA MappedIs ==
    /\ DOMAIN Mapped = items
    /\ \A k \in items : Mapped[k] = Entry(El(lru, k))
    /\ DOMAIN Mapped' = items'
    /\ \A k \in items' : Mapped'[k] = Entry(El(lru', k))
BY DEF Mapped, Entry, element, El

LEMMA MappedEqual ==
    ASSUME items' \subseteq items, \A k \in items' : El(lru', k) = El(lru, k)
    PROVE  Mapped' = [k \in items' |-> Mapped[k]]
BY MappedIs DEF Mapped

\* A step that returns nothing and keeps what it does not drop.
LEMMA DropIsForget ==
    ASSUME items' \subseteq items, \A k \in items' : El(lru', k) = El(lru, k),
           got' = NoGet, now' = now
    PROVE  Promise!Next
<1>1. Mapped' = [k \in items' |-> Mapped[k]] /\ DOMAIN Mapped' = items' /\ DOMAIN Mapped = items
  BY MappedEqual, MappedIs
<1> QED
  BY <1>1 DEF Promise!Next, Promise!Forget, Promise!Restrict, Promise!NoGet, NoGet, Mapped

LEMMA SameIsSame ==
    ASSUME items' = items, \A k \in items : El(lru', k) = El(lru, k)
    PROVE  Mapped' = Mapped
BY MappedIs, SMT DEF Mapped

LEMMA LiveIs ==
    ASSUME ListOK, NEW k
    PROVE  Promise!Live(k) <=> k \in items /\ ~expired(element(k), now)
<1>1. DOMAIN Mapped = items
  BY MappedIs
<1>2. CASE k \notin items
  BY <1>1, <1>2 DEF Promise!Live, Mapped
<1>3. CASE k \in items
  <2>1. element(k).expiry \in Nat
    BY <1>3, ElementIs, ExpiryIsNat
  <2>2. Mapped[k].expiry = element(k).expiry
    BY <1>3 DEF Mapped
  <2>3. now \in Nat
    BY SMT DEF ListOK, TypeOK
  <2>4. element(k).expiry >= now <=> ~(element(k).expiry < now)
    BY <2>1, <2>3, SMT
  <2> QED
    BY <1>1, <1>3, <2>2, <2>4 DEF Promise!Live, Mapped, expired
<1> QED
  BY <1>2, <1>3

LEMMA GetIsGet ==
    ASSUME ListOK, NEW k \in Keys, Get(k) PROVE Promise!Next
<1>0. now' = now /\ DOMAIN Mapped = items /\ DOMAIN Mapped' = items'
  BY MappedIs DEF Get
<1>1. CASE k \notin items
  <2>1. UNCHANGED <<items, lru>> /\ got' = Miss(k)
    BY <1>1 DEF Get
  <2>2. Mapped' = Mapped
    BY <2>1, SameIsSame
  <2>3. Mapped' = [j \in items \ {k} |-> Mapped[j]]
    BY <1>1, <2>2 DEF Mapped
  <2>4. ~Promise!Live(k)
    BY <1>1, LiveIs
  <2>5. Promise!Get(k)
    BY <1>0, <2>1, <2>3, <2>4 DEF Promise!Get, Promise!Restrict, Promise!Miss, Miss, Mapped
  <2> QED
    BY <2>5 DEF Promise!Next
<1>2. CASE k \in items /\ expired(element(k), now)
  <2>1. removeElements({k}) /\ got' = Miss(k) /\ items' = items \ {k}
    BY <1>2 DEF Get, removeElements
  <2>2. \A j \in items' : El(lru', j) = El(lru, j)
    BY <2>1, RemovalKeeps
  <2>3. Mapped' = [j \in items \ {k} |-> Mapped[j]]
    BY <2>1, <2>2, MappedEqual
  <2>4. ~Promise!Live(k)
    BY <1>2, LiveIs
  <2>5. Promise!Get(k)
    BY <1>0, <2>1, <2>3, <2>4, SMT DEF Promise!Get, Promise!Restrict, Promise!Miss, Miss, Mapped
  <2> QED
    BY <2>5 DEF Promise!Next
<1>3. CASE k \in items /\ ~expired(element(k), now)
  <2>1. lru' = PushFront(element(k), Without({k})) /\ items' = items /\ Touch(k) /\ got' = Hit(k, element(k).value)
    BY <1>3 DEF Get
  <2>2. El(lru, k) \in Elements /\ El(lru, k).key = k
    BY <1>3, ElementIs, SMT
  <2>3. Puts(El(lru, k), {k})
    BY <1>3, <2>1, HitIsPuts
  <2>4. El(lru', k) = El(lru, k) /\ \A j \in items \ {k} : El(lru', j) = El(lru, j)
    BY <2>2, <2>3, PutsKeeps
  <2>5. Mapped' = Mapped
    BY <2>1, <2>4, SameIsSame
  <2>6. Mapped[k].value = element(k).value
    BY <1>3 DEF Mapped
  <2>7. Promise!Live(k)
    BY <1>3, LiveIs
  <2>8. Promise!Get(k)
    BY <1>0, <2>1, <2>5, <2>6, <2>7 DEF Promise!Get, Promise!Hit, Hit, Mapped
  <2> QED
    BY <2>8 DEF Promise!Next
<1> QED
  BY <1>1, <1>2, <1>3

LEMMA SetIsSet ==
    ASSUME ListOK, NEW c \in Callers, SetStore(c) PROVE Promise!Next
<1> DEFINE el == set[c].el
           k == el.key
<1>1. el \in Elements /\ k \in Keys /\ got' = NoGet /\ now' = now
  BY SetIsPuts DEF Elements, SetStore
<1>2. PICK ks : /\ Puts(el, ks) /\ k \notin items \ ks
                /\ Cardinality(items \ ks) \in Nat
                /\ MaxEntries > 0 => Cardinality(items \ ks) + 1 <= MaxEntries
  BY SetIsPuts
<1>3. /\ Ordered(lru', touched') /\ items' = KeysOf(lru')
      /\ Len(lru') = Cardinality(items \ ks) + 1
      /\ El(lru', k) = el
      /\ \A j \in items \ ks : El(lru', j) = El(lru, j)
  BY <1>1, <1>2, PutsKeeps
<1>4. items' = (items \ ks) \cup {k}
  BY <1>2 DEF Puts
<1> HIDE DEF el
<1>5. k \in DOMAIN Mapped' /\ Mapped'[k] \in [value : Values, expiry : Expiries]
  <2>1. el.value \in Values /\ el.expiry \in Expiries
    BY <1>1 DEF Elements
  <2>2. k \in items' /\ Mapped'[k] = Entry(el)
    BY <1>3, <1>4, MappedIs
  <2> QED
    BY <2>1, <2>2, MappedIs, SMT DEF Entry
<1>6. DOMAIN Mapped' \subseteq DOMAIN Mapped \cup {k}
  BY <1>4, MappedIs
<1>7. \A j \in DOMAIN Mapped' \ {k} : Mapped'[j] = Mapped[j]
  BY <1>3, <1>4, MappedIs, SMT
<1>8. MaxEntries > 0 => Cardinality(DOMAIN Mapped') <= MaxEntries
  <2>1. Cardinality(items') = Len(lru')
    BY <1>3, OrderedCard, SMT
  <2> QED
    BY <1>2, <1>3, <2>1, MappedIs, SMT
<1>9. Promise!Fits(Mapped')
  <2>1. Promise!Cardinality(DOMAIN Mapped') = Cardinality(DOMAIN Mapped')
    BY DEF Promise!Cardinality, Cardinality
  <2> QED
    BY <1>8, <2>1, SMT DEF Promise!Fits
<1>10. Promise!Set(k)
  BY <1>1, <1>5, <1>6, <1>7, <1>9 DEF Promise!Set, Promise!NoGet, NoGet, Mapped
<1> QED
  BY <1>1, <1>10 DEF Promise!Next

\* The in-memory cache implements the abstract store: a hit is the value last set
\* for the key, unexpired, and what is forgotten comes back only through Set.
THEOREM CacheRefinesStore == Spec => ImplementsStore
<1>1. Init => Promise!Init
  <2> SUFFICES ASSUME Init PROVE Promise!Init
    OBVIOUS
  <2>1. Mapped = [k \in {} |-> k]
    BY DEF Init, Mapped
  <2> QED
    BY <2>1 DEF Init, Promise!Init, NoGet, Promise!NoGet, Mapped
<1>2. ListOK /\ [Next]_vars => [Promise!Next]_(Promise!vars)
  <2> SUFFICES ASSUME ListOK, [Next]_vars PROVE Promise!Next \/ UNCHANGED Promise!vars
    OBVIOUS
  <2>1. ASSUME NEW k \in Keys, Get(k) PROVE Promise!Next
    BY <2>1, GetIsGet
  <2>2. ASSUME NEW c \in Callers, SetStore(c) PROVE Promise!Next
    BY <2>2, SetIsSet
  <2>3. ASSUME NEW ks, removeElements(ks), got' = NoGet, now' = now PROVE Promise!Next
    <3>1. items' \subseteq items
      BY <2>3 DEF removeElements
    <3>2. \A j \in items' : El(lru', j) = El(lru, j)
      BY <2>3, RemovalKeeps
    <3> QED
      BY <2>3, <3>1, <3>2, DropIsForget
  <2>4. ASSUME UNCHANGED <<items, lru, now>>, got' = NoGet PROVE Promise!Next
    BY <2>4, DropIsForget
  <2>5. CASE Pass
    <3>1. Mapped' = Mapped
      BY <2>5, SameIsSame DEF Pass
    <3> QED
      BY <2>5, <3>1 DEF Pass, Promise!Next, Promise!Pass, Promise!NoGet, NoGet, Mapped
  <2>6. CASE UNCHANGED vars
    <3>1. Mapped' = Mapped
      BY <2>6, SameIsSame DEF vars
    <3> QED
      BY <2>6, <3>1 DEF vars, Promise!vars, Mapped
  <2> QED
    BY <2>1, <2>2, <2>3, <2>4, <2>5, <2>6
       DEF Next, Delete, SetExpiry, SweepStart, SweepStore, CleanupReturns
<1> QED
  BY <1>1, <1>2, ListInvariance, PTL DEF Spec, ImplementsStore, Promise!Spec
=============================================================================
