---------------------------- MODULE RawList_proofs ----------------------------
(***************************************************************************)
(* What the operations on the lists of the kernel do to the members of a   *)
(* list and to their order, for lists of any length.  A list holds each    *)
(* element once; proofs about timers and tasks use these lemmas only and   *)
(* never look at positions.                                                *)
(***************************************************************************)
EXTENDS RawList, SequenceTheorems, WellFoundedInduction, TLAPS

(* A non-empty set of natural numbers has a least element. *)
LEMMA LeastElement ==
  ASSUME NEW T, T \subseteq Nat, T # {}
  PROVE  \E h \in T : \A q \in T : h <= q
  <1>1. PICK h \in T : \A q \in T : <<q, h>> \notin OpToRel(<, Nat)
    BY NatLessThanWellFounded, WFMin
  <1>2. \A q \in T : ~(q < h)
    BY <1>1 DEF OpToRel
  <1> QED BY <1>2

(* Unlinking a member shortens the list by one and moves up what follows.  *)
LEMMA RemoveAtLemma ==
  ASSUME NEW S, NEW s \in Seq(S), NEW i \in 1 .. Len(s)
  PROVE  /\ RemoveAt(s, i) \in Seq(S)
         /\ Len(RemoveAt(s, i)) = Len(s) - 1
         /\ \A j \in 1 .. Len(s) - 1 :
              RemoveAt(s, i)[j] = IF j < i THEN s[j] ELSE s[j + 1]
  <1> DEFINE l == SubSeq(s, 1, i - 1)
             r == SubSeq(s, i + 1, Len(s))
  <1>0. /\ Len(s) \in Nat
        /\ \A j \in 1 .. Len(s) : s[j] \in S
    BY ElementOfSeq, LenProperties
  <1>1. /\ l \in Seq(S) /\ Len(l) = i - 1
        /\ \A j \in 1 .. i - 1 : l[j] = s[j]
    <2>1. \A j \in 1 .. i - 1 : s[j] \in S
      BY <1>0
    <2> QED BY <1>0, <2>1, SubSeqProperties, Z3
  <1>2. /\ r \in Seq(S) /\ Len(r) = Len(s) - i
        /\ \A j \in 1 .. Len(s) - i : r[j] = s[i + j]
    <2>1. \A j \in i + 1 .. Len(s) : s[j] \in S
      BY <1>0
    <2>2. /\ r \in Seq(S)
          /\ Len(r) = IF i + 1 <= Len(s) THEN Len(s) - (i + 1) + 1 ELSE 0
          /\ \A j \in 1 .. Len(s) - (i + 1) + 1 : r[j] = s[i + 1 + j - 1]
      BY <1>0, <2>1, SubSeqProperties, Z3
    <2> QED BY <1>0, <2>2
  <1>3. /\ l \o r \in Seq(S)
        /\ Len(l \o r) = Len(l) + Len(r)
        /\ \A j \in 1 .. Len(l) + Len(r) :
             (l \o r)[j] = IF j <= Len(l) THEN l[j] ELSE r[j - Len(l)]
    BY <1>1, <1>2, ConcatProperties
  <1>4. RemoveAt(s, i) = l \o r
    BY DEF RemoveAt
  <1> HIDE DEF l, r
  <1>5. /\ Len(l) \in Nat /\ Len(l) + Len(r) = Len(s) - 1
        /\ i \in Nat
    BY <1>0, <1>1, <1>2
  <1>6. ASSUME NEW j \in 1 .. Len(s) - 1
        PROVE  (l \o r)[j] = IF j < i THEN s[j] ELSE s[j + 1]
    <2>1. CASE j < i
      BY <1>0, <1>1, <1>3, <1>5, <2>1
    <2>2. CASE ~(j < i)
      <3>1. (l \o r)[j] = r[j - (i - 1)]
        BY <1>0, <1>1, <1>3, <1>5, <2>2
      <3>2. j - (i - 1) \in 1 .. Len(s) - i
        BY <1>0, <1>5, <2>2
      <3>3. r[j - (i - 1)] = s[i + (j - (i - 1))]
        BY <1>2, <3>2
      <3>4. i + (j - (i - 1)) = j + 1
        BY <1>5
      <3> QED BY <2>2, <3>1, <3>3, <3>4
    <2> QED BY <2>1, <2>2
  <1> QED BY <1>3, <1>4, <1>5, <1>6

(* A list is empty exactly when it has no member; its head is a member.    *)
LEMMA EmptyLemma ==
  ASSUME NEW S, NEW s \in Seq(S)
  PROVE  /\ s = <<>> <=> ToSet(s) = {}
         /\ s # <<>> => s[1] \in ToSet(s)
         /\ ToSet(s) \subseteq S
  <1>1. /\ Len(s) \in Nat /\ DOMAIN s = 1 .. Len(s)
        /\ \A i \in 1 .. Len(s) : s[i] \in S
    BY LenProperties, ElementOfSeq
  <1>2. s # <<>> => Len(s) > 0
    BY <1>1, EmptySeq
  <1>3. s = <<>> => ToSet(s) = {}
    BY DEF ToSet
  <1> QED BY <1>1, <1>2, <1>3 DEF ToSet

(* Min chooses the least element. *)
LEMMA MinLemma ==
  ASSUME NEW T, T \subseteq Nat, T # {}
  PROVE  Min(T) \in T /\ \A q \in T : Min(T) <= q
  BY LeastElement DEF Min

(* a is b or in front of it. *)
Precedes(s, a, b) ==
  \E i, j \in DOMAIN s : i <= j /\ s[i] = a /\ s[j] = b

(* list_delete removes e alone, and the others keep their order. *)
LEMMA DeleteLemma ==
  ASSUME NEW S, NEW s \in Seq(S), NEW e, IsInjective(s)
  PROVE  /\ list_delete(s, e) \in Seq(S)
         /\ IsInjective(list_delete(s, e))
         /\ ToSet(list_delete(s, e)) = ToSet(s) \ {e}
         /\ \A a, b \in ToSet(s) \ {e} :
              Precedes(list_delete(s, e), a, b) <=> Precedes(s, a, b)
  <1> DEFINE I == {j \in 1 .. Len(s) : s[j] = e}
             i == Min(I)
             d == list_delete(s, e)
  <1>1. Len(s) \in Nat /\ DOMAIN s = 1 .. Len(s)
    BY LenProperties
  <1>2. CASE I = {}
    <2>1. d = s
      BY <1>2 DEF list_delete, RemoveFirst
    <2>2. e \notin ToSet(s)
      BY <1>1, <1>2 DEF ToSet
    <2>3. list_delete(s, e) = s
      BY <2>1
    <2> QED BY <2>2, <2>3
  <1>3. CASE I # {}
    <2>1. i \in 1 .. Len(s) /\ s[i] = e
      <3>1. I \subseteq Nat
        BY <1>1
      <3>2. i \in I
        BY <1>3, <3>1, MinLemma
      <3> QED BY <3>2
    <2>2. d = RemoveAt(s, i)
      BY <1>3 DEF list_delete, RemoveFirst, SelectInSeq
    <2> HIDE DEF I, i, d
    <2>3. /\ d \in Seq(S)
          /\ Len(d) = Len(s) - 1
          /\ \A j \in 1 .. Len(s) - 1 : d[j] = IF j < i THEN s[j] ELSE s[j + 1]
      BY <2>1, <2>2, RemoveAtLemma
    <2>4. DOMAIN d = 1 .. Len(s) - 1
      BY <2>3, LenProperties
    <2>5. \A j, k \in 1 .. Len(s) : s[j] = s[k] => j = k
      BY <1>1 DEF IsInjective
    <2>6. i \in Nat /\ i >= 1 /\ i <= Len(s)
      BY <1>1, <2>1
    <2> DEFINE up(j) == IF j < i THEN j ELSE j + 1
               down(j) == IF j < i THEN j ELSE j - 1
    <2>7. \A j \in DOMAIN d :
            up(j) \in DOMAIN s /\ up(j) # i /\ d[j] = s[up(j)] /\ down(up(j)) = j
      BY <1>1, <2>3, <2>4, <2>6
    <2>8. \A j \in DOMAIN s : j # i => down(j) \in DOMAIN d /\ d[down(j)] = s[j]
      <3> SUFFICES ASSUME NEW j \in 1 .. Len(s), j # i
                   PROVE  down(j) \in 1 .. Len(s) - 1 /\ d[down(j)] = s[j]
        BY <1>1, <2>4
      <3>1. CASE j < i
        BY <1>1, <2>3, <2>6, <3>1
      <3>2. CASE ~(j < i)
        <4>1. j - 1 \in 1 .. Len(s) - 1 /\ ~(j - 1 < i) /\ j - 1 + 1 = j
          BY <1>1, <2>6, <3>2
        <4> QED BY <2>3, <3>2, <4>1
      <3> QED BY <3>1, <3>2
    <2>9. \A j, k \in DOMAIN d : j <= k <=> up(j) <= up(k)
      BY <1>1, <2>4, <2>6
    <2>10. \A j, k \in DOMAIN s : j # i /\ k # i => (j <= k <=> down(j) <= down(k))
      BY <1>1, <2>6
    <2> HIDE DEF up, down
    <2>11. IsInjective(d)
      BY <1>1, <2>5, <2>7 DEF IsInjective
    <2>12. ToSet(d) = ToSet(s) \ {e}
      BY <1>1, <2>1, <2>5, <2>7, <2>8 DEF ToSet
    <2>13. ASSUME NEW a \in ToSet(s) \ {e}, NEW b \in ToSet(s) \ {e}
           PROVE  Precedes(d, a, b) <=> Precedes(s, a, b)
      <3>1. Precedes(d, a, b) => Precedes(s, a, b)
        BY <2>7, <2>9 DEF Precedes
      <3>2. Precedes(s, a, b) => Precedes(d, a, b)
        BY <2>1, <2>8, <2>10 DEF Precedes
      <3> QED BY <3>1, <3>2
    <2> QED BY <2>3, <2>11, <2>12, <2>13 DEF d
  <1> QED BY <1>2, <1>3

(* Linking a task that is not in the list, at either end. *)
LEMMA AppendLemma ==
  ASSUME NEW S, NEW s \in Seq(S), NEW t \in S, t \notin ToSet(s),
         IsInjective(s)
  PROVE  /\ Append(s, t) \in Seq(S)
         /\ Append(s, t) # <<>>
         /\ IsInjective(Append(s, t))
         /\ ToSet(Append(s, t)) = ToSet(s) \cup {t}
  <1> DEFINE a == Append(s, t)
  <1>1. Len(s) \in Nat /\ DOMAIN s = 1 .. Len(s)
    BY LenProperties
  <1>2. /\ a \in Seq(S)
        /\ Len(a) = Len(s) + 1
        /\ \A i \in 1 .. Len(s) : a[i] = s[i]
        /\ a[Len(s) + 1] = t
    BY AppendProperties
  <1>3. DOMAIN a = 1 .. Len(s) + 1
    BY <1>2, LenProperties
  <1>4. a # <<>>
    BY <1>1, <1>2, EmptySeq
  <1> HIDE DEF a
  <1>5. \A i \in 1 .. Len(s) : s[i] # t
    BY <1>1 DEF ToSet
  <1>6. IsInjective(a)
    BY <1>1, <1>2, <1>3, <1>5 DEF IsInjective
  <1>7. ToSet(a) = ToSet(s) \cup {t}
    BY <1>1, <1>2, <1>3 DEF ToSet
  <1> QED BY <1>2, <1>4, <1>6, <1>7 DEF a

(* What a sequence with an element put in front of it contains. *)
LEMMA ConsLemma ==
  ASSUME NEW S, NEW s \in Seq(S), NEW t \in S, t \notin ToSet(s),
         IsInjective(s)
  PROVE  /\ <<t>> \o s \in Seq(S)
         /\ <<t>> \o s # <<>>
         /\ IsInjective(<<t>> \o s)
         /\ ToSet(<<t>> \o s) = ToSet(s) \cup {t}
  <1> DEFINE c == <<t>> \o s
  <1>1. Len(s) \in Nat /\ DOMAIN s = 1 .. Len(s)
    BY LenProperties
  <1>2. <<t>> \in Seq(S) /\ Len(<<t>>) = 1 /\ <<t>>[1] = t
    OBVIOUS
  <1>3. /\ c \in Seq(S)
        /\ Len(c) = 1 + Len(s)
        /\ \A i \in 1 .. 1 + Len(s) :
             c[i] = IF i <= 1 THEN <<t>>[i] ELSE s[i - 1]
    BY <1>2, ConcatProperties
  <1>4. DOMAIN c = 1 .. Len(s) + 1
    BY <1>1, <1>3, LenProperties
  <1>5. c # <<>>
    BY <1>1, <1>3, EmptySeq
  <1>6. c[1] = t /\ \A i \in 1 .. Len(s) : c[i + 1] = s[i]
    BY <1>1, <1>2, <1>3
  <1> HIDE DEF c
  <1>7. \A i \in 1 .. Len(s) : s[i] # t
    BY <1>1 DEF ToSet
  <1>8. \A i \in 1 .. Len(s) + 1 :
          i = 1 \/ (i - 1 \in 1 .. Len(s) /\ c[i] = s[i - 1])
    BY <1>1, <1>3
  <1>9. IsInjective(c)
    <2> SUFFICES ASSUME NEW j \in 1 .. Len(s) + 1, NEW k \in 1 .. Len(s) + 1,
                        c[j] = c[k]
                 PROVE  j = k
      BY <1>4 DEF IsInjective
    <2>1. CASE j = 1 /\ k = 1
      BY <2>1
    <2>2. CASE j = 1 /\ k # 1
      BY <1>6, <1>7, <1>8, <2>2
    <2>3. CASE j # 1 /\ k = 1
      BY <1>6, <1>7, <1>8, <2>3
    <2>4. CASE j # 1 /\ k # 1
      <3>1. s[j - 1] = s[k - 1]
        BY <1>8, <2>4
      <3>2. j - 1 \in DOMAIN s /\ k - 1 \in DOMAIN s
        BY <1>1, <1>8, <2>4
      <3>3. j - 1 = k - 1
        BY <3>1, <3>2 DEF IsInjective
      <3> QED BY <1>1, <3>3
    <2> QED BY <2>1, <2>2, <2>3, <2>4
  <1>10. ToSet(c) = ToSet(s) \cup {t}
    <2>1. ToSet(c) \subseteq ToSet(s) \cup {t}
      <3> SUFFICES ASSUME NEW i \in 1 .. Len(s) + 1
                   PROVE  c[i] \in ToSet(s) \cup {t}
        BY <1>4 DEF ToSet
      <3> QED BY <1>1, <1>6, <1>8 DEF ToSet
    <2>2. ToSet(s) \subseteq ToSet(c)
      BY <1>1, <1>4, <1>6 DEF ToSet
    <2>3. t \in ToSet(c)
      BY <1>1, <1>4, <1>6 DEF ToSet
    <2> QED BY <2>1, <2>2, <2>3
  <1> QED BY <1>3, <1>5, <1>9, <1>10 DEF c

-----------------------------------------------------------------------------
(***************************************************************************)
(* Order.                                                                  *)
(***************************************************************************)

(* Precedes is a total order on the members of a list. *)
LEMMA PrecedesOrder ==
  ASSUME NEW S, NEW s \in Seq(S), IsInjective(s)
  PROVE  /\ \A a, b : Precedes(s, a, b) => a \in ToSet(s) /\ b \in ToSet(s)
         /\ \A a \in ToSet(s) : Precedes(s, a, a)
         /\ \A a, b \in ToSet(s) : Precedes(s, a, b) \/ Precedes(s, b, a)
         /\ \A a, b : Precedes(s, a, b) /\ Precedes(s, b, a) => a = b
         /\ \A a, b, c : Precedes(s, a, b) /\ Precedes(s, b, c) => Precedes(s, a, c)
  <1>1. Len(s) \in Nat /\ DOMAIN s = 1 .. Len(s)
    BY LenProperties
  <1>2. \A i, j \in 1 .. Len(s) : s[i] = s[j] => i = j
    BY <1>1 DEF IsInjective
  <1>3. \A a, b : Precedes(s, a, b) => a \in ToSet(s) /\ b \in ToSet(s)
    BY DEF Precedes, ToSet
  <1>4. \A a \in ToSet(s) : Precedes(s, a, a)
    BY <1>1 DEF Precedes, ToSet
  <1>5. \A a, b \in ToSet(s) : Precedes(s, a, b) \/ Precedes(s, b, a)
    BY <1>1 DEF Precedes, ToSet
  <1>6. ASSUME NEW a, NEW b, Precedes(s, a, b), Precedes(s, b, a)
        PROVE  a = b
    <2>1. PICK i, j \in 1 .. Len(s) : i <= j /\ s[i] = a /\ s[j] = b
      BY <1>1, <1>6 DEF Precedes
    <2>2. PICK m, n \in 1 .. Len(s) : m <= n /\ s[m] = b /\ s[n] = a
      BY <1>1, <1>6 DEF Precedes
    <2>3. m = j /\ n = i
      BY <1>2, <2>1, <2>2
    <2> QED BY <1>1, <2>1, <2>2, <2>3
  <1>7. ASSUME NEW a, NEW b, NEW c, Precedes(s, a, b), Precedes(s, b, c)
        PROVE  Precedes(s, a, c)
    <2>1. PICK i, j \in 1 .. Len(s) : i <= j /\ s[i] = a /\ s[j] = b
      BY <1>1, <1>7 DEF Precedes
    <2>2. PICK m, n \in 1 .. Len(s) : m <= n /\ s[m] = b /\ s[n] = c
      BY <1>1, <1>7 DEF Precedes
    <2>3. m = j
      BY <1>2, <2>1, <2>2
    <2>4. i <= n
      BY <1>1, <2>1, <2>2, <2>3
    <2> QED BY <1>1, <2>1, <2>2, <2>4 DEF Precedes
  <1> QED BY <1>3, <1>4, <1>5, <1>6, <1>7

(* The head precedes every member. *)
LEMMA HeadPrecedes ==
  ASSUME NEW S, NEW s \in Seq(S), s # <<>>
  PROVE  s[1] \in ToSet(s) /\ \A a \in ToSet(s) : Precedes(s, s[1], a)
  <1>1. Len(s) \in Nat /\ DOMAIN s = 1 .. Len(s) /\ Len(s) # 0
    BY LenProperties, EmptySeq
  <1> QED BY <1>1 DEF Precedes, ToSet

(* The elements of s are in ascending order of their keys. *)
OrderedBy(s, key) == \A a, b \in ToSet(s) : Precedes(s, a, b) => key[a] <= key[b]

(* Where a sorted insertion puts e. *)
LEMMA SortedInsertAt ==
  ASSUME NEW S, NEW s \in Seq(S), NEW e \in S, NEW key \in [S -> Int]
  PROVE  \E p \in 1 .. Len(s) + 1 :
           /\ SortedInsert(s, e, key) \in Seq(S)
           /\ Len(SortedInsert(s, e, key)) = Len(s) + 1
           /\ \A j \in 1 .. Len(s) + 1 : SortedInsert(s, e, key)[j] =
                IF j < p THEN s[j] ELSE IF j = p THEN e ELSE s[j - 1]
           /\ \A j \in 1 .. Len(s) : j < p => key[s[j]] <= key[e]
           /\ p <= Len(s) => key[s[p]] > key[e]
  <1> DEFINE I == {j \in 1 .. Len(s) : key[s[j]] > key[e]}
             i == Min(I)
             r == SortedInsert(s, e, key)
  <1>1. Len(s) \in Nat /\ DOMAIN s = 1 .. Len(s) /\ \A j \in 1 .. Len(s) : s[j] \in S
    BY LenProperties, ElementOfSeq
  <1>2. \A j \in 1 .. Len(s) : key[s[j]] \in Int
    BY <1>1
  <1>3. key[e] \in Int
    OBVIOUS
  <1>4. CASE I = {}
    <2>1. SelectInSeq(s, LAMBDA u : key[u] > key[e]) = 0
      BY <1>4 DEF SelectInSeq
    <2>2. r = Append(s, e)
      BY <2>1 DEF SortedInsert
    <2>3. \A j \in 1 .. Len(s) : key[s[j]] <= key[e]
      BY <1>2, <1>3, <1>4
    <2>4. /\ r \in Seq(S) /\ Len(r) = Len(s) + 1
          /\ \A j \in 1 .. Len(s) : r[j] = s[j]
          /\ r[Len(s) + 1] = e
      BY <2>2, AppendProperties
    <2> HIDE DEF I, i, r
    <2>5. WITNESS Len(s) + 1 \in 1 .. Len(s) + 1
    <2> QED BY <1>1, <2>3, <2>4 DEF r
  <1>5. CASE I # {}
    <2>1. i \in I /\ \A j \in I : i <= j
      <3>1. I \subseteq Nat
        BY <1>1
      <3> HIDE DEF I
      <3> QED BY <1>5, <3>1, MinLemma
    <2>2. i \in 1 .. Len(s) /\ key[s[i]] > key[e]
      BY <2>1
    <2>3. \A j \in 1 .. Len(s) : j < i => key[s[j]] <= key[e]
      BY <1>1, <1>2, <1>3, <2>1
    <2>4. SelectInSeq(s, LAMBDA u : key[u] > key[e]) = i
      BY <1>5 DEF SelectInSeq
    <2>5. r = InsertAt(s, i, e)
      <3> HIDE DEF I, i
      <3> QED BY <1>1, <2>2, <2>4 DEF SortedInsert
    <2> HIDE DEF I, i, r
    <2> DEFINE f == SubSeq(s, 1, i - 1)
               g == SubSeq(s, i, Len(s))
    <2>6. /\ f \in Seq(S) /\ Len(f) = i - 1
          /\ \A j \in 1 .. i - 1 : f[j] = s[j]
      <3>1. \A j \in 1 .. i - 1 : s[j] \in S
        BY <1>1, <2>2
      <3> QED BY <1>1, <2>2, <3>1, SubSeqProperties, Z3
    <2>7. /\ g \in Seq(S) /\ Len(g) = Len(s) - i + 1
          /\ \A j \in 1 .. Len(s) - i + 1 : g[j] = s[i + j - 1]
      <3>1. \A j \in i .. Len(s) : s[j] \in S
        BY <1>1, <2>2
      <3> QED BY <1>1, <2>2, <3>1, SubSeqProperties, Z3
    <2>8. <<e>> \in Seq(S) /\ Len(<<e>>) = 1 /\ <<e>>[1] = e
      OBVIOUS
    <2> DEFINE h == f \o <<e>>
    <2> HIDE DEF f, g
    <2>9. /\ h \in Seq(S) /\ Len(h) = i
          /\ \A j \in 1 .. i : h[j] = IF j < i THEN s[j] ELSE e
      <3>1. /\ h \in Seq(S) /\ Len(h) = Len(f) + Len(<<e>>)
            /\ \A j \in 1 .. Len(f) + Len(<<e>>) :
                 h[j] = IF j <= Len(f) THEN f[j] ELSE <<e>>[j - Len(f)]
        BY <2>6, <2>8, ConcatProperties
      <3> QED BY <1>1, <2>2, <2>6, <2>8, <3>1
    <2> HIDE DEF h
    <2>10. /\ h \o g \in Seq(S) /\ Len(h \o g) = Len(s) + 1
           /\ \A j \in 1 .. Len(s) + 1 :
                (h \o g)[j] = IF j <= i THEN h[j] ELSE g[j - i]
      <3>1. /\ h \o g \in Seq(S) /\ Len(h \o g) = Len(h) + Len(g)
            /\ \A j \in 1 .. Len(h) + Len(g) :
                 (h \o g)[j] = IF j <= Len(h) THEN h[j] ELSE g[j - Len(h)]
        BY <2>7, <2>9, ConcatProperties
      <3>2. Len(h) = i /\ Len(h) + Len(g) = Len(s) + 1
        BY <1>1, <2>2, <2>7, <2>9
      <3> QED BY <3>1, <3>2
    <2>11. r = h \o g
      BY <2>5 DEF InsertAt, f, g, h
    <2>12. \A j \in 1 .. Len(s) + 1 : r[j] =
             IF j < i THEN s[j] ELSE IF j = i THEN e ELSE s[j - 1]
      <3> SUFFICES ASSUME NEW j \in 1 .. Len(s) + 1
                   PROVE  r[j] = IF j < i THEN s[j] ELSE IF j = i THEN e ELSE s[j - 1]
        OBVIOUS
      <3>1. CASE j <= i
        BY <1>1, <2>2, <2>9, <2>10, <2>11, <3>1
      <3>2. CASE ~(j <= i)
        <4>1. j - i \in 1 .. Len(s) - i + 1 /\ i + (j - i) - 1 = j - 1
          BY <1>1, <2>2, <3>2
        <4>2. r[j] = g[j - i]
          BY <2>10, <2>11, <3>2
        <4>3. g[j - i] = s[i + (j - i) - 1]
          BY <2>7, <4>1
        <4>4. ~(j < i) /\ j # i
          BY <1>1, <2>2, <3>2
        <4> QED BY <4>1, <4>2, <4>3, <4>4
      <3> QED BY <3>1, <3>2
    <2>13. i \in 1 .. Len(s) + 1
      BY <1>1, <2>2
    <2>14. WITNESS i \in 1 .. Len(s) + 1
    <2> QED BY <2>2, <2>3, <2>10, <2>11, <2>12 DEF r
  <1> QED BY <1>4, <1>5

(* A sorted insertion adds e alone, the others keep their order, and e is  *)
(* behind those with the same key or a smaller one.                        *)
LEMMA SortedInsertLemma ==
  ASSUME NEW S, NEW s \in Seq(S), NEW e \in S, NEW key \in [S -> Int],
         IsInjective(s), e \notin ToSet(s)
  PROVE  /\ SortedInsert(s, e, key) \in Seq(S)
         /\ SortedInsert(s, e, key) # <<>>
         /\ IsInjective(SortedInsert(s, e, key))
         /\ ToSet(SortedInsert(s, e, key)) = ToSet(s) \cup {e}
         /\ \A a, b \in ToSet(s) :
              Precedes(SortedInsert(s, e, key), a, b) <=> Precedes(s, a, b)
         /\ OrderedBy(s, key) => OrderedBy(SortedInsert(s, e, key), key)
  <1> DEFINE r == SortedInsert(s, e, key)
  <1>1. /\ Len(s) \in Nat /\ DOMAIN s = 1 .. Len(s)
        /\ \A j \in 1 .. Len(s) : s[j] \in S /\ key[s[j]] \in Int
    BY LenProperties, ElementOfSeq
  <1>2. PICK p \in 1 .. Len(s) + 1 :
          /\ r \in Seq(S) /\ Len(r) = Len(s) + 1
          /\ \A j \in 1 .. Len(s) + 1 :
               r[j] = IF j < p THEN s[j] ELSE IF j = p THEN e ELSE s[j - 1]
          /\ \A j \in 1 .. Len(s) : j < p => key[s[j]] <= key[e]
          /\ p <= Len(s) => key[s[p]] > key[e]
    BY SortedInsertAt
  <1> HIDE DEF r
  <1>3. DOMAIN r = 1 .. Len(s) + 1 /\ p \in Nat /\ p >= 1 /\ p <= Len(s) + 1
    BY <1>1, <1>2, LenProperties
  <1>4. \A j, m \in 1 .. Len(s) : s[j] = s[m] => j = m
    BY <1>1 DEF IsInjective
  <1>5. \A j \in 1 .. Len(s) : s[j] # e
    BY <1>1 DEF ToSet
  <1> DEFINE down(j) == IF j < p THEN j ELSE j - 1
             up(j) == IF j < p THEN j ELSE j + 1
  <1>6. r[p] = e /\ p \in DOMAIN r
    BY <1>1, <1>2, <1>3
  <1>7. \A j \in DOMAIN r : j # p =>
          down(j) \in DOMAIN s /\ r[j] = s[down(j)] /\ up(down(j)) = j
    <2>1. \A j \in DOMAIN r : j # p => down(j) \in DOMAIN s /\ up(down(j)) = j
      BY <1>1, <1>3
    <2>2. \A j \in DOMAIN r : j # p => r[j] = s[down(j)]
      BY <1>2, <1>3
    <2> HIDE DEF down, up
    <2> QED BY <2>1, <2>2
  <1>8. \A j \in DOMAIN s :
          up(j) \in DOMAIN r /\ up(j) # p /\ down(up(j)) = j
    BY <1>1, <1>3
  <1>9. \A j \in DOMAIN s : r[up(j)] = s[j]
    BY <1>7, <1>8
  <1>10. \A j, m \in DOMAIN s : j <= m <=> up(j) <= up(m)
    BY <1>1, <1>3
  <1>11. \A j, m \in DOMAIN r : j # p /\ m # p => (j <= m <=> down(j) <= down(m))
    BY <1>1, <1>3
  <1>12. /\ \A j \in DOMAIN r : j # p /\ j <= p => down(j) < p
         /\ \A j \in DOMAIN r : j # p /\ p <= j => p <= down(j)
    BY <1>1, <1>3
  <1> HIDE DEF down, up
  <1>13. r # <<>>
    BY <1>6
  <1>14. IsInjective(r)
    <2> SUFFICES ASSUME NEW j \in DOMAIN r, NEW m \in DOMAIN r, r[j] = r[m]
                 PROVE  j = m
      BY DEF IsInjective
    <2>1. CASE j = p \/ m = p
      BY <1>1, <1>5, <1>6, <1>7, <2>1
    <2>2. CASE j # p /\ m # p
      <3>1. down(j) = down(m)
        BY <1>1, <1>4, <1>7, <2>2
      <3> QED BY <1>7, <2>2, <3>1
    <2> QED BY <2>1, <2>2
  <1>15. ToSet(r) = ToSet(s) \cup {e}
    <2>1. ToSet(r) \subseteq ToSet(s) \cup {e}
      BY <1>6, <1>7 DEF ToSet
    <2>2. ToSet(s) \cup {e} \subseteq ToSet(r)
      BY <1>6, <1>8, <1>9 DEF ToSet
    <2> QED BY <2>1, <2>2
  <1>16. ASSUME NEW a \in ToSet(s), NEW b \in ToSet(s)
         PROVE  Precedes(r, a, b) <=> Precedes(s, a, b)
    <2>1. ASSUME Precedes(r, a, b) PROVE Precedes(s, a, b)
      <3>1. PICK j, m \in DOMAIN r : j <= m /\ r[j] = a /\ r[m] = b
        BY <2>1 DEF Precedes
      <3>2. j # p /\ m # p
        BY <1>1, <1>5, <1>6, <3>1 DEF ToSet
      <3> QED BY <1>7, <1>11, <3>1, <3>2 DEF Precedes
    <2>2. ASSUME Precedes(s, a, b) PROVE Precedes(r, a, b)
      <3>1. PICK j, m \in DOMAIN s : j <= m /\ s[j] = a /\ s[m] = b
        BY <2>2 DEF Precedes
      <3> QED BY <1>8, <1>9, <1>10, <3>1 DEF Precedes
    <2> QED BY <2>1, <2>2
  <1>17. ASSUME OrderedBy(s, key) PROVE OrderedBy(r, key)
    <2>0. key[e] \in Int
      OBVIOUS
    <2>1. \A j, m \in DOMAIN s : j <= m => key[s[j]] <= key[s[m]]
      BY <1>17 DEF OrderedBy, Precedes, ToSet
    <2>2. \A j \in DOMAIN s : j < p => key[s[j]] <= key[e]
      BY <1>1, <1>2
    <2>3. ASSUME NEW j \in DOMAIN s, p <= j PROVE key[e] <= key[s[j]]
      <3>1. p \in DOMAIN s /\ key[s[p]] > key[e]
        BY <1>1, <1>2, <1>3, <2>3
      <3>2. key[s[p]] <= key[s[j]]
        BY <2>1, <2>3, <3>1
      <3> QED BY <1>1, <2>0, <3>1, <3>2
    <2> SUFFICES ASSUME NEW j \in DOMAIN r, NEW m \in DOMAIN r, j <= m
                 PROVE  key[r[j]] <= key[r[m]]
      BY DEF OrderedBy, Precedes, ToSet
    <2>4. CASE j = p /\ m = p
      BY <1>6, <2>0, <2>4
    <2>5. CASE j # p /\ m = p
      BY <1>6, <1>7, <1>12, <2>2, <2>5
    <2>6. CASE j = p /\ m # p
      BY <1>6, <1>7, <1>12, <2>3, <2>6
    <2>7. CASE j # p /\ m # p
      BY <1>7, <1>11, <2>1, <2>7
    <2> QED BY <2>4, <2>5, <2>6, <2>7
  <1> QED BY <1>2, <1>13, <1>14, <1>15, <1>16, <1>17 DEF r

(* What is ordered stays so when an element leaves. *)
LEMMA DeleteOrdered ==
  ASSUME NEW S, NEW s \in Seq(S), NEW e, NEW key, IsInjective(s), OrderedBy(s, key)
  PROVE  OrderedBy(list_delete(s, e), key)
  <1>1. /\ list_delete(s, e) \in Seq(S) /\ IsInjective(list_delete(s, e))
        /\ ToSet(list_delete(s, e)) = ToSet(s) \ {e}
        /\ \A a, b \in ToSet(s) \ {e} :
             Precedes(list_delete(s, e), a, b) <=> Precedes(s, a, b)
    BY DeleteLemma
  <1> QED BY <1>1 DEF OrderedBy

-----------------------------------------------------------------------------
(***************************************************************************)
(* Loops over a list.                                                      *)
(***************************************************************************)

(* What holds before the first round and is kept by each holds after all.  *)
LEMMA Rounds ==
  ASSUME NEW N \in Nat, NEW T, 0 \in T, \A i \in 1 .. N : i - 1 \in T => i \in T
  PROVE  \A i \in 0 .. N : i \in T
  <1> DEFINE U == {n \in 0 .. N : n \notin T}
  <1>1. ASSUME U # {} PROVE FALSE
    <2>1. U \subseteq Nat
      OBVIOUS
    <2>2. PICK h \in U : \A q \in U : h <= q
      <3> HIDE DEF U
      <3> QED BY <1>1, <2>1, LeastElement
    <2>3. h \in 1 .. N /\ h \notin T
      BY <2>2
    <2>4. h - 1 \in T
      <3>1. h - 1 \in 0 .. N /\ ~(h <= h - 1)
        BY <2>3
      <3> QED BY <2>2, <3>1
    <2> QED BY <2>3, <2>4
  <1> QED BY <1>1

(* The values of a variable during N rounds, each of which maps it by F.   *)
LEMMA Iteration ==
  ASSUME NEW S, NEW b \in S, NEW N \in Nat, NEW F \in [1 .. N -> [S -> S]]
  PROVE  \E g \in [0 .. N -> S] :
           g[0] = b /\ \A i \in 1 .. N : g[i] = F[i][g[i - 1]]
  <1> DEFINE P(n) == \E g \in [0 .. n -> S] :
                       g[0] = b /\ \A i \in 1 .. n : g[i] = F[i][g[i - 1]]
             T == {n \in 0 .. N : P(n)}
  <1>1. 0 \in T
    <2> DEFINE g0 == [i \in 0 .. 0 |-> b]
    <2>1. g0 \in [0 .. 0 -> S] /\ g0[0] = b /\ \A i \in 1 .. 0 : g0[i] = F[i][g0[i - 1]]
      OBVIOUS
    <2>2. P(0)
      BY <2>1
    <2> HIDE DEF P
    <2> QED BY <2>2
  <1>2. ASSUME NEW h \in 1 .. N, h - 1 \in T PROVE h \in T
    <2>1. PICK g \in [0 .. h - 1 -> S] :
            g[0] = b /\ \A i \in 1 .. h - 1 : g[i] = F[i][g[i - 1]]
      BY <1>2
    <2> DEFINE g1 == [i \in 0 .. h |-> IF i < h THEN g[i] ELSE F[h][g[h - 1]]]
    <2>2. F[h][g[h - 1]] \in S
      <3>1. g[h - 1] \in S
        BY <2>1
      <3> QED BY <3>1
    <2>3. g1 \in [0 .. h -> S]
      <3>1. \A i \in 0 .. h : i < h => g[i] \in S
        BY <2>1
      <3> QED BY <2>2, <3>1
    <2>4. g1[0] = b
      BY <2>1
    <2>5. ASSUME NEW i \in 1 .. h PROVE g1[i] = F[i][g1[i - 1]]
      <3>1. g1[i - 1] = g[i - 1]
        OBVIOUS
      <3>2. CASE i = h
        <4>1. g1[i] = F[h][g[h - 1]]
          BY <3>2
        <4> HIDE DEF g1
        <4> QED BY <3>1, <3>2, <4>1
      <3>3. CASE i # h
        <4>1. i \in 1 .. h - 1 /\ g1[i] = g[i]
          BY <3>3
        <4> HIDE DEF g1
        <4> QED BY <2>1, <3>1, <4>1
      <3> QED BY <3>2, <3>3
    <2> HIDE DEF g1
    <2> QED BY <2>3, <2>4, <2>5, SMTT(40)
  <1>3. N \in T
    <2> HIDE DEF T
    <2>1. \A i \in 1 .. N : i - 1 \in T => i \in T
      BY <1>2
    <2>2. \A i \in 0 .. N : i \in T
      BY <1>1, <2>1, Rounds
    <2> QED BY <2>2
  <1> QED BY <1>3

Iterates(g, S, N, F, b) ==
  g \in [0 .. N -> S] /\ g[0] = b /\ \A i \in 1 .. N : g[i] = F[i][g[i - 1]]

LEMMA Iterations ==
  ASSUME NEW S, NEW b \in S, NEW N, N \in Nat, NEW F, F \in [1 .. N -> [S -> S]]
  PROVE  \E g : Iterates(g, S, N, F, b)
  BY Iteration, SMTT(30) DEF Iterates

(* Each round of a loop takes the values of G[i - 1] to values of G[i].    *)
Staged(S, N, G, F) ==
  /\ G \in [0 .. N -> SUBSET S]
  /\ \A i \in 1 .. N : \A x \in G[i - 1] : F[i][x] \in G[i]

LEMMA Stages ==
  ASSUME NEW S, NEW N, N \in Nat, NEW G, NEW F, Staged(S, N, G, F), NEW b \in G[0]
  PROVE  \E g : Iterates(g, S, N, F, b) /\ \A i \in 0 .. N : g[i] \in G[i]
  <1> DEFINE H == [i \in 1 .. N |-> [x \in S |-> IF x \in G[i - 1] THEN F[i][x] ELSE b]]
  <1>1. \A i \in 1 .. N : i - 1 \in 0 .. N /\ i \in 0 .. N
    OBVIOUS
  <1>2. b \in S
    BY DEF Staged
  <1>3. H \in [1 .. N -> [S -> S]]
    <2> SUFFICES ASSUME NEW i \in 1 .. N, NEW x \in S
                 PROVE  (IF x \in G[i - 1] THEN F[i][x] ELSE b) \in S
      OBVIOUS
    <2>1. G[i] \subseteq S
      BY <1>1 DEF Staged
    <2> QED BY <1>2, <2>1 DEF Staged
  <1>4. PICK g : Iterates(g, S, N, H, b)
    <2> HIDE DEF H
    <2> QED BY <1>2, <1>3, Iterations
  <1>5. g \in [0 .. N -> S] /\ g[0] = b /\ \A i \in 1 .. N : g[i] = H[i][g[i - 1]]
    BY <1>4 DEF Iterates
  <1>6. \A i \in 1 .. N : g[i] = IF g[i - 1] \in G[i - 1] THEN F[i][g[i - 1]] ELSE b
    BY <1>1, <1>5
  <1> HIDE DEF H
  <1> DEFINE T == {i \in 0 .. N : g[i] \in G[i]}
  <1>7. 0 \in T
    BY <1>5
  <1>8. \A i \in 1 .. N : i - 1 \in T => i \in T
    BY <1>1, <1>6 DEF Staged
  <1>9. \A i \in 0 .. N : i \in T
    <2> HIDE DEF T
    <2> QED BY <1>7, <1>8, Rounds
  <1>10. \A i \in 1 .. N : g[i] = F[i][g[i - 1]]
    BY <1>1, <1>6, <1>9
  <1> QED BY <1>5, <1>9, <1>10 DEF Iterates

-----------------------------------------------------------------------------
(***************************************************************************)
(* Counts that wrap at N.                                                  *)
(***************************************************************************)

(* A count and a time that is less than one round. *)
LEMMA ModSum ==
  ASSUME NEW N \in Nat \ {0}, NEW a \in 0 .. N - 1, NEW b \in 0 .. N - 1
  PROVE  (a + b) % N = IF a + b < N THEN a + b ELSE a + b - N
  OBVIOUS

(* The time from count b to count a. *)
LEMMA ModDifference ==
  ASSUME NEW N \in Nat \ {0}, NEW a \in 0 .. N - 1, NEW b \in 0 .. N - 1
  PROVE  (a - b) % N = IF b <= a THEN a - b ELSE a - b + N
  OBVIOUS
=============================================================================
