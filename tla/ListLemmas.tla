----------------------------- MODULE ListLemmas -----------------------------
(***************************************************************************)
(* Facts about the intrusive lists of the kernel (util.h), which the       *)
(* specifications keep as sequences without repetition: what a push, a     *)
(* pop, an insertion and a removal do to the members and to their order;   *)
(* how to find a least natural number, and to do induction over them; and  *)
(* what the operations do to the rings of pointers that the lists are.     *)
(***************************************************************************)
EXTENDS RingLists, Integers, Sequences, SequencesExt, SequenceTheorems,
        WellFoundedInduction, TLAPS

\* The members of a list, and the list without any.
LEMMA SeqTyped ==
  ASSUME NEW S, NEW s \in Seq(S)
  PROVE  /\ ToSet(s) \subseteq S
         /\ s = << >> <=> ToSet(s) = {}
         /\ IsInjective(<< >>)
<1>1. /\ DOMAIN s = 1..Len(s) /\ Len(s) \in Nat
      /\ \A i \in 1..Len(s) : s[i] \in S
      /\ s = << >> <=> Len(s) = 0
  BY LenProperties, ElementOfSeq, EmptySeq
<1>2. ToSet(s) \subseteq S
  BY <1>1 DEF ToSet
<1>3. s = << >> <=> ToSet(s) = {}
  <2>1. CASE Len(s) = 0
    BY <2>1, <1>1 DEF ToSet
  <2>2. CASE Len(s) # 0
    <3>1. 1 \in DOMAIN s
      BY <2>2, <1>1
    <3>2. s[1] \in ToSet(s)
      BY <3>1 DEF ToSet
    <3> QED
      BY <2>2, <3>2, <1>1
  <2> QED
    BY <2>1, <2>2
<1>4. IsInjective(<< >>)
  BY EmptySeq DEF IsInjective
<1> QED
  BY <1>2, <1>3, <1>4

(***************************************************************************)
(* rlist_push_back() of a node that is in no list: it becomes a member,    *)
(* and the last one.                                                       *)
(***************************************************************************)
LEMMA PushBack ==
  ASSUME NEW S, NEW s \in Seq(S), NEW e \in S
  PROVE  /\ Append(s, e) \in Seq(S)
         /\ ToSet(Append(s, e)) = ToSet(s) \cup {e}
         /\ IsInjective(s) /\ e \notin ToSet(s) => IsInjective(Append(s, e))
<1> DEFINE a == Append(s, e)
<1>1. /\ a \in Seq(S)
      /\ Len(a) = Len(s) + 1
      /\ \A i \in 1..Len(s) : a[i] = s[i]
      /\ a[Len(s) + 1] = e
      /\ DOMAIN s = 1..Len(s)
      /\ DOMAIN a = 1..Len(a)
      /\ Len(s) \in Nat
  BY AppendProperties, LenProperties
<1> HIDE DEF a
<1>2. ToSet(a) = ToSet(s) \cup {e}
  BY <1>1 DEF ToSet
<1>3. ASSUME IsInjective(s), e \notin ToSet(s)
      PROVE  IsInjective(a)
  <2> SUFFICES ASSUME NEW x \in DOMAIN a, NEW y \in DOMAIN a, a[x] = a[y]
               PROVE  x = y
    BY DEF IsInjective
  <2>1. ASSUME NEW i \in DOMAIN a
        PROVE  \/ i = Len(s) + 1 /\ a[i] = e
               \/ i \in DOMAIN s /\ a[i] = s[i] /\ s[i] # e
    BY <1>1, <1>3 DEF ToSet
  <2> QED
    BY <1>3, <2>1 DEF IsInjective
<1> QED
  BY <1>1, <1>2, <1>3 DEF a

(***************************************************************************)
(* rlist_pop_front() of a list that is not empty: the head is no member    *)
(* any more, the others move up.                                           *)
(***************************************************************************)
LEMMA PopFront ==
  ASSUME NEW S, NEW s \in Seq(S), s # << >>
  PROVE  /\ Head(s) \in S
         /\ Head(s) = s[1]
         /\ 1 \in DOMAIN s
         /\ Tail(s) \in Seq(S)
         /\ Head(s) \in ToSet(s)
         /\ ToSet(s) = ToSet(Tail(s)) \cup {Head(s)}
         /\ IsInjective(s) => /\ IsInjective(Tail(s))
                              /\ ToSet(Tail(s)) = ToSet(s) \ {Head(s)}
<1> DEFINE r == Tail(s)
<1>1. /\ r \in Seq(S)
      /\ Len(r) = Len(s) - 1
      /\ \A i \in 1..Len(r) : r[i] = s[i + 1]
      /\ DOMAIN s = 1..Len(s)
      /\ DOMAIN r = 1..Len(r)
      /\ Len(s) \in Nat \ {0}
      /\ Head(s) = s[1]
      /\ Head(s) \in S
  BY HeadTailProperties, LenProperties, EmptySeq
<1> HIDE DEF r
<1>2. ASSUME IsInjective(s)
      PROVE  IsInjective(r)
  <2> SUFFICES ASSUME NEW x \in DOMAIN r, NEW y \in DOMAIN r, r[x] = r[y]
               PROVE  x = y
    BY DEF IsInjective
  <2>1. /\ x \in Int /\ x + 1 \in DOMAIN s /\ r[x] = s[x + 1]
        /\ y \in Int /\ y + 1 \in DOMAIN s /\ r[y] = s[y + 1]
    BY <1>1
  <2>2. x + 1 = y + 1
    BY <1>2, <2>1 DEF IsInjective
  <2> QED
    BY <2>1, <2>2
<1>3. ToSet(r) \subseteq ToSet(s)
  BY <1>1 DEF ToSet
<1>4. ASSUME NEW x \in ToSet(s), x # Head(s)
      PROVE  x \in ToSet(r)
  <2>1. PICK i \in 1..Len(s) : x = s[i]
    BY <1>1 DEF ToSet
  <2>2. i - 1 \in 1..Len(r) /\ r[i - 1] = s[i]
    BY <1>1, <1>4, <2>1
  <2> QED
    BY <1>1, <2>1, <2>2 DEF ToSet
<1>5. ASSUME IsInjective(s)
      PROVE  Head(s) \notin ToSet(r)
  <2> SUFFICES ASSUME NEW i \in 1..Len(r), r[i] = s[1]
               PROVE  FALSE
    BY <1>1 DEF ToSet
  <2> QED
    BY <1>1, <1>5 DEF IsInjective
<1>6. 1 \in DOMAIN s /\ Head(s) \in ToSet(s)
  BY <1>1 DEF ToSet
<1> QED
  BY <1>1, <1>2, <1>3, <1>4, <1>5, <1>6 DEF r

\* The part of a list from place m to place n.
LEMMA SegmentProperties ==
  ASSUME NEW S, NEW s \in Seq(S), NEW m \in Int, NEW n \in Int,
         1 <= m, n <= Len(s), m <= n + 1
  PROVE  /\ SubSeq(s, m, n) \in Seq(S)
         /\ Len(SubSeq(s, m, n)) = n - m + 1
         /\ \A j \in 1..(n - m + 1) : SubSeq(s, m, n)[j] = s[m + j - 1]
OBVIOUS

(***************************************************************************)
(* rlist_remove() of the node at place i.                                  *)
(***************************************************************************)
LEMMA Unlink ==
  ASSUME NEW S, NEW s \in Seq(S), NEW i \in DOMAIN s
  PROVE  /\ RemoveAt(s, i) \in Seq(S)
         /\ Len(RemoveAt(s, i)) = Len(s) - 1
         /\ \A j \in DOMAIN RemoveAt(s, i) :
              RemoveAt(s, i)[j] = IF j < i THEN s[j] ELSE s[j + 1]
         /\ IsInjective(s) => /\ IsInjective(RemoveAt(s, i))
                              /\ ToSet(RemoveAt(s, i)) = ToSet(s) \ {s[i]}
<1> DEFINE p == SubSeq(s, 1, i - 1)
           q == SubSeq(s, i + 1, Len(s))
           r == RemoveAt(s, i)
<1>1. /\ Len(s) \in Nat
      /\ DOMAIN s = 1..Len(s)
      /\ i \in 1..Len(s)
      /\ \A j \in 1..Len(s) : s[j] \in S
  BY LenProperties, ElementOfSeq
<1>2. /\ p \in Seq(S)
      /\ Len(p) = i - 1
      /\ \A j \in 1..(i - 1) : p[j] = s[j]
  BY <1>1, SegmentProperties
<1>3. /\ q \in Seq(S)
      /\ Len(q) = Len(s) - i
      /\ \A j \in 1..(Len(s) - i) : q[j] = s[j + i]
  <2>1. /\ q \in Seq(S)
        /\ Len(q) = Len(s) - (i + 1) + 1
        /\ \A j \in 1..(Len(s) - (i + 1) + 1) : q[j] = s[(i + 1) + j - 1]
    BY <1>1, SegmentProperties
  <2>2. Len(s) - (i + 1) + 1 = Len(s) - i
    BY <1>1
  <2>3. \A j \in 1..(Len(s) - i) : (i + 1) + j - 1 = j + i
    BY <1>1
  <2> QED
    BY <2>1, <2>2, <2>3
<1>4. /\ r \in Seq(S)
      /\ Len(r) = Len(p) + Len(q)
      /\ \A j \in 1..(Len(p) + Len(q)) :
           r[j] = IF j <= Len(p) THEN p[j] ELSE q[j - Len(p)]
  BY <1>2, <1>3, ConcatProperties DEF RemoveAt
<1>5. DOMAIN r = 1..Len(r)
  BY <1>4, LenProperties
<1> HIDE DEF p, q, r
<1>6. /\ Len(r) = Len(s) - 1
      /\ \A j \in DOMAIN r : r[j] = IF j < i THEN s[j] ELSE s[j + 1]
  <2>1. Len(r) = Len(s) - 1
    BY <1>1, <1>2, <1>3, <1>4
  <2>2. ASSUME NEW j \in DOMAIN r, j < i
        PROVE  r[j] = s[j]
    BY <1>1, <1>2, <1>3, <1>4, <1>5, <2>2
  <2>3. ASSUME NEW j \in DOMAIN r, ~(j < i)
        PROVE  r[j] = s[j + 1]
    <3>1. r[j] = q[j - (i - 1)]
      BY <1>1, <1>2, <1>3, <1>4, <1>5, <2>3
    <3>2. j - (i - 1) \in 1..(Len(s) - i) /\ (j - (i - 1)) + i = j + 1
      BY <1>1, <1>5, <2>1, <2>3
    <3> QED
      BY <1>3, <3>1, <3>2
  <2> QED
    BY <2>1, <2>2, <2>3
<1>7. ASSUME IsInjective(s)
      PROVE  IsInjective(r)
  <2> SUFFICES ASSUME NEW x \in DOMAIN r, NEW y \in DOMAIN r, r[x] = r[y]
               PROVE  x = y
    BY DEF IsInjective
  <2> DEFINE From(j) == IF j < i THEN j ELSE j + 1
  <2>1. ASSUME NEW j \in DOMAIN r
        PROVE  j \in Int /\ From(j) \in DOMAIN s /\ r[j] = s[From(j)]
    BY <1>1, <1>5, <1>6
  <2>2. From(x) = From(y)
    <3>1. s[From(x)] = s[From(y)] /\ From(x) \in DOMAIN s /\ From(y) \in DOMAIN s
      BY <2>1
    <3> HIDE DEF From
    <3> QED
      BY <1>7, <3>1 DEF IsInjective
  <2>3. x \in Int /\ y \in Int /\ i \in Int
    BY <1>1, <2>1
  <2> QED
    BY <2>2, <2>3
<1>8. ASSUME IsInjective(s)
      PROVE  ToSet(r) = ToSet(s) \ {s[i]}
  <2>1. ASSUME NEW j \in DOMAIN r
        PROVE  r[j] \in ToSet(s) \ {s[i]}
    BY <1>1, <1>5, <1>6, <1>8, <2>1 DEF IsInjective, ToSet
  <2>2. ASSUME NEW k \in DOMAIN s, k # i
        PROVE  s[k] \in ToSet(r)
    <3>1. CASE k < i
      BY <1>1, <1>5, <1>6, <2>2, <3>1 DEF ToSet
    <3>2. CASE k > i
      <4>1. k - 1 \in DOMAIN r /\ r[k - 1] = s[k]
        BY <1>1, <1>5, <1>6, <3>2
      <4> QED
        BY <4>1 DEF ToSet
    <3> QED
      BY <1>1, <2>2, <3>1, <3>2
  <2> QED
    BY <2>1, <2>2 DEF ToSet
<1> QED
  BY <1>4, <1>6, <1>7, <1>8 DEF r

(***************************************************************************)
(* rl_splice() of a node that is in no list, before the one at place i (or *)
(* at the end).                                                            *)
(***************************************************************************)
LEMMA Link ==
  ASSUME NEW S, NEW s \in Seq(S), NEW e \in S, NEW i \in 1..(Len(s) + 1)
  PROVE  /\ InsertAt(s, i, e) \in Seq(S)
         /\ Len(InsertAt(s, i, e)) = Len(s) + 1
         /\ \A j \in DOMAIN InsertAt(s, i, e) :
              InsertAt(s, i, e)[j] = IF j < i THEN s[j]
                                     ELSE IF j = i THEN e ELSE s[j - 1]
         /\ ToSet(InsertAt(s, i, e)) = ToSet(s) \cup {e}
         /\ IsInjective(s) /\ e \notin ToSet(s) => IsInjective(InsertAt(s, i, e))
<1> DEFINE p == SubSeq(s, 1, i - 1)
           q == SubSeq(s, i, Len(s))
           m == p \o <<e>>
           r == InsertAt(s, i, e)
<1>1. /\ Len(s) \in Nat
      /\ DOMAIN s = 1..Len(s)
      /\ \A j \in 1..Len(s) : s[j] \in S
  BY LenProperties, ElementOfSeq
<1>2. /\ p \in Seq(S)
      /\ Len(p) = i - 1
      /\ \A j \in 1..(i - 1) : p[j] = s[j]
  BY <1>1, SegmentProperties
<1>3. /\ q \in Seq(S)
      /\ Len(q) = Len(s) - i + 1
      /\ \A j \in 1..(Len(s) - i + 1) : q[j] = s[j + i - 1]
  BY <1>1, SegmentProperties
<1>4. <<e>> \in Seq(S) /\ Len(<<e>>) = 1 /\ <<e>>[1] = e
  OBVIOUS
<1>5. /\ m \in Seq(S)
      /\ Len(m) = Len(p) + 1
      /\ \A j \in 1..(Len(p) + 1) :
           m[j] = IF j <= Len(p) THEN p[j] ELSE <<e>>[j - Len(p)]
  BY <1>2, <1>4, ConcatProperties
<1>6. /\ r \in Seq(S)
      /\ Len(r) = Len(m) + Len(q)
      /\ \A j \in 1..(Len(m) + Len(q)) :
           r[j] = IF j <= Len(m) THEN m[j] ELSE q[j - Len(m)]
  BY <1>3, <1>5, ConcatProperties DEF InsertAt
<1>7. DOMAIN r = 1..Len(r)
  BY <1>6, LenProperties
<1> HIDE DEF p, q, m, r
<1>8. /\ Len(r) = Len(s) + 1
      /\ \A j \in DOMAIN r : r[j] = IF j < i THEN s[j]
                                    ELSE IF j = i THEN e ELSE s[j - 1]
  <2>1. Len(r) = Len(s) + 1
    BY <1>1, <1>2, <1>3, <1>5, <1>6
  <2>2. ASSUME NEW j \in DOMAIN r, j <= i
        PROVE  r[j] = IF j < i THEN s[j] ELSE e
    <3>1. r[j] = m[j] /\ j \in 1..(Len(p) + 1)
      BY <1>1, <1>2, <1>3, <1>5, <1>6, <1>7, <2>2
    <3>2. j < i => m[j] = p[j] /\ j \in 1..(i - 1)
      BY <1>2, <1>5, <3>1
    <3>3. ~(j < i) => m[j] = <<e>>[1]
      BY <1>2, <1>5, <2>2, <3>1
    <3> QED
      BY <1>2, <1>4, <3>1, <3>2, <3>3
  <2>3. ASSUME NEW j \in DOMAIN r, j > i
        PROVE  r[j] = s[j - 1]
    <3>1. r[j] = q[j - i]
      BY <1>1, <1>2, <1>3, <1>5, <1>6, <1>7, <2>3
    <3>2. j - i \in 1..(Len(s) - i + 1) /\ (j - i) + i - 1 = j - 1
      BY <1>1, <1>7, <2>1, <2>3
    <3> QED
      BY <1>3, <3>1, <3>2
  <2> QED
    BY <1>1, <1>7, <2>1, <2>2, <2>3
<1>9. ToSet(r) = ToSet(s) \cup {e}
  <2>1. ToSet(r) \subseteq ToSet(s) \cup {e}
    BY <1>1, <1>7, <1>8 DEF ToSet
  <2>2. e \in ToSet(r)
    BY <1>1, <1>7, <1>8 DEF ToSet
  <2>3. ASSUME NEW k \in DOMAIN s
        PROVE  s[k] \in ToSet(r)
    <3>1. CASE k < i
      BY <1>1, <1>7, <1>8, <3>1 DEF ToSet
    <3>2. CASE k >= i
      <4>1. k + 1 \in DOMAIN r /\ r[k + 1] = s[k]
        BY <1>1, <1>7, <1>8, <3>2
      <4> QED
        BY <4>1 DEF ToSet
    <3> QED
      BY <1>1, <3>1, <3>2
  <2> QED
    BY <2>1, <2>2, <2>3 DEF ToSet
<1>10. ASSUME IsInjective(s), e \notin ToSet(s)
       PROVE  IsInjective(r)
  <2> SUFFICES ASSUME NEW x \in DOMAIN r, NEW y \in DOMAIN r, r[x] = r[y]
               PROVE  x = y
    BY DEF IsInjective
  <2> DEFINE From(j) == IF j < i THEN j ELSE j - 1
  <2>1. ASSUME NEW j \in DOMAIN r, j # i
        PROVE  j \in Int /\ From(j) \in DOMAIN s /\ r[j] = s[From(j)]
    <3>1. j \in 1..(Len(s) + 1) /\ i \in 1..(Len(s) + 1)
      BY <1>7, <1>8
    <3>2. CASE j < i
      <4>1. r[j] = s[j]
        BY <1>8, <3>2
      <4> QED
        BY <1>1, <3>1, <3>2, <4>1
    <3>3. CASE j > i
      <4>1. r[j] = s[j - 1]
        BY <1>8, <3>1, <3>3
      <4> QED
        BY <1>1, <3>1, <3>3, <4>1
    <3> QED
      BY <2>1, <3>1, <3>2, <3>3
  <2>2. ASSUME NEW j \in DOMAIN r, j # i
        PROVE  r[j] # e
    <3>1. From(j) \in DOMAIN s /\ r[j] = s[From(j)]
      BY <2>1, <2>2
    <3>2. s[From(j)] \in ToSet(s)
      BY <3>1 DEF ToSet
    <3> QED
      BY <1>10, <3>1, <3>2
  <2>3. i \in DOMAIN r /\ r[i] = e /\ i \in Int
    BY <1>1, <1>7, <1>8
  <2>4. CASE x = i \/ y = i
    BY <2>2, <2>3, <2>4
  <2>5. CASE x # i /\ y # i
    <3>1. s[From(x)] = s[From(y)] /\ From(x) \in DOMAIN s /\ From(y) \in DOMAIN s
      BY <2>1, <2>5
    <3>2. From(x) = From(y)
      <4> HIDE DEF From
      <4> QED
        BY <1>10, <3>1 DEF IsInjective
    <3>3. x \in Int /\ y \in Int
      BY <2>1, <2>5
    <3> QED
      BY <2>3, <2>5, <3>2, <3>3
  <2> QED
    BY <2>4, <2>5
<1> QED
  BY <1>6, <1>8, <1>9, <1>10 DEF r

(***************************************************************************)
(* rlist_push_front() of a node that is in no list, and rlist_append() of  *)
(* one list to another with which it shares no node.                       *)
(***************************************************************************)
LEMMA Concat ==
  ASSUME NEW S, NEW s \in Seq(S), NEW r \in Seq(S)
  PROVE  /\ s \o r \in Seq(S)
         /\ ToSet(s \o r) = ToSet(s) \cup ToSet(r)
         /\ IsInjective(s) /\ IsInjective(r) /\ ToSet(s) \cap ToSet(r) = {} =>
              IsInjective(s \o r)
         /\ r = << >> => s \o r = s
<1> DEFINE a == s \o r
<1>1. /\ a \in Seq(S)
      /\ Len(a) = Len(s) + Len(r)
      /\ \A i \in 1..(Len(s) + Len(r)) :
           a[i] = IF i <= Len(s) THEN s[i] ELSE r[i - Len(s)]
  BY ConcatProperties
<1>2. /\ DOMAIN s = 1..Len(s) /\ DOMAIN r = 1..Len(r) /\ DOMAIN a = 1..Len(a)
      /\ Len(s) \in Nat /\ Len(r) \in Nat
  BY <1>1, LenProperties
<1> HIDE DEF a
<1>3. \A i \in DOMAIN s : i \in DOMAIN a /\ a[i] = s[i]
  BY <1>1, <1>2
<1>4. \A i \in DOMAIN r : i + Len(s) \in DOMAIN a /\ a[i + Len(s)] = r[i]
  BY <1>1, <1>2
<1>5. ASSUME NEW i \in DOMAIN a
      PROVE  \/ i \in DOMAIN s /\ a[i] = s[i]
             \/ i - Len(s) \in DOMAIN r /\ a[i] = r[i - Len(s)] /\ i \notin DOMAIN s
  BY <1>1, <1>2
<1>6. ToSet(a) = ToSet(s) \cup ToSet(r)
  BY <1>3, <1>4, <1>5 DEF ToSet
<1>7. ASSUME IsInjective(s), IsInjective(r), ToSet(s) \cap ToSet(r) = {}
      PROVE  IsInjective(a)
  <2> SUFFICES ASSUME NEW x \in DOMAIN a, NEW y \in DOMAIN a, a[x] = a[y]
               PROVE  x = y
    BY DEF IsInjective
  <2>1. CASE x \in DOMAIN s /\ y \in DOMAIN s
    BY <2>1, <1>3, <1>7 DEF IsInjective
  <2>2. CASE x \notin DOMAIN s /\ y \notin DOMAIN s
    <3>1. /\ x - Len(s) \in DOMAIN r /\ y - Len(s) \in DOMAIN r
          /\ r[x - Len(s)] = r[y - Len(s)]
      BY <2>2, <1>5
    <3>2. x - Len(s) = y - Len(s)
      BY <3>1, <1>7 DEF IsInjective
    <3> QED
      BY <3>2, <1>2
  <2>3. CASE x \in DOMAIN s /\ y \notin DOMAIN s
    <3>1. a[x] \in ToSet(s) /\ a[y] \in ToSet(r)
      BY <2>3, <1>5 DEF ToSet
    <3> QED
      BY <3>1, <1>7
  <2>4. CASE x \notin DOMAIN s /\ y \in DOMAIN s
    <3>1. a[x] \in ToSet(r) /\ a[y] \in ToSet(s)
      BY <2>4, <1>5 DEF ToSet
    <3> QED
      BY <3>1, <1>7
  <2> QED
    BY <2>1, <2>2, <2>3, <2>4
<1>8. r = << >> => s \o r = s
  BY ConcatEmptySeq
<1> QED
  BY <1>1, <1>6, <1>7, <1>8 DEF a

LEMMA PushFront ==
  ASSUME NEW S, NEW e \in S, NEW s \in Seq(S), IsInjective(s), e \notin ToSet(s)
  PROVE  /\ <<e>> \o s \in Seq(S)
         /\ IsInjective(<<e>> \o s)
         /\ ToSet(<<e>> \o s) = {e} \cup ToSet(s)
<1>1. <<e>> \in Seq(S) /\ ToSet(<<e>>) = {e} /\ IsInjective(<<e>>)
  BY DEF ToSet, IsInjective
<1> PICK r \in Seq(S) : r = <<e>>
  BY <1>1
<1>2. r \o s \in Seq(S)
  BY Concat
<1>3. ToSet(r \o s) = ToSet(r) \cup ToSet(s)
  BY Concat
<1>4. ToSet(r) \cap ToSet(s) = {}
  BY <1>1
<1>5. IsInjective(r \o s)
  BY <1>1, <1>4, Concat
<1> QED
  BY <1>1, <1>2, <1>3, <1>5

-----------------------------------------------------------------------------
(***************************************************************************)
(* Natural numbers: a set of them that is not empty has a least one, and   *)
(* one that holds 0, and with n the number n + 1, holds them all.          *)
(***************************************************************************)
LEMMA NatMinimum ==
  ASSUME NEW T, T \subseteq Nat, T # {}
  PROVE  \E x \in T : \A y \in T : x <= y
<1> DEFINE R == OpToRel(<, Nat)
<1>1. IsWellFoundedOn(R, Nat)
  BY NatLessThanWellFounded, Zenon
<1>2. \A x, y \in Nat : x < y => <<x, y>> \in R
  BY DEF OpToRel
<1> HIDE DEF R
<1>3. PICK x \in T : \A y \in T : ~ (<<y, x>> \in R)
  BY <1>1, WFMin
<1>4. ASSUME NEW y \in T PROVE x <= y
  <2>1. x \in Nat /\ y \in Nat
    OBVIOUS
  <2>2. ~ (y < x)
    BY <2>1, <1>2, <1>3
  <2> QED
    BY <2>1, <2>2
<1> QED
  BY <1>4

LEMMA NatSetInduction ==
  ASSUME NEW T, 0 \in T, \A n \in Nat : n \in T => n + 1 \in T
  PROVE  Nat \subseteq T
<1> SUFFICES ASSUME Nat \ T # {} PROVE FALSE
  OBVIOUS
<1>1. PICK x \in Nat \ T : \A y \in Nat \ T : x <= y
  BY NatMinimum
<1>2. x \in Nat /\ x # 0 /\ x \notin T
  OBVIOUS
<1>3. x - 1 \in Nat /\ (x - 1) + 1 = x
  BY <1>2
<1>4. x - 1 \notin T
  BY <1>2, <1>3
<1> QED
  BY <1>1, <1>3, <1>4

-----------------------------------------------------------------------------
(***************************************************************************)
(* The rings of util.h themselves (RingLists), in heaps of any size.       *)
(***************************************************************************)

\* Splicing keeps the pointers of all nodes consistent, and touches the next
\* of its two nodes only.
THEOREM SpliceKeepsHeap ==
  ASSUME NEW L, IsHeap(L), NEW a \in Nodes(L), NEW b \in Nodes(L)
  PROVE  /\ IsHeap(rl_splice(L, a, b)) /\ Nodes(rl_splice(L, a, b)) = Nodes(L)
         /\ rl_splice(L, a, b).next[a] = L.next[b]
         /\ rl_splice(L, a, b).next[b] = L.next[a]
         /\ \A c \in Nodes(L) \ {a, b} : rl_splice(L, a, b).next[c] = L.next[c]
<1> DEFINE M == rl_splice(L, a, b)
           X == Nodes(L)
           an == L.next[a]
           bn == L.next[b]
<1>1. /\ L.next \in [X -> X] /\ L.prev \in [X -> X]
      /\ an \in X /\ bn \in X
  BY DEF IsHeap
<1>2. M = [next |-> [L.next EXCEPT ![a] = bn, ![b] = an],
           prev |-> [L.prev EXCEPT ![an] = L.prev[bn], ![bn] = L.prev[an]]]
  BY DEF rl_splice
<1>3. L.prev[an] = a /\ L.prev[bn] = b
  BY DEF IsHeap
<1>4. /\ M.next = [L.next EXCEPT ![a] = bn, ![b] = an]
      /\ M.prev = [L.prev EXCEPT ![an] = b, ![bn] = a]
      /\ M = [next |-> M.next, prev |-> M.prev]
  BY <1>2, <1>3
<1> HIDE DEF M
<1>5. M.next \in [X -> X] /\ M.prev \in [X -> X]
  BY <1>1, <1>4
<1>6. Nodes(M) = X
  BY <1>5 DEF Nodes
<1>7. ASSUME NEW c \in X
      PROVE  /\ M.next[c] = IF c = b THEN an ELSE IF c = a THEN bn ELSE L.next[c]
             /\ M.prev[c] = IF c = bn THEN a ELSE IF c = an THEN b ELSE L.prev[c]
  BY <1>1, <1>4
<1>8. ASSUME NEW c \in X
      PROVE  M.prev[M.next[c]] = c /\ M.next[M.prev[c]] = c
  <2>1. /\ L.prev[L.next[c]] = c /\ L.next[L.prev[c]] = c
        /\ L.next[c] \in X /\ L.prev[c] \in X
    BY <1>1 DEF IsHeap
  <2>2. M.next[c] \in X /\ M.prev[c] \in X
    BY <1>5
  <2>3. M.prev[M.next[c]] = c
    <3>1. CASE c = b
      BY <3>1, <1>1, <1>3, <1>7
    <3>2. CASE c = a /\ c # b
      BY <3>2, <1>1, <1>3, <1>7
    <3>3. CASE c # a /\ c # b
      <4>1. M.next[c] = L.next[c] /\ L.next[c] # an /\ L.next[c] # bn
        BY <3>3, <1>3, <1>7, <2>1
      <4> QED BY <4>1, <1>7, <2>1
    <3> QED BY <3>1, <3>2, <3>3
  <2>4. M.next[M.prev[c]] = c
    <3>1. CASE c = bn
      BY <3>1, <1>1, <1>3, <1>7
    <3>2. CASE c = an /\ c # bn
      BY <3>2, <1>1, <1>3, <1>7
    <3>3. CASE c # an /\ c # bn
      <4>1. M.prev[c] = L.prev[c] /\ L.prev[c] # a /\ L.prev[c] # b
        BY <3>3, <1>3, <1>7, <2>1
      <4> QED BY <4>1, <1>7, <2>1
    <3> QED BY <3>1, <3>2, <3>3
  <2> QED BY <2>3, <2>4
<1>9. IsHeap(M)
  BY <1>4, <1>5, <1>6, <1>8 DEF IsHeap
<1>10. M.next[a] = bn /\ M.next[b] = an
  BY <1>1, <1>7
<1>11. \A c \in X \ {a, b} : M.next[c] = L.next[c]
  BY <1>7
<1> QED BY <1>6, <1>9, <1>10, <1>11 DEF M

\* rlist_remove() takes its node out, and closes the ring behind it.
THEOREM RemoveIsolates ==
  ASSUME NEW L, IsHeap(L), NEW a \in Nodes(L)
  PROVE  /\ IsHeap(rlist_remove(L, a))
         /\ IsSingleton(rlist_remove(L, a), a)
         /\ L.prev[a] # a => rlist_remove(L, a).next[L.prev[a]] = L.next[a]
<1> DEFINE M == rlist_remove(L, a)
           p == L.prev[a]
<1>1. p \in Nodes(L) /\ L.next[p] = a /\ L.next[a] \in Nodes(L)
  BY DEF IsHeap
<1>2. M = rl_splice(L, a, p)
  BY DEF rlist_remove
<1> HIDE DEF M, p
<1>3. /\ IsHeap(M) /\ Nodes(M) = Nodes(L)
      /\ M.next[a] = a /\ M.next[p] = L.next[a]
  BY <1>1, <1>2, SpliceKeepsHeap
<1>4. M.prev[a] = a
  BY <1>3 DEF IsHeap
<1> QED BY <1>3, <1>4 DEF IsSingleton, M, p

\* rlist_pop_front() takes the head out of a list that is not empty.
THEOREM PopFrontTakesHead ==
  ASSUME NEW L, IsHeap(L), NEW list \in Nodes(L)
  PROVE  LET h == L.next[list]
             M == rlist_pop_front(L, list)
         IN  IsHeap(M) /\ IsSingleton(M, h) /\ M.next[list] = L.next[h]
<1> DEFINE h == L.next[list]
           M == rlist_pop_front(L, list)
<1>1. h \in Nodes(L) /\ L.next[list] = h
  BY DEF IsHeap
<1>2. M = rl_splice(L, list, h)
  BY DEF rlist_pop_front
<1> HIDE DEF M, h
<1>3. /\ IsHeap(M) /\ Nodes(M) = Nodes(L)
      /\ M.next[h] = h /\ M.next[list] = L.next[h]
  BY <1>1, <1>2, SpliceKeepsHeap
<1>4. M.prev[h] = h
  BY <1>3, <1>1 DEF IsHeap
<1> QED BY <1>3, <1>4 DEF IsSingleton, M, h

\* rlist_push_back() puts a single node between the tail and the list.
THEOREM PushBackAddsTail ==
  ASSUME NEW L, IsHeap(L), NEW list \in Nodes(L), NEW n \in Nodes(L),
         IsSingleton(L, n), n # list
  PROVE  LET M == rlist_push_back(L, list, n)
         IN  /\ IsHeap(M)
             /\ M.next[L.prev[list]] = n /\ M.next[n] = list
             /\ M.prev[list] = n
<1> DEFINE M == rlist_push_back(L, list, n)
           p == L.prev[list]
<1>1. p \in Nodes(L) /\ L.next[p] = list /\ L.next[n] = n
  BY DEF IsHeap, IsSingleton
<1>2. M = rl_splice(L, p, n)
  BY DEF rlist_push_back
<1> HIDE DEF M, p
<1>3. /\ IsHeap(M) /\ Nodes(M) = Nodes(L)
      /\ M.next[p] = n /\ M.next[n] = list
  BY <1>1, <1>2, SpliceKeepsHeap
<1>4. M.prev[list] = n
  BY <1>3 DEF IsHeap
<1> QED BY <1>3, <1>4 DEF M, p

\* Removing a node that was pushed back restores every ring.
THEOREM PushThenRemove ==
  ASSUME NEW L, IsHeap(L), NEW list \in Nodes(L), NEW n \in Nodes(L),
         IsSingleton(L, n), n # list
  PROVE  rlist_remove(rlist_push_back(L, list, n), n).next = L.next
<1> DEFINE M == rlist_push_back(L, list, n)
           R == rlist_remove(M, n)
           p == L.prev[list]
           X == Nodes(L)
<1>1. p \in X /\ L.next[p] = list /\ L.next[n] = n /\ p # n
  BY DEF IsHeap, IsSingleton
<1>2. M = rl_splice(L, p, n)
  BY DEF rlist_push_back
<1>3. R = rl_splice(M, n, M.prev[n])
  BY DEF rlist_remove
<1> HIDE DEF M, R, p
<1>4. /\ IsHeap(M) /\ Nodes(M) = X
      /\ M.next[p] = n /\ M.next[n] = list
      /\ \A c \in X \ {p, n} : M.next[c] = L.next[c]
  BY <1>1, <1>2, SpliceKeepsHeap
<1>5. M.prev[n] = p
  BY <1>1, <1>4 DEF IsHeap
<1>6. /\ IsHeap(R) /\ Nodes(R) = X
      /\ R.next[n] = n /\ R.next[p] = list
      /\ \A c \in X \ {n, p} : R.next[c] = M.next[c]
  <2>1. R = rl_splice(M, n, p) /\ n \in Nodes(M) /\ p \in Nodes(M)
    BY <1>1, <1>3, <1>4, <1>5
  <2>2. /\ IsHeap(rl_splice(M, n, p))
        /\ Nodes(rl_splice(M, n, p)) = Nodes(M)
        /\ rl_splice(M, n, p).next[n] = M.next[p]
        /\ rl_splice(M, n, p).next[p] = M.next[n]
        /\ \A c \in Nodes(M) \ {n, p} : rl_splice(M, n, p).next[c] = M.next[c]
    <3>1. IsHeap(M)
      BY <1>4
    <3>2. n \in Nodes(M) /\ p \in Nodes(M)
      BY <2>1
    <3> QED BY <3>1, <3>2, SpliceKeepsHeap
  <2>3. /\ IsHeap(R) /\ Nodes(R) = Nodes(M)
        /\ R.next[n] = M.next[p] /\ R.next[p] = M.next[n]
        /\ \A c \in Nodes(M) \ {n, p} : R.next[c] = M.next[c]
    BY <2>1, <2>2
  <2> QED BY <2>3, <1>4
<1>7. \A c \in X : R.next[c] = L.next[c]
  BY <1>1, <1>4, <1>6
<1>8. R.next \in [X -> X] /\ L.next \in [X -> X]
  BY <1>6 DEF IsHeap
<1> QED BY <1>7, <1>8 DEF R, M

\* rlist_pop_back() does not take the tail of the list but all of it: the
\* list is empty afterwards, whatever it held.
THEOREM PopBackEmptiesList ==
  ASSUME NEW L, IsHeap(L), NEW list \in Nodes(L)
  PROVE  is_rlist_empty(rlist_pop_back(L, list), list)
<1>1. rlist_pop_back(L, list) = rlist_remove(L, list)
  BY DEF rlist_pop_back, rlist_remove
<1> QED BY <1>1, RemoveIsolates DEF is_rlist_empty, IsSingleton

=============================================================================
