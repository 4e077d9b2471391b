-------------------------- MODULE SequenceLemmas ----------------------------
(* Facts about the operators on sequences and numbers that the models use. *)
EXTENDS Integers, SequencesExt, SequenceTheorems, WellFoundedInduction, TLAPS

\* What inserting e at place n of s yields.
LEMMA InsertAtProperties ==
  ASSUME NEW S, NEW s \in Seq(S), NEW n \in 1..(Len(s) + 1), NEW e \in S
  PROVE  /\ InsertAt(s, n, e) \in Seq(S)
         /\ Len(InsertAt(s, n, e)) = Len(s) + 1
         /\ \A i \in 1..(n - 1) : InsertAt(s, n, e)[i] = s[i]
         /\ InsertAt(s, n, e)[n] = e
         /\ \A k \in n..Len(s) : \A i \in Int : i = k + 1 => InsertAt(s, n, e)[i] = s[k]
<1> DEFINE front == SubSeq(s, 1, n - 1)
           back  == SubSeq(s, n, Len(s))
<1>0. Len(s) \in Nat /\ n \in Nat \ {0} /\ n <= Len(s) + 1 /\ \A i \in 1..Len(s) : s[i] \in S
  BY LenProperties
<1>1. /\ front \in Seq(S) /\ Len(front) = n - 1
      /\ \A i \in 1..(n - 1) : front[i] = s[i]
  BY <1>0, SubSeqProperties
<1>2. /\ back \in Seq(S) /\ Len(back) = Len(s) - n + 1
      /\ \A i \in 1..(Len(s) - n + 1) : back[i] = s[n + i - 1]
  BY <1>0, SubSeqProperties
<1>3. <<e>> \in Seq(S) /\ Len(<<e>>) = 1 /\ <<e>>[1] = e
  OBVIOUS
<1>4. InsertAt(s, n, e) = front \o <<e>> \o back
  BY DEF InsertAt
<1> HIDE DEF front, back
<1> DEFINE head == front \o <<e>>
<1>5. /\ head \in Seq(S) /\ Len(head) = n
      /\ \A i \in 1..n : head[i] = IF i < n THEN s[i] ELSE e
  BY <1>0, <1>1, <1>3, ConcatProperties
<1> HIDE DEF head
<1>6. InsertAt(s, n, e) = head \o back
  BY <1>4 DEF head
<1>7. /\ head \o back \in Seq(S)
      /\ Len(head \o back) = Len(s) + 1
      /\ \A i \in 1..(Len(s) + 1) :
           (head \o back)[i] = IF i <= n THEN head[i] ELSE back[i - n]
  <2>1. Len(head) + Len(back) = Len(s) + 1 /\ Len(head) = n
    BY <1>0, <1>2, <1>5
  <2>2. /\ head \o back \in Seq(S)
        /\ Len(head \o back) = Len(head) + Len(back)
        /\ \A i \in 1..(Len(head) + Len(back)) :
             (head \o back)[i] = IF i <= Len(head) THEN head[i] ELSE back[i - Len(head)]
    BY <1>2, <1>5, ConcatProperties
  <2> QED
    BY <2>1, <2>2, Zenon
<1>8. ASSUME NEW i \in 1..n PROVE InsertAt(s, n, e)[i] = IF i < n THEN s[i] ELSE e
  BY <1>0, <1>5, <1>6, <1>7
<1>9. ASSUME NEW k \in n..Len(s), NEW i \in Int, i = k + 1
      PROVE  InsertAt(s, n, e)[i] = s[k]
  <2>1. /\ i \in 1..(Len(s) + 1) /\ ~(i <= n)
        /\ i - n \in 1..(Len(s) - n + 1) /\ n + (i - n) - 1 = k
    BY <1>0, <1>9
  <2>2. InsertAt(s, n, e)[i] = back[i - n]
    BY <1>6, <1>7, <2>1
  <2>3. back[i - n] = s[n + (i - n) - 1]
    BY <1>2, <2>1
  <2> QED
    BY <2>1, <2>2, <2>3
<1> QED
  BY <1>0, <1>6, <1>7, <1>8, <1>9

\* The elements of a sequence after an insertion.
LEMMA InsertAtElements ==
  ASSUME NEW S, NEW s \in Seq(S), NEW n \in 1..(Len(s) + 1), NEW e \in S
  PROVE  ToSet(InsertAt(s, n, e)) = ToSet(s) \cup {e}
<1> DEFINE r == InsertAt(s, n, e)
<1>0. Len(s) \in Nat /\ n \in Nat \ {0} /\ n <= Len(s) + 1 /\ DOMAIN s = 1..Len(s)
  BY LenProperties
<1>1. /\ r \in Seq(S) /\ Len(r) = Len(s) + 1
      /\ \A i \in 1..(n - 1) : r[i] = s[i]
      /\ r[n] = e
      /\ \A k \in n..Len(s) : \A i \in Int : i = k + 1 => r[i] = s[k]
  BY InsertAtProperties
<1>2. DOMAIN r = 1..(Len(s) + 1)
  BY <1>1
<1> HIDE DEF r
<1>3. ASSUME NEW i \in DOMAIN r PROVE r[i] \in ToSet(s) \cup {e}
  <2>1. CASE i < n
    BY <1>0, <1>1, <1>2, <2>1 DEF ToSet
  <2>2. CASE i = n
    BY <1>1, <2>2
  <2>3. CASE i > n
    <3>1. i - 1 \in n..Len(s) /\ i = (i - 1) + 1 /\ i - 1 \in DOMAIN s /\ i \in Int
      BY <1>0, <1>2, <2>3
    <3>2. r[i] = s[i - 1]
      BY <1>1, <3>1
    <3> QED
      BY <3>1, <3>2 DEF ToSet
  <2> QED
    BY <1>0, <1>2, <2>1, <2>2, <2>3
<1>4. ASSUME NEW k \in DOMAIN s PROVE s[k] \in ToSet(r)
  <2>1. CASE k < n
    <3>1. k \in DOMAIN r /\ r[k] = s[k]
      BY <1>0, <1>1, <1>2, <2>1
    <3> QED
      BY <3>1 DEF ToSet
  <2>2. CASE k >= n
    <3>1. k + 1 \in DOMAIN r /\ k \in n..Len(s) /\ k + 1 \in Int
      BY <1>0, <1>2, <2>2
    <3>2. r[k + 1] = s[k]
      BY <1>1, <3>1
    <3> QED
      BY <3>1, <3>2 DEF ToSet
  <2> QED
    BY <1>0, <2>1, <2>2
<1>5. e \in ToSet(r)
  <2>1. n \in DOMAIN r /\ r[n] = e
    BY <1>0, <1>1, <1>2
  <2> QED
    BY <2>1 DEF ToSet
<1>6. ToSet(r) = ToSet(s) \cup {e}
  <2>1. ToSet(r) \subseteq ToSet(s) \cup {e}
    BY <1>3 DEF ToSet
  <2>2. ToSet(s) \subseteq ToSet(r)
    BY <1>4 DEF ToSet
  <2> QED
    BY <1>5, <2>1, <2>2
<1> QED
  BY <1>6 DEF r

\* Taking the first element.
LEMMA HeadTailElements ==
  ASSUME NEW S, NEW s \in Seq(S), s # <<>>
  PROVE  /\ Head(s) \in ToSet(s)
         /\ Head(s) \in S
         /\ Tail(s) \in Seq(S)
         /\ ToSet(Tail(s)) \subseteq ToSet(s)
<1>1. /\ Head(s) = s[1] /\ Len(s) \in Nat /\ Len(s) > 0 /\ DOMAIN s = 1..Len(s)
  BY LenProperties
<1>2. /\ Head(s) \in S /\ Tail(s) \in Seq(S)
      /\ Len(Tail(s)) = Len(s) - 1
      /\ \A i \in 1..Len(Tail(s)) : Tail(s)[i] = s[i + 1]
  BY HeadTailProperties
<1>3. Head(s) \in ToSet(s)
  BY <1>1 DEF ToSet
<1>4. ASSUME NEW i \in DOMAIN Tail(s) PROVE Tail(s)[i] \in ToSet(s)
  <2>1. i \in 1..Len(Tail(s)) /\ i + 1 \in DOMAIN s
    BY <1>1, <1>2
  <2>2. Tail(s)[i] = s[i + 1]
    BY <1>2, <2>1
  <2> QED
    BY <2>1, <2>2 DEF ToSet
<1>5. ToSet(Tail(s)) \subseteq ToSet(s)
  BY <1>4 DEF ToSet
<1> QED
  BY <1>2, <1>3, <1>5

\* Min of a nonempty set of numbers is its least element.
LEMMA MinIsLeast ==
  ASSUME NEW T, T \subseteq Nat, T # {}
  PROVE  Min(T) \in T /\ \A y \in T : Min(T) <= y
<1> DEFINE R == {ss \in Nat \X Nat : ss[1] < ss[2]}
<1>1. IsWellFoundedOn(R, Nat)
  BY NatLessThanWellFounded, Zenon DEF OpToRel
<1>2. ASSUME NEW x \in T, NEW y \in T, <<y, x>> \notin R PROVE x <= y
  BY <1>2
<1> HIDE DEF R
<1>3. PICK x \in T : \A y \in T : <<y, x>> \notin R
  BY <1>1, WFMin
<1>4. \A y \in T : x <= y
  BY <1>2, <1>3
<1> QED
  BY <1>4 DEF Min

\* A prefix and the element behind it.
LEMMA PrefixAppend ==
  ASSUME NEW S, NEW s \in Seq(S), NEW k \in Nat, k + 1 <= Len(s)
  PROVE  /\ SubSeq(s, 1, k) \in Seq(S) /\ Len(SubSeq(s, 1, k)) = k
         /\ Append(SubSeq(s, 1, k), s[k + 1]) = SubSeq(s, 1, k + 1)
<1>1. /\ Len(s) \in Nat /\ 1 \in 1..Len(s) /\ k + 1 \in 1..Len(s)
      /\ \A i \in 1..Len(s) : s[i] \in S
  BY LenProperties, ElementOfSeq
<1>2. SubSeq(s, 1, k) \in Seq(S) /\ Len(SubSeq(s, 1, k)) = k
  <2>1. \A i \in 1..k : s[i] \in S
    BY <1>1
  <2>2. /\ SubSeq(s, 1, k) \in Seq(S)
        /\ Len(SubSeq(s, 1, k)) = IF 1 <= k THEN k - 1 + 1 ELSE 0
    BY <2>1, SubSeqProperties
  <2> QED
    BY <2>2
<1>3. SubSeq(s, 1, k + 1) = SubSeq(s, 1, k) \o <<s[k + 1]>>
  <2>1. SubSeq(s, 1, k + 1) = SubSeq(s, 1, (k + 1) - 1) \o <<s[k + 1]>>
    BY <1>1, SubSeqRecursiveSecond
  <2>2. (k + 1) - 1 = k
    OBVIOUS
  <2> QED
    BY <2>1, <2>2
<1>4. s[k + 1] \in S
  BY <1>1
<1> QED
  BY <1>2, <1>3, <1>4, AppendIsConcat

\* A prefix of s and what comes next of s, where w has it.
LEMMA PrefixGrows ==
  ASSUME NEW S, NEW s \in Seq(S), NEW w \in Seq(S),
         NEW a \in Nat, NEW l \in Nat, NEW n \in Nat,
         l + n <= Len(s), a + Len(s) <= Len(w), \A i \in 1..Len(s) : w[a + i] = s[i]
  PROVE  /\ SubSeq(s, 1, l) \o SubSeq(w, a + l + 1, a + l + n) = SubSeq(s, 1, l + n)
         /\ Len(SubSeq(s, 1, l + n)) = l + n
<1> DEFINE first == SubSeq(s, 1, l)
           next == SubSeq(w, a + l + 1, a + l + n)
           all == SubSeq(s, 1, l + n)
<1>1. /\ Len(s) \in Nat /\ Len(w) \in Nat
      /\ \A i \in 1..Len(s) : s[i] \in S
      /\ \A i \in 1..Len(w) : w[i] \in S
  BY LenProperties, ElementOfSeq
<1>2. first \in Seq(S) /\ Len(first) = l /\ \A i \in 1..l : first[i] = s[i]
  <2>1. \A i \in 1..l : s[i] \in S
    BY <1>1
  <2> QED
    BY <2>1, SubSeqProperties
<1>3. all \in Seq(S) /\ Len(all) = l + n /\ \A i \in 1..(l + n) : all[i] = s[i]
  <2>1. \A i \in 1..(l + n) : s[i] \in S
    BY <1>1
  <2>2. l + n \in Int
    OBVIOUS
  <2> QED
    BY <2>1, <2>2, SubSeqProperties
<1>4. next \in Seq(S) /\ Len(next) = n /\ \A i \in 1..n : next[i] = s[l + i]
  <2>1. \A i \in (a + l + 1)..(a + l + n) : w[i] \in S
    BY <1>1
  <2>2. a + l + 1 \in Int /\ a + l + n \in Int
    OBVIOUS
  <2>3. next \in Seq(S) /\ Len(next) = n /\ \A i \in 1..n : next[i] = w[a + l + i]
    BY <2>1, <2>2, SubSeqProperties
  <2>4. ASSUME NEW i \in 1..n PROVE w[a + l + i] = s[l + i]
    <3>1. l + i \in 1..Len(s) /\ a + (l + i) = a + l + i
      BY <1>1
    <3>2. w[a + (l + i)] = s[l + i]
      BY <3>1
    <3> QED
      BY <3>1, <3>2
  <2> QED
    BY <2>3, <2>4
<1> HIDE DEF first, next, all
<1>5. /\ first \o next \in Seq(S) /\ Len(first \o next) = l + n
      /\ \A i \in 1..(l + n) : (first \o next)[i] = IF i <= l THEN first[i] ELSE next[i - l]
  <2>1. /\ first \o next \in Seq(S)
        /\ Len(first \o next) = Len(first) + Len(next)
        /\ \A i \in 1..Len(first) + Len(next) :
             (first \o next)[i] = IF i <= Len(first) THEN first[i] ELSE next[i - Len(first)]
    BY <1>2, <1>4, ConcatProperties, ZenonT(40)
  <2>2. Len(first) = l /\ Len(next) = n
    BY <1>2, <1>4
  <2> QED
    BY <2>1, <2>2, Zenon
<1>6. ASSUME NEW i \in 1..(l + n) PROVE (first \o next)[i] = all[i]
  <2>1. CASE i <= l
    <3>1. (first \o next)[i] = first[i]
      BY <1>5, <2>1
    <3>2. i \in 1..l
      BY <2>1
    <3> QED
      BY <1>2, <1>3, <3>1, <3>2
  <2>2. CASE ~(i <= l)
    <3>1. i - l \in 1..n /\ l + (i - l) = i
      BY <2>2
    <3>2. (first \o next)[i] = next[i - l]
      BY <1>5, <2>2
    <3> QED
      BY <1>3, <1>4, <3>1, <3>2
  <2> QED
    BY <2>1, <2>2
<1>7. first \o next = all
  BY <1>3, <1>5, <1>6, SeqEqual
<1> QED
  BY <1>3, <1>7 DEF first, next, all

\* Appending to a sequence of one element.
LEMMA AppendToOne ==
  ASSUME NEW x, NEW y
  PROVE  Append(<<x>>, y) = <<x, y>>
<1> DEFINE S == {x, y}
<1>1. <<x>> \in Seq(S) /\ Len(<<x>>) = 1 /\ <<x>>[1] = x /\ y \in S
  OBVIOUS
<1>2. <<x, y>> \in Seq(S) /\ Len(<<x, y>>) = 2 /\ <<x, y>>[1] = x /\ <<x, y>>[2] = y
  OBVIOUS
<1> HIDE DEF S
<1>3. /\ Append(<<x>>, y) \in Seq(S)
      /\ Len(Append(<<x>>, y)) = Len(<<x>>) + 1
      /\ \A i \in 1..Len(<<x>>) : Append(<<x>>, y)[i] = <<x>>[i]
      /\ Append(<<x>>, y)[Len(<<x>>) + 1] = y
  BY <1>1, AppendProperties
<1>4. Len(Append(<<x>>, y)) = Len(<<x, y>>) /\ \A i \in 1..2 : Append(<<x>>, y)[i] = <<x, y>>[i]
  BY <1>1, <1>2, <1>3
<1> QED
  BY <1>2, <1>3, <1>4, SeqEqual

\* A prefix is compared element by element.
LEMMA PrefixElements ==
  ASSUME NEW S, NEW s \in Seq(S), NEW t \in Seq(S)
  PROVE  IsPrefix(s, t) <=> Len(s) <= Len(t) /\ \A i \in 1..Len(s) : s[i] = t[i]
<1>1. /\ Len(s) \in Nat /\ Len(t) \in Nat
      /\ \A i \in 1..Len(s) : s[i] \in S
      /\ \A i \in 1..Len(t) : t[i] \in S
  BY LenProperties, ElementOfSeq
<1> SUFFICES ASSUME Len(s) <= Len(t)
             PROVE  SubSeq(s, 1, Len(s)) = SubSeq(t, 1, Len(s)) <=> \A i \in 1..Len(s) : s[i] = t[i]
  BY DEF IsPrefix
<1> DEFINE n == Len(s)
           a == SubSeq(s, 1, n)
           b == SubSeq(t, 1, n)
<1> HIDE DEF n
<1>2. n \in Nat /\ (IF 1 <= n THEN n - 1 + 1 ELSE 0) = n /\ n - 1 + 1 = n /\ n = Len(s)
      /\ \A i \in 1..n : 1 + i - 1 = i
  BY <1>1 DEF n
<1>3. \A i \in 1..n : s[i] \in S /\ t[i] \in S
  BY <1>1, <1>2
<1>4. /\ a \in Seq(S) /\ Len(a) = IF 1 <= n THEN n - 1 + 1 ELSE 0
      /\ \A i \in 1..(n - 1 + 1) : a[i] = s[1 + i - 1]
  BY <1>2, <1>3, SubSeqProperties
<1>5. /\ b \in Seq(S) /\ Len(b) = IF 1 <= n THEN n - 1 + 1 ELSE 0
      /\ \A i \in 1..(n - 1 + 1) : b[i] = t[1 + i - 1]
  BY <1>2, <1>3, SubSeqProperties
<1> HIDE DEF a, b
<1>6. /\ a \in Seq(S) /\ Len(a) = n /\ \A i \in 1..n : a[i] = s[i]
      /\ b \in Seq(S) /\ Len(b) = n /\ \A i \in 1..n : b[i] = t[i]
  BY <1>2, <1>4, <1>5
<1>7. (\A i \in 1..n : s[i] = t[i]) => a = b
  BY <1>6, SeqEqual
<1>8. a = b => \A i \in 1..n : s[i] = t[i]
  BY <1>6
<1>9. a = b <=> \A i \in 1..n : s[i] = t[i]
  BY <1>7, <1>8
<1> QED
  BY <1>9 DEF a, b, n

\* The n elements behind place a.
LEMMA PartFacts ==
  ASSUME NEW S, NEW s \in Seq(S), NEW a \in Nat, NEW n \in Nat, a + n <= Len(s)
  PROVE  /\ SubSeq(s, a + 1, a + n) \in Seq(S)
         /\ Len(SubSeq(s, a + 1, a + n)) = n
         /\ \A i \in 1..n : SubSeq(s, a + 1, a + n)[i] = s[a + i]
<1> DEFINE b == a + 1
           e == a + n
           t == SubSeq(s, b, e)
<1>1. Len(s) \in Nat /\ \A i \in 1..Len(s) : s[i] \in S
  BY LenProperties, ElementOfSeq
<1>2. /\ b \in Int /\ e \in Int /\ \A i \in b..e : i \in 1..Len(s)
      /\ (IF b <= e THEN e - b + 1 ELSE 0) = n /\ e - b + 1 = n
      /\ \A i \in 1..n : b + i - 1 = a + i
  BY <1>1
<1> HIDE DEF b, e
<1>3. /\ t \in Seq(S) /\ Len(t) = IF b <= e THEN e - b + 1 ELSE 0
      /\ \A i \in 1..(e - b + 1) : t[i] = s[b + i - 1]
  BY <1>1, <1>2, SubSeqProperties
<1> HIDE DEF t
<1>4. t \in Seq(S) /\ Len(t) = n /\ \A i \in 1..n : t[i] = s[a + i]
  BY <1>2, <1>3
<1> QED
  BY <1>4 DEF t, b, e
=============================================================================
