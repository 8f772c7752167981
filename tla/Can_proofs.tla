------------------------------- MODULE Can_proofs -------------------------------
(***************************************************************************)
(* The first CAN driver's transmit queue and table of callbacks, for any   *)
(* number of handles, mailboxes and calls; then the road of a frame        *)
(* between two nodes of the second one, for any filters, frames and        *)
(* arrivals.                                                               *)
(***************************************************************************)
EXTENDS LegacyCan, CanLink, SequenceTheorems, FiniteSetTheorems, WellFoundedInduction, TLAPS

-----------------------------------------------------------------------------
(* Sequences of frames. *)

Distinct(s) == \A i, j \in DOMAIN s : i # j => s[i] # s[j]
Rising(s) == \A i, j \in DOMAIN s : i < j => s[i] < s[j]

(* How many frames a sequence has, and how many different ones.            *)
LEMMA ElementsCount ==
  ASSUME NEW S, NEW s \in Seq(S)
  PROVE  /\ IsFiniteSet(Elements(s)) /\ Cardinality(Elements(s)) \in Nat
         /\ Cardinality(Elements(s)) <= Len(s)
         /\ Distinct(s) => Cardinality(Elements(s)) = Len(s)
  <1>1. Len(s) \in Nat /\ DOMAIN s = 1 .. Len(s) /\ s \in [1 .. Len(s) -> S]
    BY LenProperties
  <1>2. s \in Surjection(1 .. Len(s), Elements(s))
    BY <1>1 DEF Surjection, Elements
  <1>3. IsFiniteSet(1 .. Len(s)) /\ Cardinality(1 .. Len(s)) = Len(s)
    BY <1>1, FS_Interval
  <1>4. /\ IsFiniteSet(Elements(s)) /\ Cardinality(Elements(s)) <= Len(s)
        /\ Cardinality(Elements(s)) = Len(s) <=> s \in Injection(1 .. Len(s), Elements(s))
    BY <1>2, <1>3, FS_Surjection
  <1>5. Cardinality(Elements(s)) \in Nat
    BY <1>4, FS_CardinalityType
  <1>6. ASSUME Distinct(s) PROVE s \in Injection(1 .. Len(s), Elements(s))
    <2>1. s \in [1 .. Len(s) -> Elements(s)]
      BY <1>2 DEF Surjection
    <2>2. \A a, b \in 1 .. Len(s) : s[a] = s[b] => a = b
      BY <1>1, <1>6 DEF Distinct
    <2>. QED BY <2>1, <2>2 DEF Injection, IsInjective
  <1>. QED BY <1>4, <1>5, <1>6

(* The i-th frame of t is the p[i]-th of s: some of s were taken out.      *)
Picks(p, s, t) ==
  /\ \A i \in DOMAIN t : i \in Int /\ p[i] \in DOMAIN s \cap Int /\ t[i] = s[p[i]]
  /\ \A i, j \in DOMAIN t : i < j => p[i] < p[j]

(* A sequence that keeps some of the entries keeps their order. *)
LEMMA Thinned ==
  ASSUME NEW p, NEW s, NEW t, Picks(p, s, t)
  PROVE  /\ Elements(t) \subseteq Elements(s)
         /\ Distinct(s) => Distinct(t)
         /\ Rising(s) => Rising(t)
  <1>1. Elements(t) \subseteq Elements(s)
    BY DEF Elements, Picks
  <1>2. ASSUME Distinct(s), NEW i \in DOMAIN t, NEW j \in DOMAIN t, i # j
        PROVE  t[i] # t[j]
    <2>1. i < j \/ j < i
      BY <1>2 DEF Picks
    <2>2. p[i] \in Int /\ p[j] \in Int /\ p[i] # p[j]
      BY <2>1 DEF Picks
    <2>. QED BY <1>2, <2>2 DEF Distinct, Picks
  <1>3. ASSUME Rising(s), NEW i \in DOMAIN t, NEW j \in DOMAIN t, i < j
        PROVE  t[i] < t[j]
    BY <1>3 DEF Rising, Picks
  <1>. QED BY <1>1, <1>2, <1>3 DEF Distinct, Rising

(* t is s without its frame behind the k-th.                               *)
Without(m, s, k, t) ==
  /\ m \in Nat /\ s \in [1 .. (m + 1) -> Nat] /\ t \in [1 .. m -> Nat] /\ k \in 0 .. m
  /\ \A i \in 1 .. m : t[i] = IF i <= k THEN s[i] ELSE s[i + 1]

(* What one entry taken out leaves. *)
LEMMA TakenOut ==
  ASSUME NEW m, NEW s, NEW k, NEW t, Without(m, s, k, t), Distinct(s)
  PROVE  /\ Elements(t) = Elements(s) \ {s[k + 1]} /\ s[k + 1] \in Elements(s)
         /\ Distinct(t)
         /\ Rising(s) => Rising(t)
  <1>. USE DEF Without
  <1>. DEFINE p == [i \in 1 .. m |-> IF i <= k THEN i ELSE i + 1]
  <1>1. /\ p \in [1 .. m -> 1 .. (m + 1)] /\ \A i \in 1 .. m : t[i] = s[p[i]] /\ p[i] # k + 1
        /\ \A i, j \in 1 .. m : i < j => p[i] < p[j]
    OBVIOUS
  <1>2. \A i \in 1 .. (m + 1) : i # k + 1 => \E j \in 1 .. m : p[j] = i
    <2>. SUFFICES ASSUME NEW i \in 1 .. (m + 1), i # k + 1
                  PROVE  \E j \in 1 .. m : p[j] = i
      OBVIOUS
    <2>1. CASE i <= k
      <3>1. i \in 1 .. m /\ p[i] = i
        BY <2>1
      <3>. QED BY <3>1
    <2>2. CASE i > k + 1
      <3>1. i - 1 \in 1 .. m /\ p[i - 1] = i
        BY <2>2
      <3>. QED BY <3>1
    <2>. QED BY <2>1, <2>2
  <1>. HIDE DEF p
  <1>3. /\ Elements(t) \subseteq Elements(s)
        /\ Distinct(s) => Distinct(t)
        /\ Rising(s) => Rising(t)
    <2>1. Picks(p, s, t)
      BY <1>1 DEF Picks
    <2>. QED BY <2>1, Thinned
  <1>4. DOMAIN s = 1 .. (m + 1) /\ DOMAIN t = 1 .. m /\ k + 1 \in 1 .. (m + 1)
    OBVIOUS
  <1>5. s[k + 1] \notin Elements(t)
    <2>1. \A i \in 1 .. m : p[i] \in 1 .. (m + 1) /\ s[p[i]] # s[k + 1]
      BY <1>1, <1>4 DEF Distinct
    <2>. QED BY <1>1, <1>4, <2>1 DEF Elements
  <1>6. \A x \in Elements(s) : x # s[k + 1] => x \in Elements(t)
    <2>. SUFFICES ASSUME NEW i \in 1 .. (m + 1), s[i] # s[k + 1] PROVE s[i] \in Elements(t)
      BY <1>4 DEF Elements
    <2>1. PICK j \in 1 .. m : p[j] = i
      BY <1>2
    <2>. QED BY <1>1, <1>4, <2>1 DEF Elements
  <1>. QED BY <1>3, <1>4, <1>5, <1>6 DEF Elements

(* t is s with n behind its k-th frame, and n is newer than all of them.   *)
With(m, s, k, n, t) ==
  /\ m \in Nat /\ s \in [1 .. m -> Nat] /\ t \in [1 .. (m + 1) -> Nat] /\ k \in 0 .. m
  /\ n \in Nat /\ \A i \in 1 .. m : s[i] < n
  /\ \A i \in 1 .. (m + 1) :
       t[i] = IF i <= k THEN s[i] ELSE IF i = k + 1 THEN n ELSE s[i - 1]

(* What one new entry changes; at the end it keeps the order. *)
LEMMA Inserted ==
  ASSUME NEW m, NEW s, NEW k, NEW n, NEW t, With(m, s, k, n, t)
  PROVE  /\ Elements(t) = Elements(s) \cup {n}
         /\ Distinct(s) => Distinct(t)
         /\ k = m /\ Rising(s) => Rising(t)
  <1>. USE DEF With
  <1>1. \A i \in 1 .. m : \E j \in 1 .. (m + 1) : t[j] = s[i]
    <2>. TAKE i \in 1 .. m
    <2>1. CASE i <= k
      BY <2>1
    <2>2. CASE i > k
      <3>1. i + 1 \in 1 .. (m + 1) /\ t[i + 1] = s[i]
        BY <2>2
      <3>. QED BY <3>1
    <2>. QED BY <2>1, <2>2
  <1>2. k + 1 \in 1 .. (m + 1) /\ t[k + 1] = n
    OBVIOUS
  <1>3. /\ DOMAIN s = 1 .. m /\ DOMAIN t = 1 .. (m + 1)
        /\ \A i \in 1 .. m : s[i] \in Nat
    OBVIOUS
  <1>4. \A i \in 1 .. (m + 1) : t[i] = n \/ \E j \in 1 .. m : t[i] = s[j]
    <2>. TAKE i \in 1 .. (m + 1)
    <2>1. CASE i <= k
      BY <2>1
    <2>2. CASE i = k + 1
      BY <2>2
    <2>3. CASE i > k + 1
      <3>1. i - 1 \in 1 .. m /\ t[i] = s[i - 1]
        BY <2>3
      <3>. QED BY <3>1
    <2>. QED BY <2>1, <2>2, <2>3
  <1>5. Elements(t) = Elements(s) \cup {n}
    BY <1>1, <1>2, <1>3, <1>4 DEF Elements
  <1>6. ASSUME Distinct(s), NEW i \in 1 .. (m + 1), NEW j \in 1 .. (m + 1), i < j
        PROVE  t[i] # t[j]
    <2>1. \A a, b \in 1 .. m : a # b => s[a] # s[b]
      BY <1>3, <1>6 DEF Distinct
    <2>2. CASE i = k + 1 \/ j = k + 1
      <3>1. CASE i = k + 1
        <4>1. j - 1 \in 1 .. m /\ t[j] = s[j - 1]
          BY <1>6, <3>1
        <4>2. s[j - 1] < n /\ s[j - 1] \in Nat
          BY <4>1
        <4>. QED BY <1>2, <3>1, <4>1, <4>2
      <3>2. CASE j = k + 1
        <4>1. i \in 1 .. m /\ t[i] = s[i]
          BY <1>6, <3>2
        <4>2. s[i] < n /\ s[i] \in Nat
          BY <4>1
        <4>. QED BY <1>2, <3>2, <4>1, <4>2
      <3>. QED BY <2>2, <3>1, <3>2
    <2>3. CASE i # k + 1 /\ j # k + 1
      <3>. DEFINE a == IF i <= k THEN i ELSE i - 1
                  b == IF j <= k THEN j ELSE j - 1
      <3>1. a \in 1 .. m /\ b \in 1 .. m /\ a # b /\ t[i] = s[a] /\ t[j] = s[b]
        BY <1>6, <2>3
      <3>. HIDE DEF a, b
      <3>. QED BY <2>1, <3>1
    <2>. QED BY <2>2, <2>3
  <1>7. Distinct(s) => Distinct(t)
    <2>. SUFFICES ASSUME Distinct(s), NEW i \in 1 .. (m + 1), NEW j \in 1 .. (m + 1), i # j
                  PROVE  t[i] # t[j]
      BY <1>3 DEF Distinct
    <2>1. CASE i < j
      BY <1>6, <2>1
    <2>2. CASE j < i
      BY <1>6, <2>2
    <2>. QED BY <2>1, <2>2
  <1>8. ASSUME k = m, Rising(s) PROVE Rising(t)
    <2>1. \A i \in 1 .. m : t[i] = s[i]
      BY <1>8
    <2>2. \A i, j \in 1 .. m : i < j => s[i] < s[j]
      BY <1>3, <1>8 DEF Rising
    <2>. SUFFICES ASSUME NEW i \in 1 .. (m + 1), NEW j \in 1 .. (m + 1), i < j
                  PROVE  t[i] < t[j]
      BY <1>3 DEF Rising
    <2>3. CASE j <= m
      BY <2>1, <2>2, <2>3
    <2>4. CASE j = m + 1
      BY <1>2, <1>8, <2>1, <2>4
    <2>. QED BY <2>3, <2>4
  <1>. QED BY <1>5, <1>7, <1>8

(* What of s there is room for, and the rest of it, are s.                 *)
LEMMA MovedAndRest ==
  ASSUME NEW h, NEW s \in Seq(Nat), Free(h) \in Nat
  PROVE  /\ Moved(h, s) \in Seq(Nat) /\ Rest(h, s) \in Seq(Nat)
         /\ Len(Moved(h, s)) <= Free(h) /\ Len(Rest(h, s)) <= Len(s)
         /\ Moved(h, s) \o Rest(h, s) = s
  <1>. DEFINE m == Min({Len(s), Free(h)})
  <1>1. Len(s) \in Nat
    OBVIOUS
  <1>2. m \in 0 .. Len(s) /\ m <= Free(h)
    BY <1>1 DEF Min
  <1>. HIDE DEF m
  <1>3. /\ Moved(h, s) = SubSeq(s, 1, m) /\ Rest(h, s) = SubSeq(s, m + 1, Len(s))
    BY DEF Moved, Rest, m
  <1>4. /\ SubSeq(s, 1, m) \in Seq(Nat) /\ Len(SubSeq(s, 1, m)) = m
        /\ SubSeq(s, m + 1, Len(s)) \in Seq(Nat) /\ Len(SubSeq(s, m + 1, Len(s))) = Len(s) - m
    BY <1>1, <1>2, SubSeqProperties
  <1>5. SubSeq(s, 1, m) \o SubSeq(s, m + 1, Len(s)) = SubSeq(s, 1, Len(s))
    <2>1. 1 \in 1 .. Len(s) + 1 /\ m \in 1 - 1 .. Len(s) /\ Len(s) \in m .. Len(s)
      BY <1>1, <1>2
    <2>. QED BY <2>1, ConcatAdjacentSubSeq
  <1>6. SubSeq(s, 1, Len(s)) = s
    BY SubSeqFull
  <1>7. /\ Len(Moved(h, s)) <= Free(h) /\ Len(Rest(h, s)) <= Len(s)
        /\ Moved(h, s) \in Seq(Nat) /\ Rest(h, s) \in Seq(Nat)
    <2>1. m \in Nat /\ m <= Free(h) /\ Len(s) - m <= Len(s)
      BY <1>1, <1>2
    <2>. QED BY <1>3, <1>4, <2>1
  <1>. QED BY <1>3, <1>5, <1>6, <1>7

(* A line's frames are those of its two halves. *)
LEMMA ConcatElements ==
  ASSUME NEW S, NEW s \in Seq(S), NEW t \in Seq(S)
  PROVE  Elements(s \o t) = Elements(s) \cup Elements(t)
  <1>1. /\ Len(s) \in Nat /\ Len(t) \in Nat /\ DOMAIN s = 1 .. Len(s) /\ DOMAIN t = 1 .. Len(t)
        /\ DOMAIN (s \o t) = 1 .. (Len(s) + Len(t))
        /\ \A i \in 1 .. (Len(s) + Len(t)) :
             (s \o t)[i] = IF i <= Len(s) THEN s[i] ELSE t[i - Len(s)]
    BY LenProperties, ConcatProperties
  <1>2. \A i \in 1 .. Len(s) : i \in DOMAIN (s \o t) /\ (s \o t)[i] = s[i]
    BY <1>1
  <1>3. \A i \in 1 .. Len(t) : i + Len(s) \in DOMAIN (s \o t) /\ (s \o t)[i + Len(s)] = t[i]
    BY <1>1
  <1>4. \A i \in DOMAIN (s \o t) :
          (s \o t)[i] \in {s[j] : j \in DOMAIN s} \cup {t[j] : j \in DOMAIN t}
    <2>. TAKE i \in DOMAIN (s \o t)
    <2>1. CASE i <= Len(s)
      BY <1>1, <2>1
    <2>2. CASE i > Len(s)
      <3>1. i - Len(s) \in DOMAIN t /\ (s \o t)[i] = t[i - Len(s)]
        BY <1>1, <2>2
      <3>. QED BY <3>1
    <2>. QED BY <1>1, <2>1, <2>2
  <1>5. Elements(s \o t) \subseteq Elements(s) \cup Elements(t)
    BY <1>4 DEF Elements
  <1>6. Elements(s) \subseteq Elements(s \o t)
    BY <1>1, <1>2 DEF Elements
  <1>7. Elements(t) \subseteq Elements(s \o t)
    BY <1>1, <1>3 DEF Elements
  <1>. QED BY <1>5, <1>6, <1>7

(* s is a, k long, and behind it q, l long. *)
Joined(k, a, l, q, s) ==
  /\ k \in Nat /\ l \in Nat
  /\ a \in [1 .. k -> Nat] /\ q \in [1 .. l -> Nat] /\ s \in [1 .. (k + l) -> Nat]
  /\ \A i \in 1 .. (k + l) : s[i] = IF i <= k THEN a[i] ELSE q[i - k]

(* A concatenation is its first half, then the second. *)
LEMMA Concatenated ==
  ASSUME NEW a \in Seq(Nat), NEW q \in Seq(Nat)
  PROVE  Joined(Len(a), a, Len(q), q, a \o q)
  <1>. DEFINE s == a \o q
  <1>1. /\ s \in Seq(Nat) /\ Len(s) = Len(a) + Len(q)
        /\ \A i \in 1 .. (Len(a) + Len(q)) : s[i] = IF i <= Len(a) THEN a[i] ELSE q[i - Len(a)]
    BY ConcatProperties
  <1>. HIDE DEF s
  <1>2. s \in [1 .. (Len(a) + Len(q)) -> Nat]
    BY <1>1, LenProperties
  <1>3. /\ Len(a) \in Nat /\ Len(q) \in Nat
        /\ a \in [1 .. Len(a) -> Nat] /\ q \in [1 .. Len(q) -> Nat]
    BY LenProperties
  <1>4. Joined(Len(a), a, Len(q), q, s)
    BY <1>1, <1>2, <1>3 DEF Joined
  <1>. QED BY <1>4 DEF s

(* What happens to a line a \o q of frames handed over and frames that wait: *)
(* the newest frame joins at the end, or between the two, or the oldest that *)
(* waits is taken out.                                                       *)
Newest(n, s) == n \in Nat /\ \A x \in Elements(s) : x < n

(* A new frame queued: last of the line. *)
LEMMA JoinsAtTheEnd ==
  ASSUME NEW a \in Seq(Nat), NEW q \in Seq(Nat), NEW n, Newest(n, a \o q)
  PROVE  /\ Elements(a \o Append(q, n)) = Elements(a \o q) \cup {n}
         /\ Distinct(a \o q) => Distinct(a \o Append(q, n))
         /\ Rising(a \o q) => Rising(a \o Append(q, n))
  <1>. DEFINE k == Len(a)
              l == Len(q)
              r == Append(q, n)
              s == a \o q
              t == a \o r
  <1>1. /\ r \in Seq(Nat) /\ Len(r) = l + 1
        /\ \A i \in 1 .. (l + 1) : r[i] = IF i <= l THEN q[i] ELSE n
    <2>1. n \in Nat
      BY DEF Newest
    <2>. QED BY <2>1, AppendProperties
  <1>. HIDE DEF r
  <1>2. Joined(k, a, l, q, s) /\ Joined(k, a, l + 1, r, t) /\ Newest(n, s)
    <2>1. Joined(k, a, Len(r), r, t)
      BY <1>1, Concatenated
    <2>. QED BY <1>1, <2>1, Concatenated
  <1>. HIDE DEF k, l, s, t
  <1>3. k + l \in Nat /\ (k + l) + 1 = k + (l + 1) /\ k + l \in 0 .. (k + l)
    BY <1>2 DEF Joined
  <1>4. n \in Nat /\ \A i \in 1 .. (k + l) : s[i] < n
    BY <1>2 DEF Joined, Newest, Elements
  <1>5. \A i \in 1 .. (k + l) + 1 : t[i] = IF i <= k + l THEN s[i] ELSE n
    <2>. SUFFICES ASSUME NEW i \in 1 .. (k + l) + 1
                  PROVE  t[i] = IF i <= k + l THEN s[i] ELSE n
      OBVIOUS
    <2>1. CASE i <= k
      BY <1>2, <2>1 DEF Joined
    <2>2. CASE i > k
      <3>1. i - k \in 1 .. (l + 1) /\ (i - k <= l <=> i <= k + l) /\ t[i] = r[i - k]
        BY <1>2, <2>2 DEF Joined
      <3>2. i <= k + l => s[i] = q[i - k]
        BY <1>2, <2>2 DEF Joined
      <3>. QED BY <1>1, <3>1, <3>2
    <2>. QED BY <1>2, <2>1, <2>2 DEF Joined
  <1>6. With(k + l, s, k + l, n, t)
    <2>1. s \in [1 .. (k + l) -> Nat] /\ t \in [1 .. (k + l) + 1 -> Nat]
      BY <1>2, <1>3 DEF Joined
    <2>. QED BY <1>3, <1>4, <1>5, <2>1 DEF With
  <1>7. /\ Elements(t) = Elements(s) \cup {n}
        /\ Distinct(s) => Distinct(t)
        /\ k + l = k + l /\ Rising(s) => Rising(t)
    BY <1>6, Inserted
  <1>. QED BY <1>7 DEF s, t, r

(* A new frame handed to the hardware passes those queued, if any are. *)
LEMMA JoinsBetween ==
  ASSUME NEW a \in Seq(Nat), NEW q \in Seq(Nat), NEW n, Newest(n, a \o q)
  PROVE  /\ Elements((a \o <<n>>) \o q) = Elements(a \o q) \cup {n}
         /\ Distinct(a \o q) => Distinct((a \o <<n>>) \o q)
         /\ q = <<>> /\ Rising(a \o q) => Rising((a \o <<n>>) \o q)
  <1>. DEFINE k == Len(a)
              l == Len(q)
              o == <<n>>
              b == a \o o
              s == a \o q
              t == b \o q
  <1>1. n \in Nat /\ o \in Seq(Nat) /\ Len(o) = 1 /\ o[1] = n
    BY DEF Newest
  <1>2. q = <<>> => l = 0
    OBVIOUS
  <1>. HIDE DEF o
  <1>3. b \in Seq(Nat) /\ Len(b) = k + 1 /\ Joined(k, a, 1, o, b)
    <2>1. Joined(k, a, Len(o), o, b)
      BY <1>1, Concatenated
    <2>2. b \in Seq(Nat) /\ Len(b) = Len(a) + Len(o)
      BY <1>1, ConcatProperties
    <2>. HIDE DEF b
    <2>. QED BY <1>1, <2>1, <2>2
  <1>. HIDE DEF b
  <1>4. Joined(k, a, l, q, s) /\ Joined(k + 1, b, l, q, t) /\ Newest(n, s)
    <2>1. Joined(Len(b), b, l, q, t)
      BY <1>3, Concatenated
    <2>. QED BY <1>3, <2>1, Concatenated
  <1>. HIDE DEF k, l, s, t
  <1>5. k + l \in Nat /\ (k + l) + 1 = (k + 1) + l /\ k \in 0 .. (k + l) /\ (l = 0 => k = k + l)
    BY <1>4 DEF Joined
  <1>6. \A i \in 1 .. (k + l) : s[i] < n
    BY <1>4 DEF Joined, Newest, Elements
  <1>7. \A i \in 1 .. (k + l) + 1 :
          t[i] = IF i <= k THEN s[i] ELSE IF i = k + 1 THEN n ELSE s[i - 1]
    <2>. SUFFICES ASSUME NEW i \in 1 .. (k + l) + 1
                  PROVE  t[i] = IF i <= k THEN s[i] ELSE IF i = k + 1 THEN n ELSE s[i - 1]
      OBVIOUS
    <2>1. CASE i <= k
      <3>1. t[i] = b[i] /\ b[i] = a[i] /\ s[i] = a[i]
        BY <1>3, <1>4, <2>1 DEF Joined
      <3>. QED BY <2>1, <3>1
    <2>2. CASE i = k + 1
      <3>1. t[i] = b[i] /\ b[i] = o[1]
        BY <1>3, <1>4, <2>2 DEF Joined
      <3>. QED BY <1>1, <1>4, <2>2, <3>1 DEF Joined
    <2>3. CASE i > k + 1
      <3>1. i - 1 \in 1 .. (k + l) /\ i - 1 > k /\ (i - 1) - k = i - (k + 1)
        BY <1>4, <2>3 DEF Joined
      <3>2. s[i - 1] = q[(i - 1) - k]
        BY <1>4, <3>1 DEF Joined
      <3>3. t[i] = q[i - (k + 1)]
        BY <1>4, <2>3 DEF Joined
      <3>. QED BY <1>4, <2>3, <3>1, <3>2, <3>3 DEF Joined
    <2>. QED BY <1>4, <2>1, <2>2, <2>3 DEF Joined
  <1>8. With(k + l, s, k, n, t)
    <2>1. s \in [1 .. (k + l) -> Nat] /\ t \in [1 .. (k + l) + 1 -> Nat]
      BY <1>4, <1>5 DEF Joined
    <2>. QED BY <1>1, <1>5, <1>6, <1>7, <2>1 DEF With
  <1>9. /\ Elements(t) = Elements(s) \cup {n}
        /\ Distinct(s) => Distinct(t)
        /\ k = k + l /\ Rising(s) => Rising(t)
    BY <1>8, Inserted
  <1>. QED BY <1>2, <1>5, <1>9 DEF s, t, b, o

(* The oldest frame of a full queue is replaced by the new one. *)
LEMMA OldestOut ==
  ASSUME NEW a \in Seq(Nat), NEW q \in Seq(Nat), q # <<>>, Distinct(a \o q)
  PROVE  /\ Tail(q) \in Seq(Nat) /\ Head(q) \in Elements(a \o q)
         /\ Elements(a \o Tail(q)) = Elements(a \o q) \ {Head(q)}
         /\ Distinct(a \o Tail(q))
         /\ Rising(a \o q) => Rising(a \o Tail(q))
  <1>. DEFINE k == Len(a)
              l == Len(q) - 1
              r == Tail(q)
              s == a \o q
              t == a \o r
  <1>1. /\ l \in Nat /\ Len(q) = l + 1 /\ Head(q) = q[1]
        /\ r \in Seq(Nat) /\ Len(r) = l /\ \A i \in 1 .. l : r[i] = q[i + 1]
    <2>1. Len(q) \in Nat \ {0} /\ Head(q) = q[1]
      OBVIOUS
    <2>. QED BY <2>1, HeadTailProperties
  <1>. HIDE DEF r
  <1>2. Joined(k, a, l + 1, q, s) /\ Joined(k, a, l, r, t) /\ Distinct(s)
    <2>1. Joined(k, a, Len(q), q, s) /\ Joined(k, a, Len(r), r, t)
      BY <1>1, Concatenated
    <2>. QED BY <1>1, <2>1
  <1>. HIDE DEF k, l, s, t
  <1>3. /\ k + l \in Nat /\ (k + l) + 1 = k + (l + 1) /\ k \in 0 .. (k + l)
        /\ s[k + 1] = q[1]
    BY <1>2 DEF Joined
  <1>4. \A i \in 1 .. (k + l) : t[i] = IF i <= k THEN s[i] ELSE s[i + 1]
    <2>. SUFFICES ASSUME NEW i \in 1 .. (k + l)
                  PROVE  t[i] = IF i <= k THEN s[i] ELSE s[i + 1]
      OBVIOUS
    <2>1. CASE i <= k
      BY <1>2, <2>1 DEF Joined
    <2>2. CASE i > k
      <3>1. i - k \in 1 .. l /\ (i - k) + 1 = (i + 1) - k /\ t[i] = r[i - k]
        BY <1>2, <2>2 DEF Joined
      <3>2. s[i + 1] = q[(i + 1) - k]
        BY <1>2, <2>2 DEF Joined
      <3>3. r[i - k] = q[(i - k) + 1]
        BY <1>1, <3>1
      <3>. QED BY <1>2, <2>2, <3>1, <3>2, <3>3 DEF Joined
    <2>. QED BY <1>2, <2>1, <2>2 DEF Joined
  <1>5. Without(k + l, s, k, t)
    <2>1. s \in [1 .. (k + l) + 1 -> Nat] /\ t \in [1 .. (k + l) -> Nat]
      BY <1>2, <1>3 DEF Joined
    <2>. QED BY <1>3, <1>4, <2>1 DEF Without
  <1>6. /\ Elements(t) = Elements(s) \ {s[k + 1]} /\ s[k + 1] \in Elements(s)
        /\ Distinct(t)
        /\ Rising(s) => Rising(t)
    BY <1>2, <1>5, TakenOut
  <1>. QED BY <1>1, <1>3, <1>6 DEF s, t, r

-----------------------------------------------------------------------------
(* The first CAN driver.                                                   *)

(* The frames of a handle in the order in which they leave, or will.       *)
Line(h) == handed[h] \o queue[h]
OfLine(h) == Elements(Line(h))

TxTypes ==
  /\ chosen \in DOMAIN Uses /\ sends \in Nat
  /\ queue \in [Handles -> Seq(Nat)] /\ handed \in [Handles -> Seq(Nat)]
  /\ \A h \in Handles : Len(queue[h]) <= QueueSize
  /\ slots \in [Handles -> SUBSET Nat]
  /\ \A h \in Handles : IsFiniteSet(slots[h]) /\ Cardinality(slots[h]) <= Slots
  /\ reply \in Seq({"sent", "CAN_SEND_FAILED"}) /\ Len(reply) = sends

Gone == replaced \cup lost

(* A call's frame is in one line, once, or is gone, and nowhere else. *)
OneLineEach ==
  /\ \A h \in Handles : Distinct(Line(h)) /\ OfLine(h) \subseteq 1 .. sends
  /\ \A g, h \in Handles : g # h => OfLine(g) \cap OfLine(h) = {}
  /\ Gone \subseteq 1 .. sends /\ \A h \in Handles : OfLine(h) \cap Gone = {}
  /\ \A f \in Accepted : f \in Gone \/ \E h \in Handles : f \in OfLine(h)
  /\ OnFdcan => \A h \in Handles : Rising(Line(h))

(* One frame is lost at the most, and that is the end. *)
LostOnce ==
  /\ replaced \cap lost = {}
  /\ lost # {} => stopped = "Error_Handler" /\ \E f \in lost : lost = {f}

TxInv == TxTypes /\ OneLineEach /\ LostOnce

(* Free slots can be counted. *)
LEMMA RoomIsNat == ASSUME TxTypes, NEW h \in Handles PROVE Free(h) \in Nat
  <1>1. IsFiniteSet(slots[h]) /\ Cardinality(slots[h]) <= Slots /\ Slots \in Nat
    BY LegacyAssumption DEF TxTypes
  <1>2. Cardinality(slots[h]) \in Nat
    BY <1>1, FS_CardinalityType
  <1>. QED BY <1>1, <1>2 DEF Free

(* The hardware takes what it has room for. *)
LEMMA HandedOver ==
  ASSUME TxTypes, NEW h \in Handles, NEW s \in Seq(Nat), Len(s) <= Free(h), HandOver(h, s)
  PROVE  /\ handed' \in [Handles -> Seq(Nat)] /\ handed'[h] = handed[h] \o s
         /\ \A g \in Handles \ {h} : handed'[g] = handed[g]
         /\ slots' \in [Handles -> SUBSET Nat]
         /\ \A g \in Handles : IsFiniteSet(slots'[g]) /\ Cardinality(slots'[g]) <= Slots
  <1>1. /\ handed' \in [Handles -> Seq(Nat)] /\ handed'[h] = handed[h] \o s
        /\ \A g \in Handles \ {h} : handed'[g] = handed[g]
    <2>1. handed[h] \o s \in Seq(Nat)
      BY DEF TxTypes
    <2>. QED BY <2>1 DEF HandOver, TxTypes
  <1>2. /\ slots' = [slots EXCEPT ![h] = slots[h] \cup Elements(s)]
        /\ Elements(s) \subseteq Nat
    BY DEF HandOver, Elements
  <1>3. slots' \in [Handles -> SUBSET Nat]
    BY <1>2 DEF TxTypes
  <1>4. IsFiniteSet(slots[h]) /\ Cardinality(slots[h]) \in Nat
    BY FS_CardinalityType DEF TxTypes
  <1>5. /\ IsFiniteSet(Elements(s)) /\ Cardinality(Elements(s)) \in Nat
        /\ Cardinality(Elements(s)) <= Len(s) /\ Len(s) \in Nat
    BY ElementsCount, LenProperties
  <1>6. /\ IsFiniteSet(slots[h] \cap Elements(s))
        /\ Cardinality(slots[h] \cap Elements(s)) \in Nat
    <2>1. IsFiniteSet(slots[h] \cap Elements(s))
      BY <1>4, FS_Intersection
    <2>. QED BY <2>1, FS_CardinalityType
  <1>7. /\ IsFiniteSet(slots[h] \cup Elements(s))
        /\ Cardinality(slots[h] \cup Elements(s))
             = Cardinality(slots[h]) + Cardinality(Elements(s))
                 - Cardinality(slots[h] \cap Elements(s))
    BY <1>4, <1>5, FS_Union
  <1>8. Cardinality(slots[h] \cup Elements(s)) <= Slots
    BY <1>4, <1>5, <1>6, <1>7, LegacyAssumption DEF Free
  <1>9. \A g \in Handles : IsFiniteSet(slots'[g]) /\ Cardinality(slots'[g]) <= Slots
    BY <1>2, <1>7, <1>8 DEF TxTypes
  <1>. QED BY <1>1, <1>3, <1>9

(* A step at which only the line of h changes: the frames N, of this call if *)
(* any, join it, and the frames D leave it, having been replaced or lost.    *)
LineStep(h, D, N) ==
  /\ sends' \in {sends, sends + 1} /\ N \subseteq {sends + 1} /\ (N # {} => sends' = sends + 1)
  /\ D \subseteq OfLine(h) \cup N
  /\ \A g \in Handles \ {h} : Line(g)' = Line(g)
  /\ OfLine(h)' = (OfLine(h) \cup N) \ D
  /\ Gone' = Gone \cup D
  /\ Accepted' \subseteq Accepted \cup N
  /\ Distinct(Line(h)') /\ build' = build /\ (OnFdcan => Rising(Line(h)'))

(* One line changes by a frame that left it, a new one, or both. *)
LEMMA LinesStep ==
  ASSUME OneLineEach, sends \in Nat, NEW h \in Handles, NEW D, NEW N, LineStep(h, D, N)
  PROVE  OneLineEach'
  <1>. DEFINE gone == Gone
              goneNext == Gone'
  <1>0. goneNext = gone \cup D /\ D \subseteq OfLine(h) \cup N
    BY DEF LineStep
  <1>. USE DEF LineStep
  <1>1. /\ \A g \in Handles \ {h} : OfLine(g)' = OfLine(g) /\ Line(g)' = Line(g)
        /\ OfLine(h)' = (OfLine(h) \cup N) \ D
    BY DEF OfLine
  <1>2. 1 .. sends \subseteq (1 .. sends)' /\ N \subseteq (1 .. sends)' /\ N \cap 1 .. sends = {}
    OBVIOUS
  <1>3. /\ \A g \in Handles : OfLine(g) \subseteq 1 .. sends /\ OfLine(g) \cap gone = {}
        /\ \A f, g \in Handles : f # g => OfLine(f) \cap OfLine(g) = {}
        /\ gone \subseteq 1 .. sends
        /\ \A f \in Accepted : f \in gone \/ \E g \in Handles : f \in OfLine(g)
    BY DEF OneLineEach
  <1>. HIDE DEF gone, goneNext
  <1>4. \A g \in Handles : Distinct(Line(g)') /\ OfLine(g)' \subseteq (1 .. sends)'
    <2>1. \A g \in Handles : Distinct(Line(g))
      BY DEF OneLineEach
    <2>2. \A g \in Handles : Distinct(Line(g)')
      BY <1>1, <2>1
    <2>3. \A g \in Handles : OfLine(g)' \subseteq (1 .. sends)'
      <3>1. OfLine(h)' \subseteq (1 .. sends)'
        BY <1>1, <1>2, <1>3
      <3>2. \A g \in Handles \ {h} : OfLine(g)' \subseteq (1 .. sends)'
        BY <1>1, <1>2, <1>3
      <3>. QED BY <3>1, <3>2
    <2>. QED BY <2>2, <2>3
  <1>5. \A f, g \in Handles : f # g => OfLine(f)' \cap OfLine(g)' = {}
    BY <1>1, <1>2, <1>3
  <1>6. goneNext \subseteq (1 .. sends)' /\ \A g \in Handles : OfLine(g)' \cap goneNext = {}
    <2>1. \A g \in Handles \ {h} : OfLine(g)' \cap goneNext = {}
      BY <1>0, <1>1, <1>2, <1>3
    <2>2. OfLine(h)' \cap goneNext = {}
      BY <1>0, <1>1, <1>2, <1>3
    <2>3. goneNext \subseteq (1 .. sends)'
      BY <1>0, <1>2, <1>3
    <2>. QED BY <2>1, <2>2, <2>3
  <1>7. \A f \in Accepted' : f \in goneNext \/ \E g \in Handles : f \in OfLine(g)'
    <2>1. Accepted' \subseteq Accepted \cup N
      OBVIOUS
    <2>2. ASSUME NEW f \in Accepted', f \notin goneNext
          PROVE  \E g \in Handles : f \in OfLine(g)'
      <3>1. f \notin gone /\ f \notin D
        BY <1>0, <2>2
      <3>2. CASE f \in N
        BY <1>1, <3>1, <3>2
      <3>3. CASE f \notin N
        <4>1. f \in Accepted
          BY <2>1, <2>2, <3>3
        <4>2. PICK g \in Handles : f \in OfLine(g)
          BY <1>3, <3>1, <4>1
        <4>. QED BY <1>1, <3>1, <4>2
      <3>. QED BY <3>2, <3>3
    <2>. QED BY <2>2
  <1>8. OnFdcan' => \A g \in Handles : Rising(Line(g)')
    <2>1. OnFdcan' = OnFdcan
      BY DEF OnFdcan
    <2>2. OnFdcan => \A g \in Handles : Rising(Line(g))
      BY DEF OneLineEach
    <2>. QED BY <1>1, <2>1, <2>2
  <1>9. /\ \A g \in Handles : Distinct(Line(g))' /\ (OfLine(g) \subseteq 1 .. sends)'
        /\ OnFdcan' => \A g \in Handles : Rising(Line(g))'
    BY <1>4, <1>8 DEF Distinct, Rising
  <1>. QED BY <1>5, <1>6, <1>7, <1>9 DEF OneLineEach, goneNext

(* A step that leaves every line alone; the call it may be is refused. *)
LEMMA LinesKept ==
  ASSUME OneLineEach, sends \in Nat, NEW h \in Handles,
         sends' \in {sends, sends + 1}, Accepted' \subseteq Accepted,
         UNCHANGED <<replaced, lost, build>>, \A g \in Handles : Line(g)' = Line(g)
  PROVE  OneLineEach'
  <1>1. OfLine(h)' = OfLine(h) /\ Distinct(Line(h)') /\ (OnFdcan => Rising(Line(h)'))
    BY DEF OfLine, OneLineEach
  <1>2. LineStep(h, {}, {})
    BY <1>1 DEF LineStep, Gone
  <1>. QED BY <1>2, LinesStep

(* Frames that leave the replay of a queue, one of them refused or none:   *)
(* the lost one is the only one that leaves the line.                      *)
Replays(h, w, R) ==
  /\ handed' \in [Handles -> Seq(Nat)] /\ queue' \in [Handles -> Seq(Nat)]
  /\ slots' \in [Handles -> SUBSET Nat]
  /\ \A g \in Handles : IsFiniteSet(slots'[g]) /\ Cardinality(slots'[g]) <= Slots
  /\ \A g \in Handles : Len(queue'[g]) <= QueueSize
  /\ \A g \in Handles \ {h} : Line(g)' = Line(g)
  /\ R \subseteq Elements(handed[h] \o w) /\ OfLine(h)' = Elements(handed[h] \o w) \ R
  /\ Distinct(Line(h)') /\ (Rising(handed[h] \o w) => Rising(Line(h)'))
  /\ lost' = lost \cup R
  /\ R = {} \/ (stopped' = "Error_Handler" /\ \E f \in R : R = {f})

(* What a call is answered. *)
LEMMA Answered ==
  ASSUME TxTypes, NEW r \in {"sent", "CAN_SEND_FAILED"}, Answer(r)
  PROVE  /\ sends' = sends + 1 /\ sends' \in Nat
         /\ reply' \in Seq({"sent", "CAN_SEND_FAILED"}) /\ Len(reply') = sends'
         /\ Accepted' \subseteq Accepted \cup {sends + 1}
         /\ r # "sent" => Accepted' \subseteq Accepted
  <1>1. /\ reply \in Seq({"sent", "CAN_SEND_FAILED"}) /\ Len(reply) = sends /\ sends \in Nat
        /\ sends' = sends + 1 /\ reply' = Append(reply, r)
    BY DEF Answer, TxTypes
  <1>2. /\ reply' \in Seq({"sent", "CAN_SEND_FAILED"}) /\ Len(reply') = sends + 1
        /\ \A i \in 1 .. sends : reply'[i] = reply[i]
        /\ reply'[sends + 1] = r
    BY <1>1, AppendProperties
  <1>3. DOMAIN reply = 1 .. sends /\ DOMAIN reply' = 1 .. (sends + 1)
    BY <1>1, <1>2, LenProperties
  <1>4. Accepted' = {f \in DOMAIN reply' : reply'[f] = "sent"}
    BY DEF Accepted
  <1>. QED BY <1>1, <1>2, <1>3, <1>4 DEF Accepted

-----------------------------------------------------------------------------
(* The calls and the interrupt.                                            *)

(* The two halves of a line; the next frame is newer than all of it. *)
LEMMA TypedLines ==
  ASSUME TxInv, NEW h \in Handles
  PROVE  /\ handed[h] \in Seq(Nat) /\ queue[h] \in Seq(Nat) /\ Line(h) = handed[h] \o queue[h]
         /\ Newest(sends + 1, Line(h)) /\ sends + 1 \notin OfLine(h)
  <1>1. handed[h] \in Seq(Nat) /\ queue[h] \in Seq(Nat) /\ sends \in Nat
    BY DEF TxInv, TxTypes
  <1>2. OfLine(h) \subseteq 1 .. sends
    BY DEF TxInv, OneLineEach
  <1>. QED BY <1>1, <1>2 DEF Line, OfLine, Newest

(* The queue's frames are moved, with those handed over before them, to a  *)
(* line of at least the same order.                                        *)
LEMMA ReplayMoves ==
  ASSUME TxTypes, NEW h \in Handles, NEW w \in Seq(Nat), Len(w) <= QueueSize,
         Distinct(handed[h] \o w),
         NEW first \in Seq(Nat), NEW rest \in Seq(Nat), Len(first) <= Free(h),
         Len(rest) <= QueueSize, HandOver(h, first), queue' = [queue EXCEPT ![h] = rest],
         NEW R, R \subseteq Elements(handed[h] \o w),
         Elements((handed[h] \o first) \o rest) = Elements(handed[h] \o w) \ R,
         Distinct((handed[h] \o first) \o rest),
         Rising(handed[h] \o w) => Rising((handed[h] \o first) \o rest),
         lost' = lost \cup R,
         R = {} \/ (stopped' = "Error_Handler" /\ \E f \in R : R = {f})
  PROVE  Replays(h, w, R)
  <1>1. /\ handed' \in [Handles -> Seq(Nat)] /\ handed'[h] = handed[h] \o first
        /\ \A g \in Handles \ {h} : handed'[g] = handed[g]
        /\ slots' \in [Handles -> SUBSET Nat]
        /\ \A g \in Handles : IsFiniteSet(slots'[g]) /\ Cardinality(slots'[g]) <= Slots
    BY HandedOver
  <1>2. /\ queue' \in [Handles -> Seq(Nat)] /\ queue'[h] = rest
        /\ \A g \in Handles \ {h} : queue'[g] = queue[g]
        /\ \A g \in Handles : Len(queue'[g]) <= QueueSize
    BY DEF TxTypes
  <1>3. \A g \in Handles \ {h} : Line(g)' = Line(g)
    BY <1>1, <1>2 DEF Line
  <1>4. Line(h)' = (handed[h] \o first) \o rest
    BY <1>1, <1>2 DEF Line
  <1>. QED BY <1>1, <1>2, <1>3, <1>4 DEF Replays, OfLine

(* The line a, w without the k-th frame of its queue w: first and rest of  *)
(* the queue are what was before it and behind it.                         *)
Cut(a, w, k, first, rest) ==
  LET t == (a \o first) \o rest
  IN  /\ first \in Seq(Nat) /\ Len(first) = k - 1
      /\ rest \in Seq(Nat) /\ Len(rest) <= Len(w)
      /\ w[k] \in Elements(a \o w) /\ Elements(t) = Elements(a \o w) \ {w[k]}
      /\ Distinct(t) /\ (Rising(a \o w) => Rising(t))

LEMMA TakenFromQueue ==
  ASSUME NEW a \in Seq(Nat), NEW w \in Seq(Nat), NEW k \in 1 .. Len(w), Distinct(a \o w)
  PROVE  Cut(a, w, k, SubSeq(w, 1, k - 1), SubSeq(w, k + 1, Len(w)))
  <1>. DEFINE first == SubSeq(w, 1, k - 1)
              rest  == SubSeq(w, k + 1, Len(w))
              b     == a \o first
              s     == a \o w
              t     == b \o rest
              l     == Len(a)
              n     == Len(w)
  <1>1. n \in Nat /\ l \in Nat /\ k \in Nat /\ 1 <= k /\ k <= n
    OBVIOUS
  <1>2. /\ first \in Seq(Nat) /\ Len(first) = k - 1
        /\ \A i \in 1 .. (k - 1) : first[i] = w[i]
        /\ rest \in Seq(Nat) /\ Len(rest) = n - k
        /\ \A i \in 1 .. (n - k) : rest[i] = w[k + i]
    <2>1. /\ first \in Seq(Nat) /\ Len(first) = k - 1
          /\ \A i \in 1 .. (k - 1) : first[i] = w[i]
      BY <1>1, SubSeqProperties
    <2>2. /\ rest \in Seq(Nat) /\ Len(rest) = n - k
          /\ \A i \in 1 .. (n - k) : rest[i] = w[k + i]
      BY <1>1, SubSeqProperties
    <2>. QED BY <2>1, <2>2
  <1>. HIDE DEF first, rest
  <1>3. /\ b \in Seq(Nat) /\ Len(b) = l + (k - 1)
        /\ Joined(l, a, k - 1, first, b)
    <2>1. Joined(Len(a), a, Len(first), first, b)
      BY <1>2, Concatenated
    <2>2. b \in Seq(Nat) /\ Len(b) = Len(a) + Len(first)
      BY <1>2, ConcatProperties
    <2>. HIDE DEF b
    <2>. QED BY <1>2, <2>1, <2>2
  <1>. HIDE DEF b
  <1>4. Joined(l, a, n, w, s)
    BY Concatenated
  <1>5. Joined(l + (k - 1), b, n - k, rest, t)
    <2>1. Joined(Len(b), b, Len(rest), rest, t)
      BY <1>2, <1>3, Concatenated
    <2>. HIDE DEF t
    <2>. QED BY <1>2, <1>3, <2>1
  <1>. HIDE DEF s, t, l, n
  <1>. DEFINE m == l + (n - 1)
              j == l + (k - 1)
  <1>6. /\ m \in Nat /\ j \in 0 .. m /\ m + 1 = l + n /\ m = j + (n - k) /\ j + 1 = l + k
        /\ j + 1 \in 1 .. (l + n) /\ ~(j + 1 <= l) /\ (j + 1) - l = k
    BY <1>1
  <1>7. \A i \in 1 .. m : t[i] = IF i <= j THEN s[i] ELSE s[i + 1]
    <2>. SUFFICES ASSUME NEW i \in 1 .. m
                  PROVE  t[i] = IF i <= j THEN s[i] ELSE s[i + 1]
      OBVIOUS
    <2>1. CASE i <= l
      <3>1. i <= j /\ i \in 1 .. j /\ i \in 1 .. (j + (n - k)) /\ i \in 1 .. (l + n)
        BY <1>1, <2>1
      <3>2. t[i] = b[i] /\ b[i] = a[i] /\ s[i] = a[i]
        BY <1>3, <1>4, <1>5, <2>1, <3>1 DEF Joined
      <3>. QED BY <3>1, <3>2
    <2>2. CASE i > l /\ i <= j
      <3>1. i \in 1 .. j /\ i \in 1 .. (j + (n - k)) /\ i \in 1 .. (l + n) /\ ~(i <= l)
            /\ i - l \in 1 .. (k - 1)
        BY <1>1, <2>2
      <3>2. t[i] = b[i] /\ b[i] = first[i - l] /\ s[i] = w[i - l]
        BY <1>3, <1>4, <1>5, <2>2, <3>1 DEF Joined
      <3>. QED BY <1>2, <2>2, <3>1, <3>2
    <2>3. CASE i > j
      <3>1. /\ i \in 1 .. (j + (n - k)) /\ ~(i <= j) /\ i + 1 \in 1 .. (l + n) /\ ~(i + 1 <= l)
            /\ i - j \in 1 .. (n - k) /\ k + (i - j) = (i + 1) - l
        BY <1>1, <2>3
      <3>2. t[i] = rest[i - j] /\ s[i + 1] = w[(i + 1) - l]
        BY <1>4, <1>5, <3>1 DEF Joined
      <3>3. rest[i - j] = w[k + (i - j)]
        BY <1>2, <3>1
      <3>. QED BY <3>1, <3>2, <3>3
    <2>. QED BY <1>1, <2>1, <2>2, <2>3
  <1>8. s[j + 1] = w[k]
    BY <1>4, <1>6 DEF Joined
  <1>9. Without(m, s, j, t)
    <2>1. s \in [1 .. (m + 1) -> Nat] /\ t \in [1 .. m -> Nat]
      BY <1>4, <1>5, <1>6 DEF Joined
    <2>. HIDE DEF m, j
    <2>. QED BY <1>6, <1>7, <2>1 DEF Without
  <1>10. Distinct(s)
    BY DEF s
  <1>. HIDE DEF m, j
  <1>11. /\ Elements(t) = Elements(s) \ {w[k]} /\ w[k] \in Elements(s)
         /\ Distinct(t)
         /\ Rising(s) => Rising(t)
    BY <1>8, <1>9, <1>10, TakenOut
  <1>12. Len(rest) <= n
    BY <1>1, <1>2
  <1>13. Cut(a, w, k, first, rest)
    BY <1>2, <1>11, <1>12 DEF Cut, b, s, t, n
  <1>. QED BY <1>13 DEF first, rest

LEMMA Regrouped ==
  ASSUME NEW a \in Seq(Nat), NEW b \in Seq(Nat), NEW c \in Seq(Nat)
  PROVE  (a \o b) \o c = a \o (b \o c)
  BY ConcatAssociative

(* Moving the queue to the hardware, whatever the HAL makes of it. *)
LEMMA Replayed ==
  ASSUME TxTypes, NEW h \in Handles, NEW w \in Seq(Nat), Len(w) <= QueueSize,
         Distinct(handed[h] \o w), Replay(h, w)
  PROVE  \E R \in SUBSET Nat : Replays(h, w, R)
  <1>. DEFINE a == handed[h]
              first == Moved(h, w)
              rest == Rest(h, w)
  <1>1. a \in Seq(Nat) /\ Free(h) \in Nat /\ QueueSize \in Nat /\ Len(w) \in Nat
    BY RoomIsNat, LegacyAssumption DEF TxTypes
  <1>2. /\ first \in Seq(Nat) /\ rest \in Seq(Nat) /\ first \o rest = w
        /\ Len(first) <= Free(h) /\ Len(rest) <= Len(w)
    BY <1>1, MovedAndRest
  <1>3. CASE /\ HandOver(h, first) /\ queue' = [queue EXCEPT ![h] = rest]
             /\ UNCHANGED <<stopped, lost>>
    <2>. DEFINE R == {}
    <2>. HIDE DEF first, rest
    <2>1. (a \o first) \o rest = a \o (first \o rest)
      BY <1>1, <1>2, Regrouped
    <2>2. (a \o first) \o rest = a \o w
      BY <1>2, <2>1
    <2>3. Len(rest) <= QueueSize
      <3>. HIDE DEF a
      <3>1. Len(rest) \in Nat
        BY <1>2
      <3>. QED BY <1>1, <1>2, <3>1
    <2>4. /\ R \in SUBSET Nat /\ R \subseteq Elements(a \o w) /\ lost' = lost \cup R
          /\ Elements((a \o first) \o rest) = Elements(a \o w) \ R
          /\ R = {} \/ (stopped' = "Error_Handler" /\ \E f \in R : R = {f})
      <3>1. R = {} /\ R \in SUBSET Nat /\ R \subseteq Elements(a \o w) /\ lost' = lost \cup R
        BY <1>3
      <3>2. Elements((a \o first) \o rest) = Elements(a \o w)
        BY <2>2
      <3>3. Elements((a \o first) \o rest) = Elements(a \o w) \ R
        BY <3>1, <3>2
      <3>. HIDE DEF R
      <3>. QED BY <3>1, <3>3
    <2>5. /\ Distinct((a \o first) \o rest)
          /\ Rising(a \o w) => Rising((a \o first) \o rest)
      BY <2>2
    <2>6. HandOver(h, first) /\ queue' = [queue EXCEPT ![h] = rest]
      BY <1>3
    <2>. HIDE DEF R
    <2>7. Replays(h, w, R)
      BY <1>2, <2>3, <2>4, <2>5, <2>6, ReplayMoves
    <2>. QED BY <2>4, <2>7
  <1>4. ASSUME NEW k \in DOMAIN first,
               HandOver(h, SubSeq(w, 1, k - 1)),
               queue' = [queue EXCEPT ![h] = SubSeq(w, k + 1, Len(w))],
               lost' = lost \cup {w[k]}, stopped' = "Error_Handler"
        PROVE  \E R \in SUBSET Nat : Replays(h, w, R)
    <2>. DEFINE before == SubSeq(w, 1, k - 1)
                behind == SubSeq(w, k + 1, Len(w))
    <2>1. k \in 1 .. Len(w) /\ k - 1 <= Free(h)
      <3>1. DOMAIN first = 1 .. Len(first) /\ Len(first) \in Nat /\ Len(rest) \in Nat
        BY <1>2, LenProperties
      <3>2. Len(first) + Len(rest) = Len(w)
        BY <1>2, ConcatProperties
      <3>. HIDE DEF first, rest
      <3>. QED BY <1>1, <1>2, <1>4, <3>1, <3>2
    <2>2. /\ before \in Seq(Nat) /\ Len(before) = k - 1
          /\ behind \in Seq(Nat) /\ Len(behind) <= Len(w)
          /\ w[k] \in Elements(a \o w)
          /\ Elements((a \o before) \o behind) = Elements(a \o w) \ {w[k]}
          /\ Distinct((a \o before) \o behind)
          /\ Rising(a \o w) => Rising((a \o before) \o behind)
      <3>1. Distinct(a \o w)
        OBVIOUS
      <3>2. Cut(a, w, k, before, behind)
        <4>. HIDE DEF a, first, rest
        <4>. QED BY <1>1, <2>1, <3>1, TakenFromQueue
      <3>. HIDE DEF a, first, rest, before, behind
      <3>. QED BY <3>2 DEF Cut
    <2>3. Len(behind) <= QueueSize /\ Len(before) <= Free(h) /\ w[k] \in Nat
      BY <1>1, <2>1, <2>2
    <2>4. HandOver(h, before) /\ queue' = [queue EXCEPT ![h] = behind]
      BY <1>4
    <2>. HIDE DEF before, behind
    <2>5. Replays(h, w, {w[k]})
      <3>. DEFINE R == {w[k]}
      <3>1. /\ R \subseteq Elements(a \o w) /\ lost' = lost \cup R
            /\ Elements((a \o before) \o behind) = Elements(a \o w) \ R
            /\ stopped' = "Error_Handler" /\ \E f \in R : R = {f}
        BY <1>4, <2>2
      <3>. HIDE DEF R
      <3>. QED BY <2>2, <2>3, <2>4, <3>1, ReplayMoves DEF R
    <2>. QED BY <2>3, <2>5
  <1>. QED BY <1>3, <1>4 DEF Replay, Stop

(* The build without a queue: into a free slot or not at all. *)
LEMMA SendDirectStep ==
  ASSUME TxInv, NEW h \in Handles, SendDirect(h), UNCHANGED <<chosen, build>>
  PROVE  TxInv'
  <1>. DEFINE n == sends + 1
              a == handed[h]
              q == queue[h]
  <1>1. /\ a \in Seq(Nat) /\ q \in Seq(Nat) /\ Line(h) = a \o q
        /\ Newest(n, a \o q) /\ Distinct(a \o q)
        /\ OnFdcan => q = <<>> /\ Rising(a \o q)
    BY TypedLines DEF SendDirect, TxInv, OneLineEach
  <1>2. n \in Nat /\ <<n>> \in Seq(Nat) /\ Len(<<n>>) = 1
    BY <1>1 DEF Newest
  <1>3. Len(<<n>>) <= Free(h)
    BY RoomIsNat, <1>2 DEF SendDirect, TxInv
  <1>4. HandOver(h, <<n>>) /\ Answer("sent") /\ UNCHANGED <<stopped, queue, replaced, lost>>
    BY DEF SendDirect
  <1>5. /\ handed' \in [Handles -> Seq(Nat)] /\ handed'[h] = a \o <<n>>
        /\ \A g \in Handles \ {h} : handed'[g] = handed[g]
        /\ slots' \in [Handles -> SUBSET Nat]
        /\ \A g \in Handles : IsFiniteSet(slots'[g]) /\ Cardinality(slots'[g]) <= Slots
    BY <1>2, <1>3, <1>4, HandedOver DEF TxInv
  <1>6. /\ sends' = n /\ sends' \in Nat
        /\ reply' \in Seq({"sent", "CAN_SEND_FAILED"}) /\ Len(reply') = sends'
        /\ Accepted' \subseteq Accepted \cup {n}
    BY <1>4, Answered DEF TxInv
  <1>7. TxTypes'
    BY <1>4, <1>5, <1>6 DEF TxTypes, TxInv
  <1>8. OneLineEach'
    <2>1. Line(h)' = (a \o <<n>>) \o q
      BY <1>4, <1>5 DEF Line
    <2>2. /\ Elements((a \o <<n>>) \o q) = Elements(a \o q) \cup {n}
          /\ Distinct(a \o q) => Distinct((a \o <<n>>) \o q)
          /\ q = <<>> /\ Rising(a \o q) => Rising((a \o <<n>>) \o q)
      BY <1>1, JoinsBetween
    <2>3. OfLine(h)' = (OfLine(h) \cup {n}) \ {}
      BY <1>1, <2>1, <2>2 DEF OfLine
    <2>4. \A g \in Handles \ {h} : Line(g)' = Line(g)
      BY <1>4, <1>5 DEF Line
    <2>5. Distinct(Line(h)') /\ (OnFdcan => Rising(Line(h)'))
      BY <1>1, <2>1, <2>2
    <2>6. LineStep(h, {}, {n})
      BY <1>4, <1>6, <2>3, <2>4, <2>5 DEF LineStep, Gone
    <2>. QED BY <2>6, LinesStep DEF TxInv, TxTypes
  <1>9. LostOnce'
    BY <1>4 DEF TxInv, LostOnce
  <1>. QED BY <1>7, <1>8, <1>9 DEF TxInv

(* The builds with a queue: what CAN_SendMessage() does to the lines. *)
LEMMA SendQueuedStep ==
  ASSUME TxInv, stopped = "no", NEW h \in Handles, SendQueued(h), UNCHANGED <<chosen, build>>
  PROVE  TxInv'
  <1>. DEFINE n == sends + 1
              a == handed[h]
              q == queue[h]
              w == Push(q, n)
              D == Dropped(q)
              kept == IF Len(q) = QueueSize THEN Tail(q) ELSE q
  <1>1. /\ a \in Seq(Nat) /\ q \in Seq(Nat) /\ Line(h) = a \o q /\ OfLine(h) = Elements(a \o q)
        /\ Newest(n, a \o q) /\ Distinct(a \o q) /\ n \notin OfLine(h) /\ n \in Nat
        /\ OnFdcan => Rising(a \o q)
    BY TypedLines DEF TxInv, OneLineEach, OfLine, Newest
  <1>2. /\ Replay(h, w) /\ replaced' = replaced \cup D
        /\ Answer(IF OnFdcan THEN "sent" ELSE "CAN_SEND_FAILED")
    BY DEF SendQueued
  <1>3. /\ sends' = n /\ sends' \in Nat
        /\ reply' \in Seq({"sent", "CAN_SEND_FAILED"}) /\ Len(reply') = sends'
        /\ Accepted' \subseteq Accepted \cup {n}
    BY <1>2, Answered DEF TxInv
  <1>4. /\ kept \in Seq(Nat) /\ w = Append(kept, n) /\ Len(kept) < QueueSize
        /\ D \subseteq Elements(a \o q) /\ Elements(a \o kept) = Elements(a \o q) \ D
        /\ Distinct(a \o kept) /\ (OnFdcan => Rising(a \o kept))
    <2>1. Len(q) <= QueueSize /\ QueueSize \in Nat \ {0} /\ Len(q) \in Nat
      BY <1>1, LegacyAssumption DEF TxInv, TxTypes
    <2>2. CASE Len(q) = QueueSize
      <3>1. q # <<>> /\ kept = Tail(q) /\ D = {Head(q)} /\ Len(Tail(q)) < QueueSize
        BY <1>1, <2>1, <2>2 DEF Dropped
      <3>2. /\ Tail(q) \in Seq(Nat) /\ Head(q) \in Elements(a \o q)
            /\ Elements(a \o Tail(q)) = Elements(a \o q) \ {Head(q)}
            /\ Distinct(a \o Tail(q))
            /\ Rising(a \o q) => Rising(a \o Tail(q))
        BY <1>1, <3>1, OldestOut
      <3>3. w = Append(kept, n)
        BY DEF Push
      <3>. QED BY <1>1, <3>1, <3>2, <3>3
    <2>3. CASE Len(q) # QueueSize
      BY <1>1, <2>1, <2>3 DEF Push, Dropped
    <2>. QED BY <2>2, <2>3
  <1>. HIDE DEF kept, w, D
  <1>5. w \in Seq(Nat) /\ Len(w) <= QueueSize
    BY <1>1, <1>4, LegacyAssumption
  <1>6. /\ Elements(a \o w) = (Elements(a \o q) \ D) \cup {n}
        /\ Distinct(a \o w) /\ (OnFdcan => Rising(a \o w))
    <2>1. Newest(n, a \o kept)
      BY <1>1, <1>4 DEF Newest
    <2>2. /\ Elements(a \o Append(kept, n)) = Elements(a \o kept) \cup {n}
          /\ Distinct(a \o kept) => Distinct(a \o Append(kept, n))
          /\ Rising(a \o kept) => Rising(a \o Append(kept, n))
      BY <1>1, <1>4, <2>1, JoinsAtTheEnd
    <2>. QED BY <1>4, <2>2
  <1>7. PICK R \in SUBSET Nat : Replays(h, w, R)
    BY <1>2, <1>5, <1>6, Replayed DEF TxInv
  <1>8. /\ lost = {} /\ lost' = R /\ R \subseteq Elements(a \o w)
        /\ OfLine(h)' = Elements(a \o w) \ R
        /\ R = {} \/ (stopped' = "Error_Handler" /\ \E f \in R : R = {f})
    <2>1. lost = {}
      BY DEF TxInv, LostOnce
    <2>. QED BY <1>7, <2>1 DEF Replays
  <1>9. TxTypes'
    BY <1>3, <1>7 DEF TxTypes, TxInv, Replays
  <1>10. OneLineEach'
    <2>1. OfLine(h)' = (OfLine(h) \cup {n}) \ (D \cup R)
      BY <1>1, <1>4, <1>6, <1>8
    <2>2. D \cup R \subseteq OfLine(h) \cup {n}
      BY <1>1, <1>4, <1>6, <1>8
    <2>3. Gone' = Gone \cup (D \cup R)
      BY <1>2, <1>8 DEF Gone
    <2>4. /\ \A g \in Handles \ {h} : Line(g)' = Line(g)
          /\ Distinct(Line(h)') /\ (OnFdcan => Rising(Line(h)'))
      BY <1>6, <1>7 DEF Replays
    <2>5. LineStep(h, D \cup R, {n})
      BY <1>3, <2>1, <2>2, <2>3, <2>4 DEF LineStep
    <2>. QED BY <2>5, LinesStep DEF TxInv, TxTypes
  <1>11. LostOnce'
    <2>1. replaced \cap (OfLine(h) \cup {n}) = {}
      <3>1. replaced \cap OfLine(h) = {} /\ replaced \subseteq 1 .. sends /\ sends \in Nat
        BY DEF TxInv, OneLineEach, Gone, TxTypes
      <3>. QED BY <1>1, <3>1
    <2>2. replaced' \cap lost' = {}
      BY <1>1, <1>2, <1>4, <1>6, <1>8, <2>1
    <2>. QED BY <1>8, <2>2 DEF LostOnce
  <1>. QED BY <1>9, <1>10, <1>11 DEF TxInv

(* SendRefused(), SendNoEntry() and SendFull() do not take the frame. *)
LEMMA RefusedStep ==
  ASSUME TxInv, stopped = "no", NEW h \in Handles, Answer("CAN_SEND_FAILED"),
         UNCHANGED <<chosen, build, queue, slots, replaced, lost, handed>>
  PROVE  TxInv'
  <1>1. /\ sends' = sends + 1 /\ sends' \in Nat
        /\ reply' \in Seq({"sent", "CAN_SEND_FAILED"}) /\ Len(reply') = sends'
        /\ Accepted' \subseteq Accepted
    BY Answered DEF TxInv
  <1>2. TxTypes'
    BY <1>1 DEF TxInv, TxTypes
  <1>3. \A g \in Handles : Line(g)' = Line(g)
    BY DEF Line
  <1>4. OneLineEach'
    BY <1>1, <1>3, LinesKept DEF TxInv, TxTypes
  <1>5. LostOnce'
    BY DEF TxInv, LostOnce
  <1>. QED BY <1>2, <1>4, <1>5 DEF TxInv

(* The transmit callback moves frames within their line, and may lose one. *)
LEMMA TxInterruptStep ==
  ASSUME TxInv, NEW h \in Handles, TxInterrupt(h)
  PROVE  TxInv'
  <1>1. UNCHANGED <<chosen, build, sends, reply, replaced>> /\ stopped = "no" /\ lost = {}
    BY DEF TxInterrupt, receiving, TxInv, LostOnce
  <1>2. Accepted' = Accepted
    BY <1>1 DEF Accepted
  <1>3. CASE ~Registered(h)
    <2>1. UNCHANGED <<queue, slots, lost, handed>>
      BY <1>3 DEF TxInterrupt
    <2>2. TxTypes'
      BY <1>1, <2>1 DEF TxInv, TxTypes
    <2>3. \A g \in Handles : Line(g)' = Line(g)
      BY <2>1 DEF Line
    <2>4. OneLineEach'
      BY <1>1, <1>2, <2>1, <2>3, LinesKept DEF TxInv, TxTypes
    <2>5. LostOnce'
      BY <1>1, <2>1 DEF LostOnce
    <2>. QED BY <2>2, <2>4, <2>5 DEF TxInv
  <1>4. CASE Registered(h)
    <2>. DEFINE q == queue[h]
    <2>1. /\ q \in Seq(Nat) /\ Line(h) = handed[h] \o q /\ OfLine(h) = Elements(handed[h] \o q)
          /\ Len(q) <= QueueSize /\ Distinct(handed[h] \o q)
          /\ OnFdcan => Rising(handed[h] \o q)
      BY TypedLines DEF TxInv, TxTypes, OneLineEach, OfLine
    <2>2. Replay(h, q)
      BY <1>4 DEF TxInterrupt
    <2>. HIDE DEF q
    <2>3. PICK R \in SUBSET Nat : Replays(h, q, R)
      BY <2>1, <2>2, Replayed DEF TxInv
    <2>4. /\ lost' = R /\ R \subseteq OfLine(h) /\ OfLine(h)' = OfLine(h) \ R
          /\ R = {} \/ (stopped' = "Error_Handler" /\ \E f \in R : R = {f})
      BY <1>1, <2>1, <2>3 DEF Replays
    <2>5. TxTypes'
      BY <1>1, <2>3 DEF TxInv, TxTypes, Replays
    <2>6. OneLineEach'
      <3>1. /\ \A g \in Handles \ {h} : Line(g)' = Line(g)
            /\ Distinct(Line(h)') /\ (OnFdcan => Rising(Line(h)'))
        BY <2>1, <2>3 DEF Replays
      <3>2. Gone' = Gone \cup R
        BY <1>1, <2>4 DEF Gone
      <3>3. OfLine(h)' = (OfLine(h) \cup {}) \ R
        BY <2>4
      <3>4. LineStep(h, R, {})
        BY <1>1, <1>2, <2>4, <3>1, <3>2, <3>3 DEF LineStep
      <3>. QED BY <3>4, LinesStep DEF TxInv, TxTypes
    <2>7. LostOnce'
      <3>1. replaced \cap OfLine(h) = {}
        BY DEF TxInv, OneLineEach, Gone
      <3>. QED BY <1>1, <2>4, <3>1 DEF LostOnce
    <2>. QED BY <2>5, <2>6, <2>7 DEF TxInv
  <1>. QED BY <1>3, <1>4

(* The bus takes a frame, which changes no line. *)
LEMMA SlotEmptiesStep ==
  ASSUME TxInv, NEW h \in Handles, NEW f \in slots[h], SlotEmpties(h, f)
  PROVE  TxInv'
  <1>1. /\ slots' = [slots EXCEPT ![h] = @ \ {f}]
        /\ UNCHANGED <<chosen, build, stopped, queue, sends, reply, replaced, lost, handed>>
    BY DEF SlotEmpties
  <1>2. IsFiniteSet(slots[h]) /\ Cardinality(slots[h]) <= Slots /\ Slots \in Nat
    BY LegacyAssumption DEF TxInv, TxTypes
  <1>3. IsFiniteSet(slots[h] \ {f}) /\ Cardinality(slots[h] \ {f}) = Cardinality(slots[h]) - 1
    BY <1>2, FS_RemoveElement
  <1>4. Cardinality(slots[h]) \in Nat
    BY <1>2, FS_CardinalityType
  <1>5. /\ slots' \in [Handles -> SUBSET Nat]
        /\ \A g \in Handles : IsFiniteSet(slots'[g]) /\ Cardinality(slots'[g]) <= Slots
    BY <1>1, <1>2, <1>3, <1>4 DEF TxInv, TxTypes
  <1>6. TxTypes'
    BY <1>1, <1>5 DEF TxInv, TxTypes
  <1>7. Accepted' = Accepted /\ \A g \in Handles : Line(g)' = Line(g)
    BY <1>1 DEF Accepted, Line
  <1>8. OneLineEach'
    BY <1>1, <1>7, LinesKept DEF TxInv, TxTypes
  <1>9. LostOnce'
    BY <1>1 DEF TxInv, LostOnce
  <1>. QED BY <1>6, <1>8, <1>9 DEF TxInv

(* CAN_SendMessage() in any build. *)
LEMMA SendStep ==
  ASSUME TxInv, NEW h \in Handles, SendMessage(h)
  PROVE  TxInv'
  <1>1. UNCHANGED <<chosen, build>> /\ stopped = "no"
    BY DEF SendMessage
  <1>2. CASE SendRefused(h)
    BY <1>1, <1>2, RefusedStep DEF SendRefused
  <1>3. CASE SendDirect(h)
    BY <1>1, <1>3, SendDirectStep
  <1>4. CASE SendNoEntry(h)
    BY <1>1, <1>4, RefusedStep DEF SendNoEntry
  <1>5. CASE SendQueued(h)
    BY <1>1, <1>5, SendQueuedStep
  <1>6. CASE SendFull(h)
    BY <1>1, <1>6, RefusedStep DEF SendFull
  <1>. QED BY <1>2, <1>3, <1>4, <1>5, <1>6 DEF SendMessage

(* Everything else leaves the transmit side alone. *)
LEMMA AsideStep ==
  ASSUME TxInv, UNCHANGED <<chosen, build, sending>>, stopped = "no" \/ stopped' = stopped
  PROVE  TxInv'
  <1>1. UNCHANGED <<chosen, build, queue, slots, sends, reply, replaced, lost, handed>>
    BY DEF sending
  <1>2. TxTypes'
    BY <1>1 DEF TxInv, TxTypes
  <1>3. /\ \A g \in Handles : Line(g)' = Line(g) /\ OfLine(g)' = OfLine(g)
        /\ Accepted' = Accepted /\ OnFdcan' = OnFdcan /\ Gone' = Gone
    BY <1>1 DEF Line, OfLine, Accepted, OnFdcan, Gone
  <1>4. \A g \in Handles : /\ Distinct(Line(g))' = Distinct(Line(g))
                           /\ Rising(Line(g))' = Rising(Line(g))
    BY <1>3 DEF Distinct, Rising
  <1>5. OneLineEach'
    BY <1>1, <1>3, <1>4 DEF TxInv, OneLineEach
  <1>6. LostOnce'
    BY <1>1 DEF TxInv, LostOnce
  <1>. QED BY <1>2, <1>5, <1>6 DEF TxInv

(* What the transmit queue rests on holds of every state. *)
THEOREM TxInvariance == LegacySpec => []TxInv
  <1>1. LegacyInit => TxInv
    <2>. SUFFICES ASSUME LegacyInit PROVE TxInv
      OBVIOUS
    <2>1. /\ chosen \in DOMAIN Uses /\ sends = 0 /\ reply = <<>> /\ replaced = {} /\ lost = {}
          /\ queue = [h \in Handles |-> <<>>] /\ handed = [h \in Handles |-> <<>>]
          /\ slots = [h \in Handles |-> {}]
      BY DEF LegacyInit
    <2>2. TxTypes
      BY <2>1, FS_EmptySet, LegacyAssumption DEF TxTypes
    <2>3. \A h \in Handles : Line(h) = <<>>
      BY <2>1 DEF Line
    <2>4. \A h \in Handles : OfLine(h) = {} /\ Distinct(Line(h)) /\ Rising(Line(h))
      BY <2>3 DEF OfLine, Elements, Distinct, Rising
    <2>5. Accepted = {}
      BY <2>1 DEF Accepted
    <2>6. OneLineEach
      BY <2>1, <2>4, <2>5 DEF OneLineEach, Gone
    <2>. QED BY <2>1, <2>2, <2>6 DEF TxInv, LostOnce
  <1>2. TxInv /\ [LegacyNext]_legacyVars => TxInv'
    <2>. SUFFICES ASSUME TxInv, [LegacyNext]_legacyVars PROVE TxInv'
      OBVIOUS
    <2>1. use.handles \subseteq Handles
      BY LegacyAssumption DEF use, TxInv, TxTypes
    <2>2. ASSUME NEW h \in Handles, SendMessage(h) PROVE TxInv'
      BY <2>2, SendStep
    <2>3. ASSUME NEW h \in Handles, TxInterrupt(h) PROVE TxInv'
      BY <2>3, TxInterruptStep
    <2>4. ASSUME NEW h \in Handles, NEW f \in slots[h], SlotEmpties(h, f) PROVE TxInv'
      BY <2>4, SlotEmptiesStep
    <2>5. ASSUME NEW h \in Handles, Start(h) PROVE TxInv'
      BY <2>5, AsideStep DEF Start
    <2>6. ASSUME NEW h \in Handles, RxDispatch(h) PROVE TxInv'
      BY <2>6, AsideStep DEF RxDispatch
    <2>7. ASSUME NEW h \in Handles, NEW cb \in use.callbacks, RegisterCallback(h, cb) PROVE TxInv'
      BY <2>7, AsideStep DEF RegisterCallback
    <2>8. ASSUME NEW h \in Handles, NEW w \in use.wires, Arrive(h, w) PROVE TxInv'
      BY <2>8, AsideStep DEF Arrive
    <2>9. ASSUME NEW b \in use.banks, ConfigFilter(b) PROVE TxInv'
      BY <2>9, AsideStep DEF ConfigFilter
    <2>10. CASE UNCHANGED legacyVars
      BY <2>10, AsideStep DEF legacyVars
    <2>. QED BY <2>1, <2>2, <2>3, <2>4, <2>5, <2>6, <2>7, <2>8, <2>9, <2>10 DEF LegacyNext
  <1>. QED BY <1>1, <1>2, PTL DEF LegacySpec

(* On FDCAN frames leave in the order of the calls, for any number of      *)
(* mailboxes and any size of the queue.                                    *)
THEOREM SubmissionOrderThm == LegacySpec => []SubmissionOrder
  <1>1. TxInv => SubmissionOrder
    BY DEF TxInv, OneLineEach, SubmissionOrder, Rising, Line
  <1>. QED BY <1>1, TxInvariance, PTL

(* An accepted frame is with the hardware, or waits, or was pushed out of  *)
(* a full queue, or it is the one frame that the HAL refused when it had   *)
(* left the queue, after which the program is in Error_Handler(); and only *)
(* one of these, once.                                                     *)
THEOREM AcceptedIsKeptThm == LegacySpec => []AcceptedIsKept
  <1>1. ASSUME TxInv PROVE AcceptedIsKept
    <2>1. \A h \in Handles : Elements(handed[h]) \cup Elements(queue[h]) = OfLine(h)
      <3>. SUFFICES ASSUME NEW h \in Handles
                    PROVE  Elements(handed[h]) \cup Elements(queue[h]) = OfLine(h)
        OBVIOUS
      <3>1. handed[h] \in Seq(Nat) /\ queue[h] \in Seq(Nat)
        BY <1>1, TypedLines
      <3>. QED BY <3>1, ConcatElements DEF OfLine, Line
    <2>2. Everywhere = UNION {OfLine(h) : h \in Handles}
      BY <2>1 DEF Everywhere
    <2>3. Accepted \subseteq Everywhere \cup replaced \cup lost
      <3>. SUFFICES ASSUME NEW f \in Accepted, f \notin Gone PROVE f \in Everywhere
        BY DEF Gone
      <3>1. PICK h \in Handles : f \in OfLine(h)
        BY <1>1 DEF TxInv, OneLineEach
      <3>. QED BY <2>2, <3>1
    <2>4. /\ Everywhere \cap (replaced \cup lost) = {} /\ replaced \cap lost = {}
          /\ lost # {} => stopped = "Error_Handler" /\ \E f \in lost : lost = {f}
      BY <1>1, <2>2 DEF TxInv, OneLineEach, LostOnce, Gone
    <2>5. ASSUME NEW h \in Handles
          PROVE  LET s == handed[h] \o queue[h] IN Cardinality(Elements(s)) = Len(s)
      <3>1. Line(h) \in Seq(Nat) /\ Distinct(Line(h))
        <4>1. handed[h] \in Seq(Nat) /\ queue[h] \in Seq(Nat)
          BY <1>1, <2>5, TypedLines
        <4>. QED BY <1>1, <2>5, <4>1, ConcatProperties DEF TxInv, OneLineEach, Line
      <3>2. Cardinality(Elements(Line(h))) = Len(Line(h))
        BY <3>1, ElementsCount
      <3>. QED BY <3>2 DEF Line
    <2>. QED BY <2>3, <2>4, <2>5 DEF AcceptedIsKept
  <1>. QED BY <1>1, TxInvariance, PTL

-----------------------------------------------------------------------------
(* Its callbacks.                                                          *)

(* The numbers in their order, as a relation. *)
Below == {p \in Nat \X Nat : p[1] < p[2]}

(* A set of numbers has its least one. *)
LEMMA LeastIsThere ==
  ASSUME NEW S \in SUBSET Nat, S # {}
  PROVE  Min(S) \in S /\ \A n \in S : Min(S) <= n
  <1>1. IsWellFoundedOn(Below, Nat)
    BY NatLessThanWellFounded, Zenon DEF Below, OpToRel
  <1>2. PICK w \in S : \A v \in S : ~(<<v, w>> \in Below)
    BY <1>1, WFMin
  <1>3. \A v \in S : w <= v
    <2>1. \A v \in S : ~(v < w)
      BY <1>2, Zenon DEF Below
    <2>. QED BY <2>1
  <1>. QED BY <1>3 DEF Min

(* f is what the loop of CallsTo has made after each of the first m callbacks. *)
Loops(f, cs, w, m) ==
  f = [n \in 0 .. m |-> IF n = 0 THEN <<>>
                        ELSE IF Hears(cs[n], w) THEN Append(f[n - 1], Told(cs[n], w))
                        ELSE f[n - 1]]

(* Whatever the callbacks, the loop has a result after each of them. *)
LEMMA LoopEnds ==
  ASSUME NEW cs, NEW w, NEW m \in Nat
  PROVE  \E f : Loops(f, cs, w, m)
  <1>. SUFFICES ASSUME ~\E f : Loops(f, cs, w, m) PROVE FALSE
    OBVIOUS
  <1>. DEFINE bad == {n \in Nat : ~\E f : Loops(f, cs, w, n)}
              k == Min(bad)
  <1>1. k \in bad /\ \A n \in bad : k <= n
    <2>1. bad \in SUBSET Nat /\ bad # {}
      OBVIOUS
    <2>. HIDE DEF bad
    <2>. QED BY <2>1, LeastIsThere
  <1>2. k \in Nat /\ ~\E f : Loops(f, cs, w, k)
    BY <1>1
  <1>3. \A n \in Nat : n < k => \E f : Loops(f, cs, w, n)
    <2>. HIDE DEF k
    <2>. QED BY <1>1, <1>2
  <1>. HIDE DEF k
  <1>4. k # 0
    <2>1. Loops([n \in 0 .. 0 |-> <<>>], cs, w, 0)
      BY DEF Loops
    <2>. QED BY <1>2, <2>1
  <1>5. PICK f : Loops(f, cs, w, k - 1)
    BY <1>2, <1>3, <1>4
  <1>. DEFINE g == [n \in 0 .. k |->
                      IF n < k THEN f[n]
                      ELSE IF Hears(cs[k], w) THEN Append(f[k - 1], Told(cs[k], w)) ELSE f[k - 1]]
  <1>6. Loops(g, cs, w, k)
    <2>1. \A n \in 0 .. k - 1 :
            f[n] = IF n = 0 THEN <<>>
                   ELSE IF Hears(cs[n], w) THEN Append(f[n - 1], Told(cs[n], w)) ELSE f[n - 1]
      BY <1>2, <1>4, <1>5 DEF Loops
    <2>2. \A n \in 0 .. k :
            g[n] = IF n = 0 THEN <<>>
                   ELSE IF Hears(cs[n], w) THEN Append(g[n - 1], Told(cs[n], w)) ELSE g[n - 1]
      <3>. SUFFICES ASSUME NEW n \in 0 .. k
                    PROVE  g[n] = IF n = 0 THEN <<>>
                                  ELSE IF Hears(cs[n], w) THEN Append(g[n - 1], Told(cs[n], w))
                                  ELSE g[n - 1]
        OBVIOUS
      <3>1. CASE n = 0
        BY <1>2, <1>4, <2>1, <3>1
      <3>2. CASE n # 0
        <4>1. n - 1 \in 0 .. k /\ n - 1 < k /\ g[n - 1] = f[n - 1]
          BY <1>2, <3>2
        <4>2. CASE n < k
          BY <1>2, <2>1, <3>2, <4>1, <4>2
        <4>3. CASE n = k
          BY <1>2, <3>2, <4>1, <4>3
        <4>. QED BY <1>2, <4>2, <4>3
      <3>. QED BY <3>1, <3>2
    <2>. HIDE DEF g
    <2>3. g = [n \in 0 .. k |-> g[n]]
      BY DEF g
    <2>. QED BY <2>2, <2>3 DEF Loops
  <1>. QED BY <1>2, <1>6

(* The callbacks that hear w, and the place of a number in a set of numbers. *)
Due(cs, w, n) == {i \in 1 .. n : Hears(cs[i], w)}
Rank(i, D) == Cardinality({j \in D : j <= i})

(* Places in a set of numbers: the one added behind all others is the last. *)
LEMMA Ranks ==
  ASSUME NEW n \in Nat, NEW D \in SUBSET (1 .. n)
  PROVE  /\ IsFiniteSet(D) /\ Cardinality(D) \in Nat
         /\ \A i \in D : Rank(i, D) \in 1 .. Cardinality(D)
         /\ Cardinality(D \cup {n + 1}) = Cardinality(D) + 1
         /\ Rank(n + 1, D \cup {n + 1}) = Cardinality(D) + 1
         /\ \A i \in D : Rank(i, D \cup {n + 1}) = Rank(i, D)
  <1>1. IsFiniteSet(D) /\ Cardinality(D) \in Nat
    <2>1. IsFiniteSet(1 .. n)
      BY FS_Interval
    <2>. QED BY <2>1, FS_Subset, FS_CardinalityType
  <1>2. ASSUME NEW i \in D PROVE Rank(i, D) \in 1 .. Cardinality(D)
    <2>. DEFINE E == {j \in D : j <= i}
    <2>1. E \subseteq D /\ i \in E
      OBVIOUS
    <2>. HIDE DEF E
    <2>2. IsFiniteSet(E) /\ Cardinality(E) \in Nat /\ Cardinality(E) <= Cardinality(D)
      BY <1>1, <2>1, FS_Subset, FS_CardinalityType
    <2>3. Cardinality(E) # 0
      BY <2>1, <2>2, FS_EmptySet
    <2>4. Rank(i, D) = Cardinality(E)
      BY DEF Rank, E
    <2>. QED BY <1>1, <2>2, <2>3, <2>4
  <1>3. Cardinality(D \cup {n + 1}) = Cardinality(D) + 1
    <2>1. n + 1 \notin D
      OBVIOUS
    <2>. QED BY <1>1, <2>1, FS_AddElement
  <1>4. Rank(n + 1, D \cup {n + 1}) = Cardinality(D) + 1
    <2>1. \A j \in D \cup {n + 1} : j <= n + 1
      OBVIOUS
    <2>2. {j \in D \cup {n + 1} : j <= n + 1} = D \cup {n + 1}
      BY <2>1, Zenon
    <2>. QED BY <1>3, <2>2 DEF Rank
  <1>5. ASSUME NEW i \in D PROVE Rank(i, D \cup {n + 1}) = Rank(i, D)
    <2>1. {j \in D \cup {n + 1} : j <= i} = {j \in D : j <= i}
      OBVIOUS
    <2>. QED BY <2>1 DEF Rank
  <1>. QED BY <1>1, <1>2, <1>3, <1>4, <1>5

(* c are the calls that callbacks 1 .. n are due for w, in their order. *)
AllCalled(c, cs, w, n) ==
  /\ c \in Seq({Told(cs[i], w) : i \in 1 .. n})
  /\ Len(c) = Cardinality(Due(cs, w, n))
  /\ \A i \in Due(cs, w, n) : c[Rank(i, Due(cs, w, n))] = Told(cs[i], w)

(* Before the loop. *)
LEMMA NoneCalled == ASSUME NEW cs, NEW w PROVE AllCalled(<<>>, cs, w, 0)
  <1>1. Due(cs, w, 0) = {}
    BY DEF Due
  <1>. QED BY <1>1, FS_EmptySet DEF AllCalled

(* One more turn of the loop. *)
LEMMA OneMoreCalled ==
  ASSUME NEW cs, NEW w, NEW n \in Nat, NEW c, AllCalled(c, cs, w, n)
  PROVE  AllCalled(IF Hears(cs[n + 1], w) THEN Append(c, Told(cs[n + 1], w)) ELSE c, cs, w, n + 1)
  <1>. DEFINE T == {Told(cs[i], w) : i \in 1 .. n}
              U == {Told(cs[i], w) : i \in 1 .. (n + 1)}
              D == Due(cs, w, n)
              new == Told(cs[n + 1], w)
  <1>1. 1 .. (n + 1) = (1 .. n) \cup {n + 1}
    OBVIOUS
  <1>2. T \subseteq U /\ new \in U
    <2>1. n + 1 \in 1 .. (n + 1)
      OBVIOUS
    <2>. QED BY <1>1, <2>1
  <1>3. /\ IsFiniteSet(D) /\ Cardinality(D) \in Nat
        /\ \A i \in D : Rank(i, D) \in 1 .. Cardinality(D)
        /\ Cardinality(D \cup {n + 1}) = Cardinality(D) + 1
        /\ Rank(n + 1, D \cup {n + 1}) = Cardinality(D) + 1
        /\ \A i \in D : Rank(i, D \cup {n + 1}) = Rank(i, D)
    <2>1. D \in SUBSET (1 .. n)
      BY DEF Due
    <2>. HIDE DEF D
    <2>. QED BY <2>1, Ranks
  <1>4. c \in Seq(T) /\ Len(c) = Cardinality(D) /\ \A i \in D : c[Rank(i, D)] = Told(cs[i], w)
    BY DEF AllCalled
  <1>5. c \in Seq(U)
    BY <1>2, <1>4
  <1>6. CASE Hears(cs[n + 1], w)
    <2>1. Due(cs, w, n + 1) = D \cup {n + 1}
      BY <1>1, <1>6 DEF Due
    <2>. HIDE DEF T, U, D, new
    <2>2. /\ Append(c, new) \in Seq(U) /\ Len(Append(c, new)) = Len(c) + 1
          /\ \A k \in 1 .. Len(c) : Append(c, new)[k] = c[k]
          /\ Append(c, new)[Len(c) + 1] = new
      BY <1>2, <1>5, AppendProperties
    <2>3. ASSUME NEW i \in D \cup {n + 1}
          PROVE  Append(c, new)[Rank(i, D \cup {n + 1})] = Told(cs[i], w)
      <3>1. CASE i \in D
        BY <1>3, <1>4, <2>2, <3>1
      <3>2. CASE i = n + 1
        BY <1>3, <1>4, <2>2, <3>2 DEF new
      <3>. QED BY <3>1, <3>2
    <2>4. AllCalled(Append(c, new), cs, w, n + 1)
      BY <1>3, <1>4, <2>1, <2>2, <2>3 DEF AllCalled, U
    <2>. QED BY <1>6, <2>4 DEF new
  <1>7. CASE ~Hears(cs[n + 1], w)
    <2>1. Due(cs, w, n + 1) = D
      BY <1>1, <1>7 DEF Due
    <2>. HIDE DEF T, U, D, new
    <2>2. AllCalled(c, cs, w, n + 1)
      BY <1>4, <1>5, <2>1 DEF AllCalled, U
    <2>. QED BY <1>7, <2>2
  <1>. QED BY <1>6, <1>7

(* FDCAN_RxDispatch()'s loop calls every callback that is due the frame,   *)
(* once, in their order.                                                   *)
LEMMA LoopCallsAll ==
  ASSUME NEW S, NEW cs \in Seq(S), NEW w
  PROVE  AllCalled(CallsTo(cs, w), cs, w, Len(cs))
  <1>. DEFINE N == Len(cs)
              f == CHOOSE f : Loops(f, cs, w, N)
  <1>1. N \in Nat
    OBVIOUS
  <1>2. Loops(f, cs, w, N)
    BY <1>1, LoopEnds
  <1>3. CallsTo(cs, w) = f[N]
    BY DEF CallsTo, Loops
  <1>. HIDE DEF f, N
  <1>4. /\ f[0] = <<>>
        /\ \A n \in 1 .. N : f[n] = IF Hears(cs[n], w) THEN Append(f[n - 1], Told(cs[n], w))
                                    ELSE f[n - 1]
    <2>. DEFINE step(n) == IF n = 0 THEN <<>>
                           ELSE IF Hears(cs[n], w) THEN Append(f[n - 1], Told(cs[n], w))
                           ELSE f[n - 1]
    <2>1. f = [n \in 0 .. N |-> step(n)]
      BY <1>2 DEF Loops
    <2>2. \A n \in 0 .. N : f[n] = step(n)
      <3>. HIDE DEF step
      <3>. QED BY <2>1
    <2>. QED BY <1>1, <2>2
  <1>. DEFINE bad == {n \in 0 .. N : ~AllCalled(f[n], cs, w, n)}
  <1>5. bad = {}
    <2>. SUFFICES ASSUME bad # {} PROVE FALSE
      OBVIOUS
    <2>1. bad \in SUBSET Nat
      BY <1>1
    <2>2. Min(bad) \in bad /\ \A n \in bad : Min(bad) <= n
      <3>. HIDE DEF bad
      <3>. QED BY <2>1, LeastIsThere
    <2>. DEFINE k == Min(bad)
    <2>3. k \in 0 .. N /\ ~AllCalled(f[k], cs, w, k)
      BY <2>2
    <2>4. \A n \in 0 .. N : n < k => AllCalled(f[n], cs, w, n)
      <3>1. k \in Nat /\ \A n \in bad : k <= n
        BY <2>2, <2>3
      <3>. HIDE DEF k
      <3>. QED BY <3>1
    <2>. HIDE DEF k
    <2>5. k # 0
      BY <1>4, <2>3, NoneCalled
    <2>6. k - 1 \in Nat /\ k - 1 \in 0 .. N /\ k - 1 < k /\ (k - 1) + 1 = k /\ k \in 1 .. N
      BY <1>1, <2>3, <2>5
    <2>7. AllCalled(f[k - 1], cs, w, k - 1)
      BY <2>4, <2>6
    <2>8. AllCalled(f[k], cs, w, k)
      BY <1>4, <2>6, <2>7, OneMoreCalled
    <2>. QED BY <2>3, <2>8
  <1>6. AllCalled(f[N], cs, w, N)
    BY <1>1, <1>5
  <1>. QED BY <1>3, <1>6 DEF N

(* What an entry of the table holds. *)
AnyCallback == UNION {Uses[u].callbacks : u \in DOMAIN Uses}
Entry == [hcan : Handles, callbacks : Seq(AnyCallback)]

(* A handle has one entry of the table; nothing is registered any more     *)
(* when frames come, so what was called is what is registered.             *)
TableInv ==
  /\ chosen \in DOMAIN Uses
  /\ maps \in Seq(Entry)
  /\ \A i, j \in DOMAIN maps : maps[i].hcan = maps[j].hcan => i = j
  /\ DOMAIN inbox = Handles /\ \A h \in Handles : inbox[h] # <<>> => running # {}
  /\ last # {} => running # {}
  /\ \A d \in last : d.calls = Calls(d.h, d.wire)

(* What the calls are depends on the table and the build only. *)
LEMMA CallsStay ==
  ASSUME UNCHANGED <<maps, build>>, NEW h, NEW w
  PROVE  Calls(h, w)' = Calls(h, w)
  BY DEF Calls, CallsTo, Registered, MapOf, Told, Hears, OnFdcan

(* Calls that leave table and frames alone. *)
LEMMA TableKept ==
  ASSUME TableInv, UNCHANGED <<chosen, build, maps, inbox, last>>, running \subseteq running'
  PROVE  TableInv'
  <1>1. \A d \in last' : d.calls = Calls(d.h, d.wire)'
    BY CallsStay DEF TableInv
  <1>. QED BY <1>1 DEF TableInv

(* A callback is appended to the entry of its handle, or to a new one, or  *)
(* Error_Handler() is called.                                              *)
LEMMA RegisterStep ==
  ASSUME TableInv, NEW h \in Handles, NEW cb \in use.callbacks, RegisterCallback(h, cb)
  PROVE  TableInv'
  <1>1. cb \in AnyCallback
    BY DEF use, TableInv, AnyCallback
  <1>2. last = {} /\ UNCHANGED <<chosen, inbox, last, running>>
    BY DEF RegisterCallback, receiving, TableInv
  <1>3. maps' \in Seq(Entry) /\ \A i, j \in DOMAIN maps' : maps'[i].hcan = maps'[j].hcan => i = j
    <2>1. CASE UNCHANGED maps
      BY <2>1 DEF TableInv
    <2>2. CASE Registered(h) /\ maps' = [maps EXCEPT ![MapOf(h)].callbacks = Append(@, cb)]
      <3>. DEFINE k == MapOf(h)
                  new == [maps[k] EXCEPT !.callbacks = Append(@, cb)]
      <3>1. k \in DOMAIN maps /\ maps[k].hcan = h
        BY <2>2 DEF MapOf, Registered
      <3>. HIDE DEF k
      <3>2. maps[k] \in Entry
        BY <3>1 DEF TableInv
      <3>3. new \in Entry /\ new.hcan = h
        BY <1>1, <3>1, <3>2 DEF Entry
      <3>4. maps' = [maps EXCEPT ![k] = new]
        BY <2>2 DEF k
      <3>. HIDE DEF new
      <3>5. maps' \in Seq(Entry)
        BY <3>1, <3>3, <3>4, ExceptSeq DEF TableInv
      <3>6. DOMAIN maps' = DOMAIN maps /\ \A i \in DOMAIN maps : maps'[i].hcan = maps[i].hcan
        BY <3>1, <3>3, <3>4 DEF TableInv
      <3>. QED BY <3>5, <3>6 DEF TableInv
    <2>3. CASE ~Registered(h) /\ maps' = Append(maps, [hcan |-> h, callbacks |-> <<cb>>])
      <3>. DEFINE new == [hcan |-> h, callbacks |-> <<cb>>]
      <3>1. new \in Entry /\ new.hcan = h
        BY <1>1 DEF Entry
      <3>. HIDE DEF new
      <3>2. maps' = Append(maps, new)
        BY <2>3 DEF new
      <3>3. /\ maps \in Seq(Entry) /\ Len(maps) \in Nat /\ DOMAIN maps = 1 .. Len(maps)
            /\ maps' \in Seq(Entry) /\ DOMAIN maps' = 1 .. (Len(maps) + 1)
            /\ \A i \in 1 .. Len(maps) : maps'[i] = maps[i]
            /\ maps'[Len(maps) + 1] = new
        BY <3>1, <3>2, AppendProperties DEF TableInv
      <3>4. \A i \in DOMAIN maps : maps[i].hcan # h
        BY <2>3 DEF Registered
      <3>5. ASSUME NEW i \in DOMAIN maps', NEW j \in DOMAIN maps', maps'[i].hcan = maps'[j].hcan
            PROVE  i = j
        <4>1. CASE i \in DOMAIN maps /\ j \in DOMAIN maps
          BY <3>3, <3>5, <4>1 DEF TableInv
        <4>2. CASE i \in DOMAIN maps /\ j = Len(maps) + 1
          BY <3>1, <3>3, <3>4, <3>5, <4>2
        <4>3. CASE i = Len(maps) + 1 /\ j \in DOMAIN maps
          BY <3>1, <3>3, <3>4, <3>5, <4>3
        <4>4. CASE i = Len(maps) + 1 /\ j = Len(maps) + 1
          BY <4>4
        <4>. QED BY <3>3, <4>1, <4>2, <4>3, <4>4
      <3>. QED BY <3>3, <3>5
    <2>. QED BY <2>1, <2>2, <2>3 DEF RegisterCallback
  <1>. QED BY <1>2, <1>3 DEF TableInv

(* A frame is taken out of the FIFO and dispatched. *)
LEMMA DispatchStep ==
  ASSUME TableInv, NEW h \in Handles, RxDispatch(h)
  PROVE  TableInv'
  <1>1. UNCHANGED <<chosen, build, maps, running>> /\ running # {}
    BY DEF RxDispatch, TableInv
  <1>2. inbox' = [inbox EXCEPT ![h] = Tail(@)]
    BY DEF RxDispatch
  <1>3. DOMAIN inbox' = Handles
    BY <1>2 DEF TableInv
  <1>4. \A d \in last' : d.calls = Calls(d.h, d.wire)'
    <2>1. \A d \in last' : d.calls = Calls(d.h, d.wire)
      BY DEF RxDispatch
    <2>. QED BY <1>1, <2>1, CallsStay
  <1>. QED BY <1>1, <1>3, <1>4 DEF TableInv

(* A frame comes in on a handle that was started. *)
LEMMA ArriveStep ==
  ASSUME TableInv, NEW h \in Handles, NEW w, Arrive(h, w)
  PROVE  TableInv'
  <1>1. UNCHANGED <<chosen, build, maps, running, last>> /\ running # {}
    BY DEF Arrive
  <1>2. DOMAIN inbox' = Handles
    BY DEF Arrive, TableInv
  <1>3. \A d \in last' : d.calls = Calls(d.h, d.wire)'
    BY <1>1, CallsStay DEF TableInv
  <1>. QED BY <1>1, <1>2, <1>3 DEF TableInv

(* The inductive invariant of receiving. *)
THEOREM TableInvariance == LegacySpec => []TableInv
  <1>1. LegacyInit => TableInv
    <2>. SUFFICES ASSUME LegacyInit PROVE TableInv
      OBVIOUS
    <2>1. /\ chosen \in DOMAIN Uses /\ maps = <<>> /\ inbox = [h \in Handles |-> <<>>]
          /\ last = {}
      BY DEF LegacyInit
    <2>. QED BY <2>1 DEF TableInv
  <1>2. TableInv /\ [LegacyNext]_legacyVars => TableInv'
    <2>. SUFFICES ASSUME TableInv, [LegacyNext]_legacyVars PROVE TableInv'
      OBVIOUS
    <2>1. use.handles \subseteq Handles
      BY LegacyAssumption DEF use, TableInv
    <2>2. ASSUME NEW h \in Handles, SendMessage(h) PROVE TableInv'
      BY <2>2, TableKept DEF SendMessage, receiving
    <2>3. ASSUME NEW h \in Handles, TxInterrupt(h) PROVE TableInv'
      BY <2>3, TableKept DEF TxInterrupt, receiving
    <2>4. ASSUME NEW h \in Handles, NEW f \in slots[h], SlotEmpties(h, f) PROVE TableInv'
      BY <2>4, TableKept DEF SlotEmpties, receiving
    <2>5. ASSUME NEW h \in Handles, Start(h) PROVE TableInv'
      BY <2>5, TableKept DEF Start, receiving
    <2>6. ASSUME NEW h \in Handles, RxDispatch(h) PROVE TableInv'
      BY <2>6, DispatchStep
    <2>7. ASSUME NEW h \in Handles, NEW cb \in use.callbacks, RegisterCallback(h, cb) PROVE TableInv'
      BY <2>7, RegisterStep
    <2>8. ASSUME NEW h \in Handles, NEW w \in use.wires, Arrive(h, w) PROVE TableInv'
      BY <2>8, ArriveStep
    <2>9. ASSUME NEW b \in use.banks, ConfigFilter(b) PROVE TableInv'
      BY <2>9, TableKept DEF ConfigFilter, receiving
    <2>10. CASE UNCHANGED legacyVars
      BY <2>10, TableKept DEF legacyVars, receiving
    <2>. QED BY <2>1, <2>2, <2>3, <2>4, <2>5, <2>6, <2>7, <2>8, <2>9, <2>10 DEF LegacyNext
  <1>. QED BY <1>1, <1>2, PTL DEF LegacySpec

(* For any table and any callbacks: what arrives is given to every one     *)
(* registered on its handle that is due it, once, in order.                *)
THEOREM DispatchedToAllThm == LegacySpec => []DispatchedToAll
  <1>1. ASSUME TableInv, NEW d \in last
        PROVE  LET mine == {i \in DOMAIN maps : maps[i].hcan = d.h}
                   heard == IF mine = {} THEN <<>> ELSE maps[CHOOSE i \in mine : TRUE].callbacks
                   due  == {i \in DOMAIN heard : d.wire.fd => heard[i].style = "fdcan"}
               IN  /\ Cardinality(mine) <= 1
                   /\ Len(d.calls) = Cardinality(due)
                   /\ \A i \in due :
                        LET call == d.calls[Cardinality({j \in due : j <= i})] IN
                        /\ call.name = heard[i].name /\ call.style = heard[i].style
                        /\ call.id = d.wire.id /\ call.ext = d.wire.ext /\ call.remote = d.wire.remote
    <2>. DEFINE mine == {i \in DOMAIN maps : maps[i].hcan = d.h}
                heard == IF mine = {} THEN <<>> ELSE maps[CHOOSE i \in mine : TRUE].callbacks
                due  == {i \in DOMAIN heard : d.wire.fd => heard[i].style = "fdcan"}
    <2>1. d.calls = Calls(d.h, d.wire)
      BY <1>1 DEF TableInv
    <2>2. heard \in Seq(AnyCallback) /\ d.calls = CallsTo(heard, d.wire) /\ Cardinality(mine) <= 1
      <3>1. CASE mine = {}
        <4>1. heard = <<>> /\ Cardinality(mine) = 0
          BY <3>1, FS_EmptySet
        <4>2. ~Registered(d.h)
          BY <3>1 DEF Registered
        <4>. HIDE DEF heard, mine
        <4>3. CallsTo(<<>>, d.wire) = <<>>
          <5>1. AllCalled(CallsTo(<<>>, d.wire), <<>>, d.wire, Len(<<>>))
            <6>1. <<>> \in Seq({})
              OBVIOUS
            <6>. QED BY <6>1, LoopCallsAll
          <5>2. Due(<<>>, d.wire, Len(<<>>)) = {}
            BY DEF Due
          <5>3. Len(CallsTo(<<>>, d.wire)) = 0
            BY <5>1, <5>2, FS_EmptySet DEF AllCalled
          <5>. QED BY <5>1, <5>3 DEF AllCalled
        <4>. QED BY <2>1, <4>1, <4>2, <4>3 DEF Calls
      <3>2. CASE mine # {}
        <4>1. PICK i \in mine : TRUE
          BY <3>2
        <4>2. mine = {i}
          BY <1>1, <4>1 DEF TableInv
        <4>3. Registered(d.h) /\ MapOf(d.h) = i /\ heard = maps[i].callbacks
          BY <4>1, <4>2 DEF Registered, MapOf
        <4>4. maps[i] \in Entry
          BY <1>1, <4>1 DEF TableInv
        <4>5. Cardinality(mine) = 1
          BY <4>2, FS_Singleton
        <4>. HIDE DEF heard, mine
        <4>. QED BY <2>1, <4>3, <4>4, <4>5 DEF Calls, Entry
      <3>. QED BY <3>1, <3>2
    <2>. HIDE DEF heard, mine
    <2>3. AllCalled(d.calls, heard, d.wire, Len(heard))
      BY <2>2, LoopCallsAll
    <2>4. due = Due(heard, d.wire, Len(heard))
      <3>1. DOMAIN heard = 1 .. Len(heard)
        BY <2>2
      <3>. QED BY <3>1, Zenon DEF Due, Hears
    <2>. HIDE DEF due
    <2>5. Len(d.calls) = Cardinality(due)
      BY <2>3, <2>4 DEF AllCalled
    <2>6. ASSUME NEW i \in due
          PROVE  LET call == d.calls[Cardinality({j \in due : j <= i})] IN
                 /\ call.name = heard[i].name /\ call.style = heard[i].style
                 /\ call.id = d.wire.id /\ call.ext = d.wire.ext /\ call.remote = d.wire.remote
      <3>1. d.calls[Cardinality({j \in due : j <= i})] = Told(heard[i], d.wire)
        BY <2>3, <2>4 DEF AllCalled, Rank
      <3>. QED BY <3>1 DEF Told
    <2>. QED BY <2>2, <2>5, <2>6 DEF due, heard, mine
  <1>2. TableInv => DispatchedToAll
    BY <1>1 DEF DispatchedToAll
  <1>. QED BY <1>2, TableInvariance, PTL

-----------------------------------------------------------------------------
(* can_driver2: checks and lengths.                                        *)

(* "Ok" from a list of checks is that none of them fails. *)
LEMMA AllChecksPass ==
  ASSUME NEW n \in Nat, NEW checks, DOMAIN checks = 1 .. n,
         \A i \in 1 .. n : checks[i][1] => checks[i][2] # "Ok",
         FirstFailure(checks) = "Ok"
  PROVE  \A i \in 1 .. n : ~checks[i][1]
  <1>. DEFINE failed == {i \in DOMAIN checks : checks[i][1]}
  <1>1. CASE failed = {}
    BY <1>1
  <1>2. CASE failed # {}
    <2>1. Min(failed) \in failed
      BY LeastIsThere, <1>2
    <2>2. FirstFailure(checks) = checks[Min(failed)][2]
      BY <1>2 DEF FirstFailure
    <2>. QED BY <2>1, <2>2
  <1>. QED BY <1>1, <1>2

(* What a frame is that send() hands to the hardware. *)
SendableFrame(v) ==
  /\ IsValidId(v.ext, v.id)
  /\ v.fd \/ ~(v.brs \/ v.esi)
  /\ v.fd \/ ~v.remote \/ ~(v.len # 0 \/ v.rlen > 8)
  /\ v.fd \/ v.remote \/ ~(v.len > 8 \/ v.rlen # 0)
  /\ ~v.fd \/ ~(v.remote \/ v.rlen # 0 \/ ~IsFdLength(v.len))

(* What validate_frame() lets pass. *)
LEMMA ValidFrame ==
  ASSUME NEW backend, NEW v, ValidateFrame(backend, v) = "Ok"
  PROVE  SendableFrame(v) /\ (~v.fd \/ backend # "bxcan")
  <1>. DEFINE checks == <<
    <<~IsValidId(v.ext, v.id), "InvalidArgument">>,
    <<~v.fd /\ (v.brs \/ v.esi), "InvalidArgument">>,
    <<~v.fd /\ v.remote /\ (v.len # 0 \/ v.rlen > 8), "InvalidArgument">>,
    <<~v.fd /\ ~v.remote /\ (v.len > 8 \/ v.rlen # 0), "InvalidArgument">>,
    <<v.fd /\ (v.remote \/ v.rlen # 0 \/ ~IsFdLength(v.len)), "InvalidArgument">>,
    <<v.fd /\ backend = "bxcan", "Unsupported">> >>
  <1>1. DOMAIN checks = 1 .. 6 /\ \A i \in 1 .. 6 : checks[i][1] => checks[i][2] # "Ok"
    OBVIOUS
  <1>2. FirstFailure(checks) = "Ok"
    BY DEF ValidateFrame
  <1>3. /\ checks[1][1] = ~IsValidId(v.ext, v.id)
        /\ checks[2][1] = (~v.fd /\ (v.brs \/ v.esi))
        /\ checks[3][1] = (~v.fd /\ v.remote /\ (v.len # 0 \/ v.rlen > 8))
        /\ checks[4][1] = (~v.fd /\ ~v.remote /\ (v.len > 8 \/ v.rlen # 0))
        /\ checks[5][1] = (v.fd /\ (v.remote \/ v.rlen # 0 \/ ~IsFdLength(v.len)))
        /\ checks[6][1] = (v.fd /\ backend = "bxcan")
    OBVIOUS
  <1>. HIDE DEF checks
  <1>4. \A i \in 1 .. 6 : ~checks[i][1]
    BY <1>1, <1>2, AllChecksPass
  <1>5. /\ ~checks[1][1] /\ ~checks[2][1] /\ ~checks[3][1] /\ ~checks[4][1] /\ ~checks[5][1]
        /\ ~checks[6][1]
    BY <1>4
  <1>. QED BY <1>3, <1>5, Zenon DEF SendableFrame

(* What FDCAN's validate_hardware_frame() lets pass. *)
LEMMA ValidOnFdcan ==
  ASSUME NEW node, NEW v, ValidateOnFdcan(node, v) = "Ok"
  PROVE  /\ ~v.fd \/ node.format # "classic"
         /\ ~v.fd \/ ~v.brs \/ ~(node.format # "brs")
         /\ ~(Payload(v) > 64)
         /\ ~(Words(Payload(v)) > TxElementCapacityWords(node))
  <1>. DEFINE checks == <<
    <<v.fd /\ node.format = "classic", "Unsupported">>,
    <<v.fd /\ v.remote, "Unsupported">>,
    <<v.fd /\ v.brs /\ node.format # "brs", "Unsupported">>,
    <<~v.fd /\ (v.brs \/ Payload(v) > 8), "InvalidConfiguration">>,
    <<v.remote /\ Payload(v) > 8, "InvalidConfiguration">>,
    <<Payload(v) > 64, "Unsupported">>,
    <<TxFifoElements(node) = 0, "Unsupported">>,
    <<Words(Payload(v)) > TxElementCapacityWords(node), "Unsupported">> >>
  <1>1. DOMAIN checks = 1 .. 8 /\ \A i \in 1 .. 8 : checks[i][1] => checks[i][2] # "Ok"
    OBVIOUS
  <1>2. FirstFailure(checks) = "Ok"
    BY DEF ValidateOnFdcan
  <1>3. /\ checks[1][1] = (v.fd /\ node.format = "classic")
        /\ checks[3][1] = (v.fd /\ v.brs /\ node.format # "brs")
        /\ checks[6][1] = (Payload(v) > 64)
        /\ checks[8][1] = (Words(Payload(v)) > TxElementCapacityWords(node))
    OBVIOUS
  <1>. HIDE DEF checks
  <1>4. \A i \in 1 .. 8 : ~checks[i][1]
    BY <1>1, <1>2, AllChecksPass
  <1>5. ~checks[1][1] /\ ~checks[3][1] /\ ~checks[6][1] /\ ~checks[8][1]
    BY <1>4
  <1>. QED BY <1>3, <1>5, Zenon

(* A submitted frame has passed both validations. *)
LEMMA ValidSend ==
  ASSUME NEW v, SendResult(SendStatus(v)) = "Submitted"
  PROVE  ValidateFrame(tx.backend, v) = "Ok" /\ ValidateHardwareFrame(tx, v) = "Ok"
  <1>. DEFINE first == ValidateFrame(tx.backend, v)
              second == ValidateHardwareFrame(tx, v)
              checks == << <<first # "Ok", first>>, <<second # "Ok", second>> >>
  <1>1. DOMAIN checks = 1 .. 2 /\ \A i \in 1 .. 2 : checks[i][1] => checks[i][2] # "Ok"
    <2>. HIDE DEF first, second
    <2>1. DOMAIN checks = 1 .. 2
      OBVIOUS
    <2>2. checks[1][1] = (first # "Ok") /\ checks[1][2] = first
      OBVIOUS
    <2>3. checks[2][1] = (second # "Ok") /\ checks[2][2] = second
      OBVIOUS
    <2>. HIDE DEF checks
    <2>4. ASSUME NEW i \in 1 .. 2, checks[i][1] PROVE checks[i][2] # "Ok"
      <3>1. CASE i = 1
        BY <2>2, <2>4, <3>1, Zenon
      <3>2. CASE i = 2
        BY <2>3, <2>4, <3>2, Zenon
      <3>. QED BY <3>1, <3>2
    <2>. QED BY <2>1, <2>4
  <1>2. FirstFailure(checks) = "Ok"
    BY DEF SendStatus, SendResult
  <1>3. checks[1][1] = (first # "Ok") /\ checks[2][1] = (second # "Ok")
    OBVIOUS
  <1>. HIDE DEF checks
  <1>4. \A i \in 1 .. 2 : ~checks[i][1]
    BY <1>1, <1>2, AllChecksPass
  <1>5. ~checks[1][1] /\ ~checks[2][1]
    BY <1>4
  <1>. QED BY <1>3, <1>5

(* What configure_filter() lets pass on FDCAN: an element and an Rx        *)
(* buffer that the controller has, buffers for masks only.                 *)
LEMMA ValidIdFilter ==
  ASSUME NEW c, NEW f, IdFilterOnFdcan(c, f) = "Ok"
  PROVE  /\ ~(f.index >= FilterCapacity(c, f.ext))
         /\ f.action = "RxBuffer" => f.mode = "Mask" /\ ~(f.buffer >= RxBufferCount(c))
  <1>. DEFINE checks == <<
    <<FilterCapacity(c, f.ext) = 0, "NoCapacity">>,
    <<f.index >= FilterCapacity(c, f.ext), "OutOfRange">>,
    <<~(f.id1 \subseteq LimitOf(f.ext)), "InvalidArgument">>,
    <<f.mode = "RangeWithoutExtendedMask" /\ ~f.ext, "Unsupported">>,
    <<f.action = "RxBuffer" /\ c.fixed, "Unsupported">>,
    <<~(f.id2 \subseteq LimitOf(f.ext)), "InvalidArgument">>,
    <<f.mode \in Ranges /\ ~AtMost(f.id1, f.id2), "InvalidArgument">>,
    <<f.action = "RxBuffer" /\ (f.mode # "Mask" \/ f.id2 # {}), "InvalidArgument">>,
    <<f.action = "RxBuffer" /\ f.calibration /\ f.ext, "InvalidArgument">>,
    <<f.action = "RxBuffer" /\ RxBufferCount(c) = 0, "NoCapacity">>,
    <<f.action = "RxBuffer" /\ f.buffer >= RxBufferCount(c), "OutOfRange">>,
    <<f.action # "RxBuffer" /\ f.buffer # 0, "InvalidArgument">>,
    <<f.action # "RxBuffer" /\ f.calibration, "Unsupported">>,
    <<TargetOf(f.action) # "none" /\ RxFifoElements(c, TargetOf(f.action)) = 0,
      "NoCapacity">> >>
  <1>1. DOMAIN checks = 1 .. 14 /\ \A i \in 1 .. 14 : checks[i][1] => checks[i][2] # "Ok"
    OBVIOUS
  <1>2. FirstFailure(checks) = "Ok"
    BY DEF IdFilterOnFdcan
  <1>3. /\ checks[2][1] = (f.index >= FilterCapacity(c, f.ext))
        /\ checks[8][1] = (f.action = "RxBuffer" /\ (f.mode # "Mask" \/ f.id2 # {}))
        /\ checks[11][1] = (f.action = "RxBuffer" /\ f.buffer >= RxBufferCount(c))
    OBVIOUS
  <1>. HIDE DEF checks
  <1>4. \A i \in 1 .. 14 : ~checks[i][1]
    BY <1>1, <1>2, AllChecksPass
  <1>5. ~checks[2][1] /\ ~checks[8][1] /\ ~checks[11][1]
    BY <1>4
  <1>. QED BY <1>3, <1>5

(* And on bxCAN: what a bank can express. *)
LEMMA ValidBankFilter ==
  ASSUME NEW c, NEW f, IdFilterOnBxcan(c, f) = "Ok"
  PROVE  /\ ~(f.index >= c.banks)
         /\ f.id1 \cup f.id2 \subseteq LimitOf(f.ext)
         /\ f.action \in {"Disable", "Fifo0", "Fifo1"}
         /\ f.action # "Disable" => /\ f.mode \notin Ranges
                                    /\ f.mode = "List" /\ f.ext => f.id1 = f.id2
  <1>. DEFINE checks == <<
    <<f.index >= c.banks, "OutOfRange">>,
    <<f.action # "RxBuffer" /\ f.buffer # 0, "InvalidArgument">>,
    <<f.calibration, "Unsupported">>,
    <<~(f.id1 \cup f.id2 \subseteq LimitOf(f.ext)), "InvalidArgument">>,
    <<f.action \notin {"Disable", "Fifo0", "Fifo1"}, "Unsupported">>,
    <<f.action # "Disable" /\ f.mode \in Ranges, "Unsupported">>,
    <<f.action # "Disable" /\ f.mode = "List" /\ f.ext /\ f.id1 # f.id2, "Unsupported">> >>
  <1>1. DOMAIN checks = 1 .. 7 /\ \A i \in 1 .. 7 : checks[i][1] => checks[i][2] # "Ok"
    OBVIOUS
  <1>2. FirstFailure(checks) = "Ok"
    BY DEF IdFilterOnBxcan
  <1>3. /\ checks[1][1] = (f.index >= c.banks)
        /\ checks[4][1] = ~(f.id1 \cup f.id2 \subseteq LimitOf(f.ext))
        /\ checks[5][1] = (f.action \notin {"Disable", "Fifo0", "Fifo1"})
        /\ checks[6][1] = (f.action # "Disable" /\ f.mode \in Ranges)
        /\ checks[7][1] = (f.action # "Disable" /\ f.mode = "List" /\ f.ext /\ f.id1 # f.id2)
    OBVIOUS
  <1>. HIDE DEF checks
  <1>4. \A i \in 1 .. 7 : ~checks[i][1]
    BY <1>1, <1>2, AllChecksPass
  <1>5. ~checks[1][1] /\ ~checks[4][1] /\ ~checks[5][1] /\ ~checks[6][1] /\ ~checks[7][1]
    BY <1>4
  <1>. QED BY <1>3, <1>5

-----------------------------------------------------------------------------
(* The sixteen data length codes. *)
LEMMA DlcTable ==
  /\ BytesFromDlc(0) = 0 /\ BytesFromDlc(1) = 1 /\ BytesFromDlc(2) = 2 /\ BytesFromDlc(3) = 3
  /\ BytesFromDlc(4) = 4 /\ BytesFromDlc(5) = 5 /\ BytesFromDlc(6) = 6 /\ BytesFromDlc(7) = 7
  /\ BytesFromDlc(8) = 8 /\ BytesFromDlc(9) = 12 /\ BytesFromDlc(10) = 16
  /\ BytesFromDlc(11) = 20 /\ BytesFromDlc(12) = 24 /\ BytesFromDlc(13) = 32
  /\ BytesFromDlc(14) = 48 /\ BytesFromDlc(15) = 64
  BY DEF BytesFromDlc

(* The code found for a length is the code of that length. *)
LEMMA DlcOfLength ==
  ASSUME NEW n \in Nat, IsFdLength(n)
  PROVE  DlcFromLength(n) \in 0 .. 15 /\ BytesFromDlc(DlcFromLength(n)) = n
  <1>1. \E d \in 0 .. 15 : BytesFromDlc(d) = n
    <2>1. n = 0 \/ n = 1 \/ n = 2 \/ n = 3 \/ n = 4 \/ n = 5 \/ n = 6 \/ n = 7 \/ n = 8 \/ n = 12
            \/ n = 16 \/ n = 20 \/ n = 24 \/ n = 32 \/ n = 48 \/ n = 64
      BY DEF IsFdLength
    <2>. QED BY <2>1, DlcTable
  <1>. QED BY <1>1 DEF DlcFromLength

(* A code gives at most 64 bytes, and itself up to eight. *)
LEMMA DlcIsShort ==
  ASSUME NEW d \in 0 .. 15
  PROVE  /\ BytesFromDlc(d) \in 0 .. 64
         /\ BytesFromDlc(d) <= 8 <=> d <= 8
         /\ d <= 8 => BytesFromDlc(d) = d
  <1>1. d = 0 \/ d = 1 \/ d = 2 \/ d = 3 \/ d = 4 \/ d = 5 \/ d = 6 \/ d = 7 \/ d = 8 \/ d = 9
          \/ d = 10 \/ d = 11 \/ d = 12 \/ d = 13 \/ d = 14 \/ d = 15
    OBVIOUS
  <1>. QED BY <1>1, DlcTable

(* A foreign frame is told as it is on the wire. *)
LEMMA ToldAsMeant ==
  ASSUME NEW backend \in {"fdcan", "bxcan"}, NEW w \in WireFrames, backend = "bxcan" => ~w.fd
  PROVE  View(backend, w) = Meaning(w) /\ Meaning(w) \in FrameViews
  <1>. DEFINE raw == BytesFromDlc(w.dlc)
              short == IF w.dlc > 8 THEN 8 ELSE w.dlc
              n == IF w.fd THEN raw ELSE short
  <1>1. /\ w.dlc \in 0 .. 15 /\ w.ext \in BOOLEAN /\ w.fd \in BOOLEAN /\ w.remote \in BOOLEAN
        /\ w.brs \in BOOLEAN /\ w.esi \in BOOLEAN /\ w.tag \in Nat /\ w.id \in SUBSET (0 .. 31)
    BY DEF WireFrames
  <1>2. raw \in 0 .. 64 /\ (raw <= 8 <=> w.dlc <= 8) /\ (w.dlc <= 8 => raw = w.dlc)
    BY <1>1, DlcIsShort
  <1>3. Min({w.dlc, 8}) = short
    BY <1>1 DEF Min
  <1>4. (IF ~w.fd /\ raw > 8 THEN 8 ELSE raw) = n
    <2>. HIDE DEF raw
    <2>1. CASE w.fd
      BY <2>1
    <2>2. CASE ~w.fd
      BY <1>1, <1>2, <2>2
    <2>. QED BY <2>1, <2>2
  <1>. DEFINE told == [id |-> w.id, ext |-> w.ext, fd |-> w.fd, remote |-> w.remote,
                       brs |-> w.fd /\ w.brs, esi |-> w.fd /\ w.esi,
                       rlen |-> IF w.remote THEN n ELSE 0, len |-> IF w.remote THEN 0 ELSE n,
                       tag |-> IF w.remote \/ n = 0 THEN 0 ELSE w.tag]
  <1>5. Meaning(w) = told
    <2>. HIDE DEF raw, short
    <2>. QED BY <1>3 DEF Meaning, raw, short
  <1>6. FdcanView(w) = told
    <2>. QED BY <1>4 DEF FdcanView
  <1>7. ASSUME ~w.fd PROVE BxcanView(w) = told
    <2>. HIDE DEF raw, short
    <2>1. w.fd = FALSE /\ (w.fd /\ w.brs) = FALSE /\ (w.fd /\ w.esi) = FALSE /\ n = short
      BY <1>1, <1>7
    <2>2. BxcanView(w) = [id |-> w.id, ext |-> w.ext, fd |-> FALSE, remote |-> w.remote,
                          brs |-> FALSE, esi |-> FALSE,
                          rlen |-> IF w.remote THEN short ELSE 0,
                          len |-> IF w.remote THEN 0 ELSE short,
                          tag |-> IF w.remote \/ short = 0 THEN 0 ELSE w.tag]
      BY DEF BxcanView, short
    <2>. HIDE DEF n
    <2>. QED BY <2>1, <2>2
  <1>8. told \in FrameViews
    <2>. HIDE DEF raw, short
    <2>1. n \in Nat
      BY <1>1, <1>2 DEF short
    <2>2. (w.fd /\ w.brs) \in BOOLEAN /\ (w.fd /\ w.esi) \in BOOLEAN
      OBVIOUS
    <2>. HIDE DEF n
    <2>. QED BY <1>1, <2>1, <2>2 DEF FrameViews
  <1>. HIDE DEF told
  <1>. QED BY <1>5, <1>6, <1>7, <1>8 DEF View

(* A submitted frame is told as it was given to send(), by either backend. *)
LEMMA SentAsMeant ==
  ASSUME NEW backend \in {"fdcan", "bxcan"}, NEW node \in Transmitters, NEW v \in FrameViews,
         v.len = 0 => v.tag = 0, backend = "bxcan" => ~v.fd,
         ValidateFrame(node.backend, v) = "Ok", ValidateHardwareFrame(node, v) = "Ok"
  PROVE  LET w == OnTheWire(node, v) IN
         w \in WireFrames /\ (backend = "bxcan" => ~w.fd) /\ View(backend, w) = v
  <1>. DEFINE d == DlcFromLength(Payload(v))
              fd == v.fd /\ node.backend = "fdcan" /\ node.format # "classic"
              w == OnTheWire(node, v)
  <1>1. /\ v.ext \in BOOLEAN /\ v.fd \in BOOLEAN /\ v.remote \in BOOLEAN /\ v.brs \in BOOLEAN
        /\ v.esi \in BOOLEAN /\ v.rlen \in Nat /\ v.len \in Nat /\ v.tag \in Nat
        /\ v.id \in SUBSET (0 .. 31)
        /\ v = [id |-> v.id, ext |-> v.ext, fd |-> v.fd, remote |-> v.remote, brs |-> v.brs,
                esi |-> v.esi, rlen |-> v.rlen, len |-> v.len, tag |-> v.tag]
    BY DEF FrameViews
  <1>2. SendableFrame(v) /\ (~v.fd \/ node.backend # "bxcan")
    BY ValidFrame
  <1>3. v.fd => /\ node.backend = "fdcan" /\ node.format # "classic"
                /\ (v.brs => node.format = "brs")
    <2>1. node.backend \in {"fdcan", "bxcan"}
      BY DEF Transmitters
    <2>2. v.fd => ValidateOnFdcan(node, v) = "Ok" /\ node.backend = "fdcan"
      BY <1>2, <2>1 DEF ValidateHardwareFrame
    <2>. QED BY <2>2, ValidOnFdcan
  <1>4. fd = v.fd /\ (fd /\ v.brs /\ node.format = "brs") = v.brs /\ (fd /\ v.esi) = v.esi
    BY <1>1, <1>2, <1>3, Zenon DEF SendableFrame
  <1>5. v.remote => ~v.fd /\ v.len = 0 /\ v.rlen <= 8 /\ Payload(v) = v.rlen
    BY <1>1, <1>2 DEF SendableFrame, Payload
  <1>6. ~v.remote => v.rlen = 0 /\ IsFdLength(v.len) /\ Payload(v) = v.len /\ (v.fd \/ v.len <= 8)
    BY <1>1, <1>2 DEF SendableFrame, Payload, IsFdLength
  <1>7. Payload(v) \in Nat /\ IsFdLength(Payload(v)) /\ (v.fd \/ Payload(v) <= 8)
    BY <1>1, <1>5, <1>6 DEF IsFdLength
  <1>8. /\ d \in 0 .. 15 /\ BytesFromDlc(d) = Payload(v)
        /\ v.fd \/ (d <= 8 /\ d = Payload(v))
    <2>1. d \in 0 .. 15 /\ BytesFromDlc(d) = Payload(v)
      BY <1>7, DlcOfLength
    <2>. HIDE DEF d
    <2>2. (BytesFromDlc(d) <= 8 <=> d <= 8) /\ (d <= 8 => BytesFromDlc(d) = d)
      BY <2>1, DlcIsShort
    <2>. QED BY <1>7, <2>1, <2>2
  <1>9. w = [id |-> v.id, ext |-> v.ext, fd |-> v.fd, remote |-> v.remote, brs |-> v.brs,
             esi |-> v.esi, dlc |-> d, tag |-> IF v.remote \/ v.len = 0 THEN 0 ELSE v.tag]
    <2>. HIDE DEF d, fd
    <2>1. w = [id |-> v.id, ext |-> v.ext, fd |-> fd, remote |-> v.remote,
               brs |-> fd /\ v.brs /\ node.format = "brs", esi |-> fd /\ v.esi,
               dlc |-> d, tag |-> IF v.remote \/ v.len = 0 THEN 0 ELSE v.tag]
      BY DEF OnTheWire, fd, d
    <2>. HIDE DEF w
    <2>. QED BY <1>4, <2>1, Zenon
  <1>. HIDE DEF d, fd, w
  <1>10. w \in WireFrames /\ (backend = "bxcan" => ~w.fd)
    <2>1. (IF v.remote \/ v.len = 0 THEN 0 ELSE v.tag) \in Nat
      BY <1>1
    <2>2. w \in WireFrames
      BY <1>1, <1>8, <1>9, <2>1 DEF WireFrames
    <2>3. w.fd = v.fd
      BY <1>9
    <2>. QED BY <2>2, <2>3
  <1>11. Meaning(w) = v
    <2>. DEFINE n == IF w.fd THEN BytesFromDlc(w.dlc) ELSE Min({w.dlc, 8})
                tag == IF w.remote \/ n = 0 THEN 0 ELSE w.tag
    <2>1. n = Payload(v)
      <3>1. CASE v.fd
        BY <1>8, <1>9, <3>1
      <3>2. CASE ~v.fd
        BY <1>8, <1>9, <3>2 DEF Min
      <3>. QED BY <3>1, <3>2
    <2>2. Meaning(w) = [id |-> w.id, ext |-> w.ext, fd |-> w.fd, remote |-> w.remote,
                        brs |-> w.fd /\ w.brs, esi |-> w.fd /\ w.esi,
                        rlen |-> IF w.remote THEN n ELSE 0,
                        len |-> IF w.remote THEN 0 ELSE n, tag |-> tag]
      BY DEF Meaning
    <2>. HIDE DEF n
    <2>3. /\ w.id = v.id /\ w.ext = v.ext /\ w.fd = v.fd /\ w.remote = v.remote /\ w.brs = v.brs
          /\ w.esi = v.esi /\ w.tag = IF v.remote \/ v.len = 0 THEN 0 ELSE v.tag
      BY <1>9
    <2>4. (v.fd /\ v.brs) = v.brs /\ (v.fd /\ v.esi) = v.esi
      BY <1>1, <1>2, Zenon DEF SendableFrame
    <2>5. /\ (IF v.remote THEN n ELSE 0) = v.rlen
          /\ (IF v.remote THEN 0 ELSE n) = v.len
      BY <1>5, <1>6, <2>1
    <2>6. tag = v.tag
      BY <1>5, <1>6, <2>1, <2>3
    <2>. HIDE DEF tag
    <2>7. Meaning(w) = [id |-> v.id, ext |-> v.ext, fd |-> v.fd, remote |-> v.remote,
                        brs |-> v.brs, esi |-> v.esi, rlen |-> v.rlen, len |-> v.len,
                        tag |-> v.tag]
      BY <2>2, <2>3, <2>4, <2>5, <2>6, Zenon
    <2>. QED BY <1>1, <2>7
  <1>12. View(backend, w) = Meaning(w)
    BY <1>10, ToldAsMeant
  <1>. QED BY <1>10, <1>11, <1>12 DEF w

(* The HAL reads what somebody wrote, and fills no more than a Tx element. *)
LEMMA ReadsInside ==
  ASSUME NEW node \in Transmitters, NEW v \in FrameViews, NEW stored \in BOOLEAN,
         ValidateFrame(node.backend, v) = "Ok", ValidateHardwareFrame(node, v) = "Ok"
  PROVE  /\ HalReads(node, v) <= Source(node, v, stored)
         /\ node.backend = "fdcan" => HalReads(node, v) <= 4 * TxElementCapacityWords(node)
  <1>. DEFINE wide == 4 * Words(v.len)
  <1>1. /\ v.remote \in BOOLEAN /\ v.rlen \in Nat /\ v.len \in Nat
        /\ node.backend \in {"fdcan", "bxcan"} /\ node.words \in Nat
    BY DEF FrameViews, Transmitters
  <1>2. CASE node.backend = "fdcan"
    <2>1. /\ HalReads(node, v) = 4 * Words(Payload(v))
          /\ Source(node, v, stored) = FdcanSource(v, stored)
      BY <1>2 DEF HalReads, Source
    <2>2. Payload(v) \in Nat /\ (~v.remote => Payload(v) = v.len)
      BY <1>1 DEF Payload
    <2>3. Words(Payload(v)) \in Nat /\ TxElementCapacityWords(node) \in Nat
      BY <1>1, <2>2 DEF Words, TxElementCapacityWords
    <2>4. Words(Payload(v)) <= TxElementCapacityWords(node)
      <3>1. ValidateOnFdcan(node, v) = "Ok"
        BY <1>2 DEF ValidateHardwareFrame
      <3>2. ~(Words(Payload(v)) > TxElementCapacityWords(node))
        BY <3>1, ValidOnFdcan
      <3>. QED BY <2>3, <3>2
    <2>5. CASE stored /\ ~v.remote /\ v.len # 0
      <3>1. FdcanSource(v, stored) = Max({wide, v.len})
        BY <2>5 DEF FdcanSource, StoredBytes
      <3>2. wide \in Nat
        BY <1>1 DEF Words
      <3>3. HalReads(node, v) = wide
        BY <2>1, <2>2, <2>5
      <3>. HIDE DEF wide
      <3>4. Max({wide, v.len}) >= wide /\ Max({wide, v.len}) \in Nat
        BY <1>1, <3>2 DEF Max
      <3>5. HalReads(node, v) <= Source(node, v, stored)
        BY <2>1, <3>1, <3>2, <3>3, <3>4
      <3>. QED BY <2>1, <2>3, <2>4, <3>5
    <2>6. CASE ~(stored /\ ~v.remote /\ v.len # 0) /\ ~v.remote /\ v.len # 0 /\ v.len % 4 = 0
      <3>1. FdcanSource(v, stored) = v.len
        BY <2>6 DEF FdcanSource
      <3>2. 4 * Words(v.len) = v.len
        BY <1>1, <2>6 DEF Words
      <3>. QED BY <2>1, <2>2, <2>3, <2>4, <2>6, <3>1, <3>2
    <2>7. CASE ~(stored /\ ~v.remote /\ v.len # 0) /\ ~(~v.remote /\ v.len # 0 /\ v.len % 4 = 0)
      <3>1. FdcanSource(v, stored) = 4 * Words(Payload(v))
        BY <2>7 DEF FdcanSource
      <3>. QED BY <2>1, <2>3, <2>4, <3>1
    <2>. QED BY <2>5, <2>6, <2>7
  <1>3. CASE node.backend = "bxcan"
    <2>1. HalReads(node, v) = 8 /\ Source(node, v, stored) = BxcanSource(v, stored)
      BY <1>3 DEF HalReads, Source
    <2>2. Max({8, v.len}) >= 8
      BY <1>1 DEF Max
    <2>3. BxcanSource(v, stored) >= 8
      <3>1. CASE ~v.remote /\ stored
        BY <2>2, <3>1 DEF BxcanSource, StoredBytes
      <3>2. CASE ~(~v.remote /\ stored)
        BY <3>2 DEF BxcanSource
      <3>. QED BY <3>1, <3>2
    <2>4. BxcanSource(v, stored) \in Nat
      <3>1. Max({8, v.len}) \in Nat
        BY <1>1 DEF Max
      <3>2. CASE ~v.remote /\ stored
        BY <3>1, <3>2 DEF BxcanSource, StoredBytes
      <3>3. CASE ~(~v.remote /\ stored)
        BY <1>1, <3>3 DEF BxcanSource
      <3>. QED BY <3>2, <3>3
    <2>. QED BY <1>3, <2>1, <2>3, <2>4
  <1>. QED BY <1>1, <1>2, <1>3

(* ... and writes no more than the receive buffer holds, or an Rx element. *)
LEMMA WritesInside ==
  ASSUME NEW backend \in {"fdcan", "bxcan"}, NEW w \in WireFrames
  PROVE  /\ HalWrites(backend, w) <= MaxDataLength(backend)
         /\ backend = "fdcan" => HalWrites(backend, w) <= 64
         /\ HalWrites(backend, w) \in Nat
  <1>1. BytesFromDlc(w.dlc) \in 0 .. 64
    BY DlcIsShort DEF WireFrames
  <1>. QED BY <1>1 DEF HalWrites, MaxDataLength

-----------------------------------------------------------------------------
(* Where a frame is put. *)

(* The Rx buffers the controller has. *)
BuffersOf(c) == {BufferNames[i] : i \in 1 .. RxBufferCount(c)}

(* The Rx buffers a driver walks over are those the controller has. *)
LEMMA BufferCount ==
  ASSUME NEW c \in Receivers
  PROVE  /\ RxBufferCount(c) \in 0 .. 2
         /\ \A n \in Nat : n < RxBufferCount(c) => BufferNames[n + 1] \in BuffersOf(c)
         /\ BuffersOf(c) \subseteq Buffers
         /\ SubSeq(BufferNames, 1, RxBufferCount(c)) \in Seq(Locations)
         /\ \A b \in BuffersOf(c) :
              \E i \in DOMAIN SubSeq(BufferNames, 1, RxBufferCount(c)) :
                SubSeq(BufferNames, 1, RxBufferCount(c))[i] = b
  <1>1. RxBufferCount(c) \in 0 .. 2
    <2>1. c.buffers \in 0 .. 2 /\ c.fixed \in BOOLEAN
      BY DEF Receivers
    <2>2. Min({c.buffers, 64}) = c.buffers
      BY <2>1 DEF Min
    <2>. QED BY <2>1, <2>2 DEF RxBufferCount
  <1>. DEFINE k == RxBufferCount(c)
              s == SubSeq(BufferNames, 1, k)
  <1>. HIDE DEF k
  <1>2. /\ BufferNames \in Seq(Locations) /\ Len(BufferNames) = 2
        /\ BufferNames[1] = "buf0" /\ BufferNames[2] = "buf1"
    BY DEF BufferNames, Locations
  <1>3. s \in Seq(Locations) /\ Len(s) = k /\ \A i \in 1 .. k : s[i] = BufferNames[i]
    <2>1. k \in 0 .. Len(BufferNames) /\ 1 \in 1 .. Len(BufferNames) + 1 /\ k - 1 + 1 = k
      BY <1>1, <1>2 DEF k
    <2>. QED BY <1>2, <2>1, SubSeqProperties
  <1>. HIDE DEF s
  <1>4. DOMAIN s = 1 .. k
    BY <1>3, LenProperties
  <1>5. BuffersOf(c) = {BufferNames[i] : i \in 1 .. k}
    BY DEF BuffersOf, k
  <1>6. \A n \in Nat : n < k => BufferNames[n + 1] \in BuffersOf(c)
    BY <1>1, <1>5 DEF k
  <1>7. BuffersOf(c) \subseteq Buffers
    BY <1>1, <1>2, <1>5 DEF Buffers, k
  <1>8. \A b \in BuffersOf(c) : \E i \in DOMAIN s : s[i] = b
    BY <1>3, <1>4, <1>5
  <1>. QED BY <1>1, <1>3, <1>6, <1>7, <1>8 DEF s, k

(* No list of filter elements names an Rx buffer the controller has not. *)
ListsFit(c, lists) ==
  /\ DOMAIN lists = BOOLEAN
  /\ \A x \in BOOLEAN : DOMAIN lists[x] \subseteq Nat
  /\ \A x \in BOOLEAN : \A i \in DOMAIN lists[x] :
       /\ lists[x][i] \in FilterElements
       /\ lists[x][i].action = "RxBuffer" => lists[x][i].buffer < RxBufferCount(c)

(* How many elements a list has. *)
LEMMA CapacityIsNat ==
  ASSUME NEW c \in Receivers, NEW x \in BOOLEAN
  PROVE  FilterCapacity(c, x) \in Nat
  <1>. DEFINE allocated == IF x THEN c.extended ELSE c.standard
              limit == IF c.fixed THEN (IF x THEN 8 ELSE 28) ELSE (IF x THEN 64 ELSE 128)
  <1>1. allocated \in Nat /\ limit \in Nat
    BY DEF Receivers
  <1>2. FilterCapacity(c, x) = Min({allocated, limit})
    BY DEF FilterCapacity
  <1>. HIDE DEF allocated, limit
  <1>. QED BY <1>1, <1>2 DEF Min

(* The registers start() writes have an element for each list entry. *)
LEMMA ResetFits ==
  ASSUME NEW c \in Receivers
  PROVE  "lists" \in DOMAIN ResetRegisters(c) /\ ListsFit(c, ResetRegisters(c).lists)
  <1>. DEFINE off == [type |-> "MASK", action |-> "Disable", id1 |-> {}, id2 |-> {}, buffer |-> 0]
  <1>1. /\ "lists" \in DOMAIN ResetRegisters(c)
        /\ ResetRegisters(c).lists
             = [x \in BOOLEAN |-> [i \in 0 .. FilterCapacity(c, x) - 1 |-> off]]
    BY DEF ResetRegisters
  <1>2. off \in FilterElements /\ off.action # "RxBuffer"
    BY DEF FilterElements, FilterActions
  <1>. HIDE DEF off
  <1>3. \A x \in BOOLEAN : FilterCapacity(c, x) \in Nat
    BY CapacityIsNat
  <1>. QED BY <1>1, <1>2, <1>3 DEF ListsFit

(* configure_filter() writes inside the element lists. *)
LEMMA ProgramFits ==
  ASSUME NEW c \in Receivers, c.backend = "fdcan",
         NEW r, "lists" \in DOMAIN r, ListsFit(c, r.lists),
         NEW f, FilterStatus(c, f) = "Ok",
         f.kind = "id" => /\ f.ext \in BOOLEAN /\ f.action \in FilterActions /\ f.buffer \in Nat
                          /\ f.id1 \in SUBSET (0 .. 31) /\ f.id2 \in SUBSET (0 .. 31)
  PROVE  "lists" \in DOMAIN Program(c, r, f) /\ ListsFit(c, Program(c, r, f).lists)
  <1>1. Program(c, r, f) = ProgramFdcan(r, f) /\ FilterOnFdcan(c, f) = "Ok"
    BY DEF Program, FilterStatus
  <1>2. CASE f.kind = "id"
    <2>. DEFINE e == NativeElement(f)
    <2>1. Program(c, r, f) = [r EXCEPT !.lists[f.ext][f.index] = e]
      BY <1>1, <1>2 DEF ProgramFdcan
    <2>2. e \in FilterElements
      BY <1>2 DEF NativeElement, FilterElements
    <2>3. e.action = "RxBuffer" => e.buffer < RxBufferCount(c)
      <3>1. IdFilterOnFdcan(c, f) = "Ok"
        BY <1>1, <1>2 DEF FilterOnFdcan
      <3>2. f.action = "RxBuffer" => ~(f.buffer >= RxBufferCount(c))
        BY <3>1, ValidIdFilter
      <3>. QED BY <1>2, <3>2, BufferCount DEF NativeElement
    <2>. HIDE DEF e
    <2>4. /\ "lists" \in DOMAIN Program(c, r, f)
          /\ Program(c, r, f).lists = [r.lists EXCEPT ![f.ext][f.index] = e]
      BY <2>1
    <2>. QED BY <1>2, <2>2, <2>3, <2>4 DEF ListsFit
  <1>3. CASE f.kind = "global" \/ f.kind = "mask"
    <2>1. /\ "lists" \in DOMAIN Program(c, r, f)
          /\ Program(c, r, f).lists = r.lists
      BY <1>1, <1>3 DEF ProgramFdcan
    <2>. QED BY <2>1
  <1>. QED BY <1>1, <1>2, <1>3 DEF FilterOnFdcan

(* A frame is stored in a storage there is, or nowhere. *)
LEMMA RoutedSomewhere ==
  ASSUME NEW c \in Receivers, NEW r, ListsFit(c, r.lists), NEW w \in WireFrames, NEW full
  PROVE  FdcanRoute(r, w, full) \in {"none", "fifo0", "fifo1"} \cup BuffersOf(c)
  <1>. DEFINE list   == r.lists[w.ext]
              masked == IF w.ext THEN w.id \cap r.eidm ELSE w.id
              hits   == {i \in DOMAIN list :
                           /\ list[i].action # "Disable"
                           /\ list[i].action = "RxBuffer" =>
                                BufferNames[list[i].buffer + 1] \notin full
                           /\ ElementMatches(list[i], w.id, masked)}
  <1>1. \A action : TargetOf(action) \in {"none", "fifo0", "fifo1"}
    BY DEF TargetOf
  <1>2. FdcanRoute(r, w, full) =
          IF w.remote /\ r.noRemote[w.ext] THEN "none"
          ELSE IF hits = {} THEN TargetOf(r.other[w.ext])
          ELSE LET e == list[Min(hits)] IN
               IF e.action = "RxBuffer" THEN BufferNames[e.buffer + 1] ELSE TargetOf(e.action)
    BY DEF FdcanRoute
  <1>3. hits \subseteq DOMAIN list /\ DOMAIN list \subseteq Nat
    BY DEF ListsFit, WireFrames
  <1>4. \A i \in DOMAIN list : /\ list[i] \in FilterElements
                               /\ list[i].action = "RxBuffer" => list[i].buffer < RxBufferCount(c)
    BY DEF ListsFit, WireFrames
  <1>. HIDE DEF hits, list
  <1>5. CASE hits = {}
    BY <1>1, <1>2, <1>5
  <1>6. CASE hits # {}
    <2>1. Min(hits) \in DOMAIN list
      BY <1>3, <1>6, LeastIsThere
    <2>. DEFINE e == list[Min(hits)]
    <2>2. e.buffer \in Nat /\ (e.action = "RxBuffer" => e.buffer < RxBufferCount(c))
      BY <1>4, <2>1 DEF FilterElements
    <2>. HIDE DEF e
    <2>3. e.action = "RxBuffer" => BufferNames[e.buffer + 1] \in BuffersOf(c)
      BY <2>2, BufferCount
    <2>4. FdcanRoute(r, w, full) =
            IF w.remote /\ r.noRemote[w.ext] THEN "none"
            ELSE IF e.action = "RxBuffer" THEN BufferNames[e.buffer + 1] ELSE TargetOf(e.action)
      BY <1>2, <1>6 DEF e
    <2>. QED BY <1>1, <2>3, <2>4
  <1>. QED BY <1>5, <1>6

(* When start_hardware() lets a controller with a storage run, its         *)
(* elements are wide enough.                                               *)
LEMMA WideEnough ==
  ASSUME NEW c \in Receivers, ValidateRxCapacity(c) = "Ok",
         \/ RxFifoElements(c, "fifo0") > 0 \/ RxFifoElements(c, "fifo1") > 0
         \/ RxBufferCount(c) > 0
  PROVE  RxPayloadCapacity(c) >= 64
  <1>1. ~(RxPayloadCapacity(c) < 64)
    BY Zenon DEF ValidateRxCapacity
  <1>2. RxPayloadCapacity(c) \in Int
    BY DEF RxPayloadCapacity, ElementPayloadCapacity, Receivers
  <1>. QED BY <1>1, <1>2

-----------------------------------------------------------------------------
(* Two nodes and the bus. *)

(* A received frame that says what its sender meant. *)
Genuine ==
  {x \in [wire : WireFrames, meant : FrameViews] :
     Undeliverable(hw.backend, x.wire) \/ View(hw.backend, x.wire) = x.meant}

LinkTypes ==
  /\ scene \in DOMAIN Plans
  /\ store \in [Locations -> Seq(Genuine)] /\ ndat \subseteq Buffers
  /\ todo \in [Lines -> Seq(Locations)]
  /\ fetched \in Buffers \cup {"none"} /\ copied \in Buffers \cup {"none"}
  /\ overrun \subseteq Buffers

(* A buffer holds a frame when its bit is up, unless the HAL has copied    *)
(* that frame already, and when a read() is about to copy it; and a frame  *)
(* without its bit is about to be read, or was overrun.                    *)
BuffersHold ==
  \A b \in Buffers :
    /\ (b \in ndat /\ b # copied) \/ b = fetched => store[b] # <<>>
    /\ store[b] # <<>> => b \in ndat \/ b = fetched \/ b \in overrun
    /\ b = fetched => copied = "none"

(* What an FDCAN controller is set up for is there, and wide enough. *)
SetUp ==
  Fdcan =>
    /\ "lists" \in DOMAIN regs /\ ListsFit(hw, regs.lists)
    /\ \A b \in Buffers : store[b] # <<>> => b \in BuffersOf(hw)
    /\ stage # "ready" => ValidateRxCapacity(hw) = "Ok"
    /\ \A loc \in Locations : store[loc] # <<>> => RxPayloadCapacity(hw) >= 64

StorageInv == LinkTypes /\ BuffersHold /\ SetUp /\ NothingStranded
LinkInv == StorageInv /\ Faithful /\ HalStaysInside

(* Both ends of the link are nodes of the scene. *)
LEMMA Nodes ==
  ASSUME LinkTypes
  PROVE  /\ tx \in Transmitters /\ hw \in Receivers /\ tx.backend \in {"fdcan", "bxcan"}
         /\ hw.backend \in {"fdcan", "bxcan"}
  BY LinkAssumption DEF LinkTypes, tx, hw, Transmitters, Receivers

(* Who takes part is decided once. *)
LEMMA SceneKept ==
  ASSUME scene' = scene
  PROVE  hw' = hw /\ tx' = tx /\ plan' = plan /\ Fdcan' = Fdcan /\ Genuine' = Genuine
  BY DEF hw, tx, plan, Fdcan, Genuine

(* A frame is put into a storage: its line's flag says so. *)
LEMMA KeepStep ==
  ASSUME StorageInv, NEW loc \in Locations, NEW kept \in Seq(Genuine), kept # <<>>,
         Keep(loc, kept, {LineOf(loc)}), UNCHANGED <<scene, stage, regs, todo, reading>>,
         Fdcan => RxPayloadCapacity(hw) >= 64 /\ (loc \in Buffers => loc \in BuffersOf(hw))
  PROVE  StorageInv'
  <1>. USE SceneKept DEF reading
  <1>1. /\ store' = [store EXCEPT ![loc] = kept]
        /\ raised' = IF Fdcan THEN raised \cup {LineOf(loc)} ELSE raised
        /\ ndat' = IF loc \in Buffers THEN ndat \cup {loc} ELSE ndat
        /\ overrun' = overrun \ {loc}
    BY DEF Keep
  <1>2. LinkTypes'
    BY <1>1 DEF StorageInv, LinkTypes
  <1>3. store'[loc] = kept /\ \A other \in Locations \ {loc} : store'[other] = store[other]
    BY <1>1 DEF StorageInv, LinkTypes
  <1>4. Buffers \subseteq Locations
    BY DEF Buffers, Locations
  <1>5. BuffersHold'
    BY <1>1, <1>3, <1>4 DEF StorageInv, BuffersHold
  <1>6. SetUp'
    <2>1. RxPayloadCapacity(hw)' = RxPayloadCapacity(hw) /\ BuffersOf(hw)' = BuffersOf(hw)
      OBVIOUS
    <2>2. ListsFit(hw, regs.lists)' = ListsFit(hw, regs.lists)
            /\ ValidateRxCapacity(hw)' = ValidateRxCapacity(hw)
      OBVIOUS
    <2>. SUFFICES ASSUME Fdcan
                  PROVE  /\ "lists" \in DOMAIN regs' /\ ListsFit(hw, regs.lists)'
                         /\ \A b \in Buffers : store'[b] # <<>> => b \in BuffersOf(hw)
                         /\ stage' # "ready" => ValidateRxCapacity(hw) = "Ok"
                         /\ \A other \in Locations : store'[other] # <<>> =>
                              RxPayloadCapacity(hw) >= 64
      BY <2>1, <2>2 DEF SetUp
    <2>3. \A b \in Buffers : store'[b] # <<>> => b \in BuffersOf(hw)
      BY <1>3, <1>4 DEF StorageInv, SetUp
    <2>4. \A other \in Locations : store'[other] # <<>> => RxPayloadCapacity(hw) >= 64
      BY <1>3 DEF StorageInv, SetUp
    <2>5. /\ "lists" \in DOMAIN regs' /\ ListsFit(hw, regs.lists)'
          /\ stage' # "ready" => ValidateRxCapacity(hw) = "Ok"
      BY <2>2 DEF StorageInv, SetUp
    <2>. QED BY <2>3, <2>4, <2>5
  <1>7. NothingStranded'
    <2>. SUFFICES ASSUME NEW other \in Locations, Waits(other)', Fdcan
                  PROVE  \/ LineOf(other) \in raised'
                         \/ \E i \in DOMAIN todo[LineOf(other)] : todo[LineOf(other)][i] = other
      BY DEF NothingStranded
    <2>1. CASE other = loc
      BY <1>1, <2>1
    <2>2. CASE other # loc
      <3>1. Waits(other)
        BY <1>1, <1>3, <2>2 DEF Waits
      <3>. QED BY <1>1, <3>1 DEF StorageInv, NothingStranded
    <2>. QED BY <2>1, <2>2
  <1>. QED BY <1>2, <1>5, <1>6, <1>7 DEF StorageInv

(* A step that touches none of it. *)
LEMMA StorageKept ==
  ASSUME StorageInv, UNCHANGED <<scene, regs, storage, todo, reading>>,
         stage' = stage \/ (Fdcan /\ stage' # "ready" => ValidateRxCapacity(hw) = "Ok")
  PROVE  StorageInv'
  <1>. USE SceneKept DEF storage, reading
  <1>1. LinkTypes' /\ BuffersHold' /\ NothingStranded'
    BY DEF StorageInv, LinkTypes, BuffersHold, NothingStranded, Waits
  <1>2. SetUp'
    BY DEF StorageInv, SetUp
  <1>. QED BY <1>1, <1>2 DEF StorageInv

(* A frame that arrives is stored where there is room, and not stranded. *)
LEMMA LandsStep ==
  ASSUME StorageInv, NEW w \in WireFrames, NEW meant \in FrameViews,
         Undeliverable(hw.backend, w) \/ View(hw.backend, w) = meant,
         Lands(w, meant), UNCHANGED <<scene, stage, regs, todo, reading>>
  PROVE  StorageInv'
  <1>. DEFINE loc == Route(hw, regs, w, Full)
              x   == [wire |-> w, meant |-> meant]
  <1>1. x \in Genuine
    BY DEF Genuine
  <1>2. /\ store \in [Locations -> Seq(Genuine)] /\ hw \in Receivers
        /\ Locations = {"fifo0", "fifo1", "buf0", "buf1"} /\ Buffers = {"buf0", "buf1"}
    BY Nodes DEF StorageInv, LinkTypes, Locations, Buffers
  <1>3. Fdcan => loc \in {"none", "fifo0", "fifo1"} \cup BuffersOf(hw)
    BY <1>2, RoutedSomewhere DEF StorageInv, SetUp, Route, Fdcan
  <1>4. RxBufferCount(hw) \in 0 .. 2 /\ BuffersOf(hw) \subseteq Buffers
          /\ (BuffersOf(hw) # {} => RxBufferCount(hw) > 0)
    <2>1. RxBufferCount(hw) \in 0 .. 2 /\ BuffersOf(hw) \subseteq Buffers
      BY <1>2, BufferCount
    <2>2. BuffersOf(hw) # {} => RxBufferCount(hw) > 0
      BY <2>1 DEF BuffersOf
    <2>. QED BY <2>1, <2>2
  <1>5. CASE UNCHANGED storage
    BY <1>5, StorageKept
  <1>6. CASE ~UNCHANGED storage
    <2>1. /\ stage # "ready" /\ loc # "none"
          /\ \/ loc \in Buffers /\ Keep(loc, <<x>>, {"buffers"})
             \/ /\ loc \notin Buffers /\ Len(store[loc]) < Capacity(loc)
                /\ Keep(loc, Append(store[loc], x), {loc})
             \/ /\ loc \notin Buffers /\ ~(Len(store[loc]) < Capacity(loc)) /\ ~Fdcan
                /\ Keep(loc, [store[loc] EXCEPT ![Capacity(loc)] = x], {loc})
      BY <1>6, Zenon DEF Lands
    <2>. HIDE DEF x, loc
    <2>2. CASE loc \notin Locations
      <3>1. ~Fdcan /\ loc \notin Buffers
        BY <1>2, <1>3, <1>4, <2>1, <2>2
      <3>2. UNCHANGED storage
        <4>1. overrun \ {loc} = overrun
          BY <1>2, <2>2 DEF StorageInv, LinkTypes
        <4>. QED BY <1>2, <2>1, <2>2, <3>1, <4>1 DEF Keep, storage
      <3>. QED BY <1>6, <3>2
    <2>3. CASE loc \in Buffers /\ Keep(loc, <<x>>, {"buffers"})
      <3>1. Fdcan => loc \in BuffersOf(hw) /\ RxPayloadCapacity(hw) >= 64
        <4>1. Fdcan => loc \in BuffersOf(hw) /\ RxBufferCount(hw) > 0
          BY <1>2, <1>3, <1>4, <2>3
        <4>2. Fdcan => ValidateRxCapacity(hw) = "Ok"
          BY <2>1 DEF StorageInv, SetUp
        <4>. QED BY <1>2, <4>1, <4>2, WideEnough
      <3>2. <<x>> \in Seq(Genuine) /\ <<x>> # <<>> /\ loc \in Locations /\ LineOf(loc) = "buffers"
        BY <1>1, <1>2, <2>3 DEF LineOf
      <3>. QED BY <2>3, <3>1, <3>2, KeepStep
    <2>4. CASE /\ loc \in Locations \ Buffers /\ Len(store[loc]) < Capacity(loc)
               /\ Keep(loc, Append(store[loc], x), {loc})
      <3>1. store[loc] \in Seq(Genuine) /\ Len(store[loc]) \in Nat
        BY <1>2, <2>4
      <3>2. Append(store[loc], x) \in Seq(Genuine) /\ Append(store[loc], x) # <<>>
        BY <1>1, <3>1, AppendProperties
      <3>3. Fdcan => RxPayloadCapacity(hw) >= 64
        <4>1. loc = "fifo0" \/ loc = "fifo1"
          BY <1>2, <2>4
        <4>2. Fdcan => RxFifoElements(hw, loc) > 0
          <5>1. ASSUME Fdcan PROVE Capacity(loc) = RxFifoElements(hw, loc)
            BY <2>4, <5>1 DEF Capacity
          <5>2. RxFifoElements(hw, loc) \in Int
            <6>. DEFINE n == IF loc = "fifo0" THEN hw.fifo0 ELSE hw.fifo1
            <6>1. n \in Nat
              BY <1>2 DEF Receivers
            <6>2. RxFifoElements(hw, loc) = IF hw.fixed THEN 3 ELSE Min({n, 64})
              BY DEF RxFifoElements
            <6>. HIDE DEF n
            <6>. QED BY <6>1, <6>2 DEF Min
          <5>. QED BY <2>4, <3>1, <5>1, <5>2
        <4>3. Fdcan => ValidateRxCapacity(hw) = "Ok"
          BY <2>1 DEF StorageInv, SetUp
        <4>. QED BY <1>2, <4>1, <4>2, <4>3, WideEnough
      <3>4. LineOf(loc) = loc
        BY <2>4 DEF LineOf
      <3>. QED BY <2>4, <3>2, <3>3, <3>4, KeepStep
    <2>5. CASE /\ loc \in Locations \ Buffers /\ ~(Len(store[loc]) < Capacity(loc)) /\ ~Fdcan
               /\ Keep(loc, [store[loc] EXCEPT ![Capacity(loc)] = x], {loc})
      <3>1. store[loc] \in Seq(Genuine) /\ Len(store[loc]) \in Nat /\ Capacity(loc) = 3
        BY <1>2, <2>5 DEF Capacity
      <3>2. 3 \in 1 .. Len(store[loc])
        BY <2>5, <3>1
      <3>3. [store[loc] EXCEPT ![3] = x] \in Seq(Genuine) /\ [store[loc] EXCEPT ![3] = x] # <<>>
        BY <1>1, <3>1, <3>2, ExceptSeq
      <3>4. LineOf(loc) = loc
        BY <2>5 DEF LineOf
      <3>. QED BY <2>5, <3>1, <3>3, <3>4, KeepStep
    <2>. QED BY <2>1, <2>2, <2>3, <2>4, <2>5
  <1>. QED BY <1>5, <1>6

(* A receive interrupt that begins strands nothing. *)
LEMMA InterruptStep ==
  ASSUME StorageInv, NEW line \in Lines, Interrupt(line)
  PROVE  StorageInv'
  <1>. USE SceneKept
  <1>. DEFINE all == SubSeq(BufferNames, 1, RxBufferCount(hw))
  <1>1. /\ UNCHANGED <<scene, stage, regs, store, ndat, overrun, fetched, copied>> /\ raised' = raised \ {line}
        /\ todo' = [todo EXCEPT ![line] = IF line = "buffers" THEN all ELSE <<line>>]
    BY DEF Interrupt, receiver, reading
  <1>2. /\ Lines = {"fifo0", "fifo1", "buffers"} /\ Buffers = {"buf0", "buf1"}
        /\ Locations = {"fifo0", "fifo1", "buf0", "buf1"}
        /\ \A loc : LineOf(loc) = IF loc \in Buffers THEN "buffers" ELSE loc
    BY DEF Lines, Buffers, Locations, LineOf
  <1>3. /\ all \in Seq(Locations)
        /\ \A b \in BuffersOf(hw) : \E i \in DOMAIN all : all[i] = b
    BY Nodes, BufferCount DEF StorageInv
  <1>. HIDE DEF all
  <1>4. /\ todo \in [Lines -> Seq(Locations)]
        /\ todo'[line] = IF line = "buffers" THEN all ELSE <<line>>
        /\ \A other \in Lines \ {line} : todo'[other] = todo[other]
    BY <1>1 DEF StorageInv, LinkTypes
  <1>5. LinkTypes'
    <2>1. ASSUME line # "buffers" PROVE <<line>> \in Seq(Locations)
      <3>1. line \in Locations
        BY <1>2, <2>1
      <3>. QED BY <3>1
    <2>2. (IF line = "buffers" THEN all ELSE <<line>>) \in Seq(Locations)
      BY <1>3, <2>1
    <2>. QED BY <1>1, <2>2 DEF StorageInv, LinkTypes
  <1>6. BuffersHold' /\ SetUp'
    <2>1. BuffersHold'
      BY <1>1 DEF StorageInv, BuffersHold
    <2>2. SetUp'
      BY <1>1 DEF StorageInv, SetUp
    <2>. QED BY <2>1, <2>2
  <1>7. NothingStranded'
    <2>. SUFFICES ASSUME NEW loc \in Locations, Waits(loc)', Fdcan
                  PROVE  \/ LineOf(loc) \in raised'
                         \/ \E i \in DOMAIN todo'[LineOf(loc)] : todo'[LineOf(loc)][i] = loc
      BY <1>1 DEF NothingStranded
    <2>1. Waits(loc)
      BY <1>1 DEF Waits
    <2>2. LineOf(loc) \in Lines
      BY <1>2
    <2>3. CASE LineOf(loc) # line
      <3>1. \/ LineOf(loc) \in raised
            \/ \E i \in DOMAIN todo[LineOf(loc)] : todo[LineOf(loc)][i] = loc
        BY <2>1 DEF StorageInv, NothingStranded
      <3>. QED BY <1>1, <1>4, <2>2, <2>3, <3>1
    <2>4. CASE LineOf(loc) = line /\ line = "buffers"
      <3>1. loc \in BuffersOf(hw)
        BY <1>2, <2>1, <2>4 DEF Waits, StorageInv, SetUp
      <3>. QED BY <1>3, <1>4, <2>4, <3>1
    <2>5. CASE LineOf(loc) = line /\ line # "buffers"
      <3>1. loc = line /\ todo'[LineOf(loc)] = <<loc>>
        BY <1>2, <1>4, <2>5
      <3>. QED BY <3>1
    <2>. QED BY <2>3, <2>4, <2>5
  <1>. QED BY <1>5, <1>6, <1>7 DEF StorageInv

(* A frame leaves its storage, a storage leaves its line, both at the front. *)
LEMMA ReadFifoStep ==
  ASSUME StorageInv, NEW line \in Lines, ReadFifo(line)
  PROVE  StorageInv' /\ \E x \in Genuine : Consume(x) /\ (Fdcan => RxPayloadCapacity(hw) >= 64)
  <1>. USE SceneKept
  <1>. DEFINE loc == Head(todo[line])
  <1>1. /\ UNCHANGED <<scene, stage, regs, ndat, raised, overrun, todo, fetched, copied>>
        /\ loc \notin Buffers /\ store[loc] # <<>> /\ todo[line] # <<>>
        /\ store' = [store EXCEPT ![loc] = Tail(@)] /\ Consume(Head(store[loc]))
    BY DEF ReadFifo, receiver, reading
  <1>2. loc \in Locations
    BY <1>1 DEF StorageInv, LinkTypes
  <1>3. store \in [Locations -> Seq(Genuine)]
    BY DEF StorageInv, LinkTypes
  <1>. HIDE DEF loc
  <1>4. Head(store[loc]) \in Genuine /\ Tail(store[loc]) \in Seq(Genuine)
    BY <1>1, <1>2, <1>3, HeadTailProperties
  <1>5. /\ store' \in [Locations -> Seq(Genuine)]
        /\ \A other \in Locations \ {loc} : store'[other] = store[other]
        /\ \A other \in Locations : store'[other] # <<>> => store[other] # <<>>
    BY <1>1, <1>2, <1>3, <1>4
  <1>6. LinkTypes'
    BY <1>1, <1>5 DEF StorageInv, LinkTypes
  <1>7. BuffersHold' /\ SetUp'
    <2>1. BuffersHold'
      BY <1>1, <1>5 DEF StorageInv, BuffersHold, Buffers, Locations
    <2>2. SetUp'
      <3>1. \A b \in Buffers : b \in Locations
        BY DEF Buffers, Locations
      <3>2. /\ ListsFit(hw, regs.lists)' = ListsFit(hw, regs.lists)
            /\ ValidateRxCapacity(hw)' = ValidateRxCapacity(hw)
            /\ RxPayloadCapacity(hw)' = RxPayloadCapacity(hw) /\ BuffersOf(hw)' = BuffersOf(hw)
        BY <1>1
      <3>. QED BY <1>1, <1>5, <3>1, <3>2 DEF StorageInv, SetUp
    <2>. QED BY <2>1, <2>2
  <1>8. NothingStranded'
    <2>1. \A other \in Locations : Waits(other)' => Waits(other)
      BY <1>1, <1>5 DEF Waits
    <2>. QED BY <1>1, <2>1 DEF StorageInv, NothingStranded
  <1>9. Fdcan => RxPayloadCapacity(hw) >= 64
    BY <1>1, <1>2 DEF StorageInv, SetUp
  <1>. QED BY <1>1, <1>4, <1>6, <1>7, <1>8, <1>9 DEF StorageInv

(* Nor does asking an Rx buffer whether it holds a frame. *)
LEMMA QueryBufferStep ==
  ASSUME StorageInv, NEW line \in Lines, QueryBuffer(line)
  PROVE  StorageInv'
  <1>. USE SceneKept
  <1>1. /\ UNCHANGED <<scene, stage, regs, store, raised, overrun, todo, copied>>
        /\ fetched = "none" /\ copied = "none"
        /\ fetched' \in ndat /\ ndat' = ndat \ {fetched'}
    BY DEF QueryBuffer, receiver, reading
  <1>2. "none" \notin Buffers
    BY DEF Buffers
  <1>3. LinkTypes' /\ BuffersHold'
    BY <1>1, <1>2 DEF StorageInv, LinkTypes, BuffersHold
  <1>4. SetUp'
    BY <1>1 DEF StorageInv, SetUp
  <1>5. NothingStranded'
    BY <1>1 DEF StorageInv, NothingStranded, Waits
  <1>. QED BY <1>3, <1>4, <1>5 DEF StorageInv

(* The HAL copies a frame from an Rx buffer, within its element. *)
LEMMA CopyBufferStep ==
  ASSUME StorageInv, NEW line \in Lines, CopyBuffer(line)
  PROVE  StorageInv' /\ \E x \in Genuine : Consume(x) /\ (Fdcan => RxPayloadCapacity(hw) >= 64)
  <1>. USE SceneKept
  <1>1. /\ UNCHANGED <<scene, stage, regs, ndat, raised, overrun, todo>>
        /\ todo[line] # <<>> /\ fetched = Head(todo[line]) /\ Consume(Head(store[fetched]))
        /\ store' = [store EXCEPT ![fetched] = <<>>]
        /\ copied' = fetched /\ fetched' = "none"
    BY DEF CopyBuffer, receiver
  <1>2. /\ Buffers = {"buf0", "buf1"} /\ Locations = {"fifo0", "fifo1", "buf0", "buf1"}
        /\ store \in [Locations -> Seq(Genuine)]
    BY DEF StorageInv, LinkTypes, Buffers, Locations
  <1>3. fetched \in Buffers
    <2>1. Head(todo[line]) \in Locations
      BY <1>1 DEF StorageInv, LinkTypes
    <2>. QED BY <1>1, <1>2, <2>1 DEF StorageInv, LinkTypes
  <1>4. store[fetched] # <<>>
    BY <1>3 DEF StorageInv, BuffersHold
  <1>5. Head(store[fetched]) \in Genuine
    BY <1>2, <1>3, <1>4, HeadTailProperties
  <1>6. /\ store' \in [Locations -> Seq(Genuine)] /\ store'[fetched] = <<>>
        /\ \A other \in Locations \ {fetched} : store'[other] = store[other]
        /\ \A other \in Locations : store'[other] # <<>> => store[other] # <<>>
    BY <1>1, <1>2, <1>3
  <1>7. LinkTypes'
    BY <1>1, <1>3, <1>6 DEF StorageInv, LinkTypes
  <1>8. BuffersHold' /\ SetUp'
    <2>1. BuffersHold'
      <3>. SUFFICES ASSUME NEW b \in Buffers
                    PROVE  /\ (b \in ndat' /\ b # copied') \/ b = fetched' => store'[b] # <<>>
                           /\ store'[b] # <<>> => b \in ndat' \/ b = fetched' \/ b \in overrun'
                           /\ b = fetched' => copied' = "none"
        BY DEF BuffersHold
      <3>1. b # "none" /\ b \in Locations
        BY <1>2
      <3>2. CASE b = fetched
        BY <1>1, <1>6, <3>1, <3>2
      <3>3. CASE b # fetched
        BY <1>1, <1>3, <1>6, <3>1, <3>3 DEF StorageInv, BuffersHold
      <3>. QED BY <3>2, <3>3
    <2>2. SetUp'
      BY <1>1, <1>2, <1>6 DEF StorageInv, SetUp
    <2>. QED BY <2>1, <2>2
  <1>9. NothingStranded'
    <2>1. \A loc \in Locations : Waits(loc)' => Waits(loc)
      BY <1>1, <1>6 DEF Waits
    <2>. QED BY <1>1, <2>1 DEF StorageInv, NothingStranded
  <1>10. Fdcan => RxPayloadCapacity(hw) >= 64
    BY <1>2, <1>3, <1>4 DEF StorageInv, SetUp
  <1>. QED BY <1>1, <1>5, <1>7, <1>8, <1>9, <1>10 DEF StorageInv

(* The HAL's second clearing strands the frame it meets, and no other. *)
LEMMA ClearNewDataStep ==
  ASSUME StorageInv, NEW line \in Lines, ClearNewData(line)
  PROVE  StorageInv'
  <1>. USE SceneKept
  <1>1. /\ UNCHANGED <<scene, stage, regs, store, raised, todo, fetched>>
        /\ ndat' = ndat \ {copied} /\ copied' = "none"
        /\ overrun' = IF store[copied] # <<>> THEN overrun \cup {copied} ELSE overrun
        /\ todo[line] # <<>> /\ copied = Head(todo[line])
    BY DEF ClearNewData, receiver
  <1>2. "none" \notin Buffers /\ copied \in Buffers
    <2>1. Head(todo[line]) \in Locations /\ "none" \notin Locations
      BY <1>1 DEF StorageInv, LinkTypes, Locations
    <2>. QED BY <1>1, <2>1 DEF StorageInv, LinkTypes, Locations, Buffers
  <1>3. LinkTypes'
    BY <1>1, <1>2 DEF StorageInv, LinkTypes
  <1>4. BuffersHold'
    <2>. SUFFICES ASSUME NEW b \in Buffers
                  PROVE  /\ (b \in ndat' /\ b # copied') \/ b = fetched' => store'[b] # <<>>
                         /\ store'[b] # <<>> => b \in ndat' \/ b = fetched' \/ b \in overrun'
                         /\ b = fetched' => copied' = "none"
      BY DEF BuffersHold
    <2>1. CASE b = copied
      BY <1>1, <1>2, <2>1 DEF StorageInv, BuffersHold
    <2>2. CASE b # copied
      BY <1>1, <1>2, <2>2 DEF StorageInv, BuffersHold
    <2>. QED BY <2>1, <2>2
  <1>5. SetUp'
    BY <1>1 DEF StorageInv, SetUp
  <1>6. NothingStranded'
    <2>1. \A loc \in Locations : Waits(loc)' => Waits(loc)
      BY <1>1 DEF Waits
    <2>. QED BY <1>1, <2>1 DEF StorageInv, NothingStranded
  <1>. QED BY <1>3, <1>4, <1>5, <1>6 DEF StorageInv

(* Going on to the next storage strands nothing. *)
LEMMA StorageEmptyStep ==
  ASSUME StorageInv, NEW line \in Lines, StorageEmpty(line)
  PROVE  StorageInv'
  <1>. USE SceneKept
  <1>. DEFINE loc == Head(todo[line])
              s == todo[line]
  <1>1. /\ UNCHANGED <<scene, stage, regs, store, ndat, raised, overrun, fetched, copied>>
        /\ s # <<>> /\ fetched = "none" /\ todo' = [todo EXCEPT ![line] = Tail(s)]
        /\ IF loc \in Buffers THEN loc \notin ndat ELSE store[loc] = <<>>
    BY DEF StorageEmpty, receiver, storage, reading
  <1>w. ~Waits(loc)
    <2>1. "none" \notin Buffers
      BY DEF Buffers
    <2>. QED BY <1>1, <2>1 DEF StorageInv, BuffersHold, Waits
  <1>2. s \in Seq(Locations) /\ todo \in [Lines -> Seq(Locations)]
    BY DEF StorageInv, LinkTypes
  <1>3. /\ Tail(s) \in Seq(Locations) /\ Len(Tail(s)) = Len(s) - 1 /\ Len(s) \in Nat
        /\ \A i \in 1 .. Len(Tail(s)) : Tail(s)[i] = s[i + 1]
        /\ Head(s) = s[1]
    BY <1>1, <1>2, HeadTailProperties
  <1>4. todo'[line] = Tail(s) /\ \A other \in Lines \ {line} : todo'[other] = todo[other]
    BY <1>1, <1>2
  <1>5. LinkTypes' /\ BuffersHold'
    BY <1>1, <1>2, <1>3 DEF StorageInv, LinkTypes, BuffersHold
  <1>6. SetUp'
    BY <1>1 DEF StorageInv, SetUp
  <1>7. NothingStranded'
    <2>. SUFFICES ASSUME NEW other \in Locations, Waits(other)', Fdcan
                  PROVE  \/ LineOf(other) \in raised'
                         \/ \E i \in DOMAIN todo'[LineOf(other)] : todo'[LineOf(other)][i] = other
      BY <1>1 DEF NothingStranded
    <2>1. Waits(other) /\ other # loc
      BY <1>1, <1>w DEF Waits
    <2>2. LineOf(other) \in Lines
      BY DEF LineOf, Lines, Locations, Buffers
    <2>3. \/ LineOf(other) \in raised
          \/ \E i \in DOMAIN todo[LineOf(other)] : todo[LineOf(other)][i] = other
      BY <2>1 DEF StorageInv, NothingStranded
    <2>4. CASE LineOf(other) # line
      BY <1>1, <1>4, <2>2, <2>3, <2>4
    <2>5. CASE LineOf(other) = line /\ \E i \in DOMAIN s : s[i] = other
      <3>1. PICK i \in DOMAIN s : s[i] = other
        BY <2>5
      <3>2. DOMAIN s = 1 .. Len(s) /\ DOMAIN Tail(s) = 1 .. Len(Tail(s))
        BY <1>2, <1>3, LenProperties
      <3>3. i \in 1 .. Len(s) /\ i # 1
        BY <1>3, <2>1, <3>1, <3>2
      <3>. HIDE DEF s
      <3>4. i - 1 \in DOMAIN Tail(s) /\ Tail(s)[i - 1] = other
        BY <1>3, <3>1, <3>2, <3>3
      <3>. QED BY <1>4, <2>5, <3>4
    <2>. QED BY <1>1, <2>3, <2>4, <2>5
  <1>. QED BY <1>5, <1>6, <1>7 DEF StorageInv

(* configure_filter() keeps to the registers there are. *)
LEMMA ConfigureFilterStep ==
  ASSUME StorageInv, ConfigureFilter
  PROVE  StorageInv'
  <1>. USE SceneKept
  <1>1. UNCHANGED <<scene, stage, store, ndat, raised, overrun, todo, fetched, copied>>
    BY DEF ConfigureFilter, storage, reading
  <1>2. LinkTypes' /\ BuffersHold' /\ NothingStranded'
    BY <1>1 DEF StorageInv, LinkTypes, BuffersHold, NothingStranded, Waits
  <1>3. PICK f \in plan.filters :
          IF FilterStatus(hw, f) = "Ok" THEN regs' = Program(hw, regs, f) ELSE UNCHANGED regs
    BY DEF ConfigureFilter
  <1>4. f.kind = "id" => /\ f.ext \in BOOLEAN /\ f.action \in FilterActions /\ f.buffer \in Nat
                         /\ f.id1 \in SUBSET (0 .. 31) /\ f.id2 \in SUBSET (0 .. 31)
    BY LinkAssumption DEF StorageInv, LinkTypes, plan
  <1>5. ASSUME Fdcan PROVE "lists" \in DOMAIN regs' /\ ListsFit(hw, regs'.lists)
    <2>1. hw \in Receivers /\ hw.backend = "fdcan"
      BY <1>5, Nodes DEF StorageInv, Fdcan
    <2>2. "lists" \in DOMAIN regs /\ ListsFit(hw, regs.lists)
      BY <1>5 DEF StorageInv, SetUp
    <2>3. CASE FilterStatus(hw, f) = "Ok"
      <3>1. "lists" \in DOMAIN Program(hw, regs, f) /\ ListsFit(hw, Program(hw, regs, f).lists)
        BY <1>4, <2>1, <2>2, <2>3, ProgramFits
      <3>. QED BY <1>3, <2>3, <3>1
    <2>4. CASE FilterStatus(hw, f) # "Ok"
      BY <1>3, <2>2, <2>4
    <2>. QED BY <2>3, <2>4
  <1>6. SetUp'
    <2>1. ASSUME Fdcan
          PROVE  /\ "lists" \in DOMAIN regs' /\ ListsFit(hw, regs'.lists)
                 /\ \A b \in Buffers : store'[b] # <<>> => b \in BuffersOf(hw)
                 /\ stage' # "ready" => ValidateRxCapacity(hw) = "Ok"
                 /\ \A loc \in Locations : store'[loc] # <<>> => RxPayloadCapacity(hw) >= 64
      BY <1>1, <1>5, <2>1 DEF StorageInv, SetUp
    <2>. QED BY <1>1, <2>1 DEF SetUp
  <1>. QED BY <1>2, <1>6 DEF StorageInv

(* What a frame leaves behind it is in order, and the HAL was told lengths *)
(* that fit.                                                               *)
LEMMA ConsumeStep ==
  ASSUME LinkInv, NEW x \in Genuine, Consume(x), Fdcan => RxPayloadCapacity(hw) >= 64
  PROVE  Faithful' /\ HalStaysInside'
  <1>1. Faithful'
    BY DEF Consume, LinkInv, Faithful, Genuine
  <1>2. /\ hw.backend \in {"fdcan", "bxcan"} /\ hw \in Receivers /\ x.wire \in WireFrames
        /\ (Fdcan <=> hw.backend = "fdcan")
    BY Nodes DEF LinkInv, StorageInv, Genuine, Fdcan
  <1>. DEFINE writes == HalWrites(hw.backend, x.wire)
  <1>3. /\ writes \in Nat /\ writes <= MaxDataLength(hw.backend)
        /\ Fdcan => writes <= RxPayloadCapacity(hw)
    <2>1. /\ writes <= MaxDataLength(hw.backend) /\ writes \in Nat
          /\ hw.backend = "fdcan" => writes <= 64
      BY <1>2, WritesInside
    <2>2. RxPayloadCapacity(hw) \in Int
      BY <1>2 DEF RxPayloadCapacity, ElementPayloadCapacity, Receivers
    <2>. QED BY <1>2, <2>1, <2>2
  <1>. HIDE DEF writes
  <1>4. hal' = {<<writes, MaxDataLength(hw.backend)>>}
                 \cup (IF Fdcan THEN {<<writes, RxPayloadCapacity(hw)>>} ELSE {})
    BY DEF Consume, writes
  <1>5. HalStaysInside'
    BY <1>3, <1>4 DEF HalStaysInside
  <1>. QED BY <1>1, <1>5

(* A frame sent through one backend arrives as it was meant. *)
LEMMA SendLands ==
  ASSUME LinkInv, Send
  PROVE  LinkInv'
  <1>1. PICK v \in plan.views, stored \in BOOLEAN :
          IF SendResult(SendStatus(v)) = "Submitted"
          THEN /\ hal' = {<<HalReads(tx, v), Source(tx, v, stored)>>}
                           \cup (IF tx.backend = "fdcan"
                                 THEN {<<HalReads(tx, v), 4 * TxElementCapacityWords(tx)>>}
                                 ELSE {})
               /\ Lands(OnTheWire(tx, v), v)
          ELSE UNCHANGED <<storage, landed, hal>>
    BY DEF Send
  <1>2. UNCHANGED <<scene, stage, regs, todo, reading, out>>
    BY DEF Send, receiver
  <1>3. Faithful'
    BY <1>2 DEF LinkInv, Faithful
  <1>4. CASE SendResult(SendStatus(v)) # "Submitted"
    <2>1. UNCHANGED <<storage, hal>>
      BY <1>1, <1>4
    <2>2. StorageInv'
      BY <1>2, <2>1, StorageKept DEF LinkInv
    <2>3. HalStaysInside'
      BY <2>1 DEF LinkInv, HalStaysInside
    <2>. QED BY <1>3, <2>2, <2>3 DEF LinkInv
  <1>5. CASE SendResult(SendStatus(v)) = "Submitted"
    <2>. DEFINE w == OnTheWire(tx, v)
                reads == HalReads(tx, v)
                there == Source(tx, v, stored)
                room == 4 * TxElementCapacityWords(tx)
    <2>1. tx \in Transmitters /\ hw.backend \in {"fdcan", "bxcan"}
      BY Nodes DEF LinkInv, StorageInv
    <2>2. /\ v \in FrameViews /\ (v.len = 0 => v.tag = 0)
          /\ (hw.backend = "bxcan" => ~v.fd)
      BY LinkAssumption DEF LinkInv, StorageInv, LinkTypes, plan, hw
    <2>3. ValidateFrame(tx.backend, v) = "Ok" /\ ValidateHardwareFrame(tx, v) = "Ok"
      BY <1>5, ValidSend
    <2>4. w \in WireFrames /\ View(hw.backend, w) = v
      BY <2>1, <2>2, <2>3, SentAsMeant
    <2>5. Lands(w, v)
      BY <1>1, <1>5
    <2>. HIDE DEF w
    <2>6. StorageInv'
      BY <1>2, <2>2, <2>4, <2>5, LandsStep DEF LinkInv
    <2>7. reads <= there /\ (tx.backend = "fdcan" => reads <= room)
      BY <2>1, <2>2, <2>3, ReadsInside
    <2>8. hal' = {<<reads, there>>} \cup (IF tx.backend = "fdcan" THEN {<<reads, room>>} ELSE {})
      BY <1>1, <1>5
    <2>. HIDE DEF reads, there, room
    <2>9. HalStaysInside'
      BY <2>7, <2>8 DEF HalStaysInside
    <2>. QED BY <1>3, <2>6, <2>9 DEF LinkInv
  <1>. QED BY <1>4, <1>5

(* So does a frame of a node that runs other software. *)
LEMMA ForeignLands ==
  ASSUME LinkInv, ForeignFrame
  PROVE  LinkInv'
  <1>1. PICK w \in plan.foreign : Lands(w, Meaning(w))
    BY DEF ForeignFrame
  <1>2. UNCHANGED <<scene, stage, regs, todo, reading, out, hal>>
    BY DEF ForeignFrame, receiver
  <1>3. Faithful' /\ HalStaysInside'
    BY <1>2 DEF LinkInv, Faithful, HalStaysInside
  <1>4. hw.backend \in {"fdcan", "bxcan"}
    BY Nodes DEF LinkInv, StorageInv
  <1>5. w \in WireFrames /\ (hw.backend = "bxcan" => ~w.fd)
    BY LinkAssumption DEF LinkInv, StorageInv, LinkTypes, plan, hw
  <1>6. View(hw.backend, w) = Meaning(w) /\ Meaning(w) \in FrameViews
    BY <1>4, <1>5, ToldAsMeant
  <1>7. StorageInv'
    BY <1>1, <1>2, <1>5, <1>6, LandsStep DEF LinkInv
  <1>. QED BY <1>3, <1>7 DEF LinkInv

(* What the link rests on holds of every state: buffers and interrupts,    *)
(* what callbacks are given, and what the HAL is handed.                   *)
THEOREM LinkInvariance == Spec => []LinkInv
  <1>1. Init => LinkInv
    <2>. SUFFICES ASSUME Init PROVE LinkInv
      OBVIOUS
    <2>1. /\ scene \in DOMAIN Plans /\ stage = "ready" /\ regs = ResetRegisters(hw)
          /\ store = [loc \in Locations |-> <<>>] /\ ndat = {}
          /\ todo = [line \in Lines |-> <<>>] /\ fetched = "none" /\ copied = "none"
          /\ overrun = {} /\ out = {} /\ hal = {}
      BY DEF Init
    <2>2. LinkTypes
      BY <2>1 DEF LinkTypes
    <2>3. BuffersHold /\ NothingStranded /\ Faithful /\ HalStaysInside
      <3>1. Buffers \subseteq Locations /\ "none" \notin Buffers
        BY DEF Buffers, Locations
      <3>2. \A loc \in Locations : store[loc] = <<>>
        BY <2>1
      <3>3. BuffersHold /\ NothingStranded
        BY <2>1, <3>1, <3>2 DEF BuffersHold, NothingStranded, Waits
      <3>. QED BY <2>1, <3>3 DEF Faithful, HalStaysInside
    <2>4. SetUp
      <3>1. "lists" \in DOMAIN regs /\ ListsFit(hw, regs.lists)
        BY <2>1, <2>2, Nodes, ResetFits
      <3>2. \A loc \in Locations \cup Buffers : store[loc] = <<>>
        BY <2>1 DEF Buffers, Locations
      <3>. QED BY <2>1, <3>1, <3>2 DEF SetUp
    <2>. QED BY <2>2, <2>3, <2>4 DEF LinkInv, StorageInv
  <1>2. LinkInv /\ [Next]_vars => LinkInv'
    <2>. SUFFICES ASSUME LinkInv, [Next]_vars PROVE LinkInv'
      OBVIOUS
    <2>1. StorageInv
      BY DEF LinkInv
    <2>2. ASSUME UNCHANGED <<out, hal>> PROVE Faithful' /\ HalStaysInside'
      BY <2>2 DEF LinkInv, Faithful, HalStaysInside
    <2>3. CASE ConfigureFilter
      BY <2>1, <2>2, <2>3, ConfigureFilterStep DEF LinkInv, ConfigureFilter
    <2>4. CASE StartHardware \/ EnableNotifications
      <3>1. UNCHANGED <<scene, regs, storage, todo, reading, out, hal>>
        BY <2>4 DEF StartHardware, EnableNotifications
      <3>2. Fdcan => ValidateRxCapacity(hw) = "Ok"
        BY <2>1, <2>4 DEF StartHardware, EnableNotifications, StorageInv, SetUp
      <3>. QED BY <2>1, <2>2, <3>1, <3>2, StorageKept DEF LinkInv
    <2>5. CASE ForeignFrame
      BY <2>5, ForeignLands
    <2>6. CASE Send
      BY <2>6, SendLands
    <2>7. ASSUME NEW line \in Lines, Interrupt(line) PROVE LinkInv'
      BY <2>1, <2>2, <2>7, InterruptStep DEF LinkInv, Interrupt
    <2>8. ASSUME NEW line \in Lines, ReadFifo(line) \/ CopyBuffer(line) PROVE LinkInv'
      <3>1. StorageInv' /\ \E x \in Genuine : Consume(x) /\ (Fdcan => RxPayloadCapacity(hw) >= 64)
        BY <2>1, <2>8, ReadFifoStep, CopyBufferStep
      <3>. QED BY <3>1, ConsumeStep DEF LinkInv
    <2>9. ASSUME NEW line \in Lines, QueryBuffer(line) PROVE LinkInv'
      BY <2>1, <2>2, <2>9, QueryBufferStep DEF LinkInv, QueryBuffer
    <2>10. ASSUME NEW line \in Lines, ClearNewData(line) PROVE LinkInv'
      BY <2>1, <2>2, <2>10, ClearNewDataStep DEF LinkInv, ClearNewData
    <2>11. ASSUME NEW line \in Lines, StorageEmpty(line) PROVE LinkInv'
      BY <2>1, <2>2, <2>11, StorageEmptyStep DEF LinkInv, StorageEmpty
    <2>12. CASE UNCHANGED vars
      BY <2>1, <2>2, <2>12, StorageKept DEF LinkInv, vars, receiver
    <2>. QED BY <2>3, <2>4, <2>5, <2>6, <2>7, <2>8, <2>9, <2>10, <2>11, <2>12 DEF Next, OnReceive
  <1>. QED BY <1>1, <1>2, PTL DEF Spec

(* What a callback is given is what the sender meant, whatever is sent and *)
(* through whichever pair of backends.                                     *)
THEOREM FaithfulThm == Spec => []Faithful
  <1>1. LinkInv => Faithful
    BY DEF LinkInv
  <1>. QED BY <1>1, LinkInvariance, PTL

(* No HAL call is told more bytes than there are, on either side.          *)
THEOREM HalStaysInsideThm == Spec => []HalStaysInside
  <1>1. LinkInv => HalStaysInside
    BY DEF LinkInv
  <1>. QED BY <1>1, LinkInvariance, PTL

(* However arrivals, the receive interrupts and the accesses to the new-   *)
(* data bits interleave, a frame that waits has its line's flag up, or the *)
(* interrupt that runs comes to it; the frames of overrun, which came into *)
(* an Rx buffer between the HAL's copy and its second clearing of the bit, *)
(* are the only ones that have neither.                                    *)
THEOREM NothingStrandedThm == Spec => []NothingStranded
  <1>1. LinkInv => NothingStranded
    BY DEF LinkInv, StorageInv
  <1>. QED BY <1>1, LinkInvariance, PTL
-----------------------------------------------------------------------------
(* The bits of words and keys.                                             *)

(* Two words agree under a mask when each of its bits is in both or none.  *)
LEMMA AgreeBits ==
  ASSUME NEW a, NEW b, NEW mask
  PROVE  Agree(a, b, mask) <=> \A x \in mask : x \in a <=> x \in b
  BY DEF Agree, Differ

(* Where a shift leaves a bit. *)
LEMMA ShiftedBit ==
  ASSUME NEW S \in SUBSET Int, NEW k \in Int, NEW x \in Int
  PROVE  x \in Shift(S, k) <=> x - k \in S
  <1>1. ASSUME x \in Shift(S, k) PROVE x - k \in S
    <2>1. PICK c \in S : x = c + k
      BY <1>1 DEF Shift
    <2>. QED BY <2>1
  <1>2. ASSUME x - k \in S PROVE x \in Shift(S, k)
    <2>1. (x - k) + k = x
      OBVIOUS
    <2>. QED BY <1>2, <2>1 DEF Shift
  <1>. QED BY <1>1, <1>2

LEMMA ShiftIsInt ==
  ASSUME NEW S \in SUBSET Int, NEW k \in Int
  PROVE  Shift(S, k) \in SUBSET Int
  BY DEF Shift

(* A bank's word from its halves, and taken apart again. *)
LEMMA WholeWord ==
  ASSUME NEW S \in SUBSET (0 .. 31)
  PROVE  Low(S) \cup Shift(High(S), 16) = S
  <1>1. High(S) \in SUBSET Int
    BY DEF High, Bits
  <1>2. \A x \in Int : x \in Shift(High(S), 16) <=> x \in S \ Bits(16)
    <2>. SUFFICES ASSUME NEW x \in Int PROVE x \in Shift(High(S), 16) <=> x \in S \ Bits(16)
      OBVIOUS
    <2>1. x \in Shift(High(S), 16) <=> x - 16 \in High(S)
      BY <1>1, ShiftedBit
    <2>2. x - 16 \in High(S) <=> x \in S \ Bits(16)
      BY DEF High
    <2>. QED BY <2>1, <2>2
  <1>3. Shift(High(S), 16) \in SUBSET Int
    BY <1>1, ShiftIsInt
  <1>4. \A x : x \in Shift(High(S), 16) <=> x \in S \ Bits(16)
    <2>1. 0 .. 31 \subseteq Int
      OBVIOUS
    <2>. QED BY <1>2, <1>3, <2>1, Zenon
  <1>. QED BY <1>4 DEF Low

Framed(w) == {w.ext, w.remote} \subseteq BOOLEAN /\ IsValidId(w.ext, w.id)

(* What bxCAN compares a frame as: RTR, IDE, and the identifier, shifted. *)
LEMMA KeyBits ==
  ASSUME NEW w, Framed(w)
  PROVE  /\ Key32(w) \subseteq 1 .. 31
         /\ 1 \in Key32(w) <=> w.remote
         /\ 2 \in Key32(w) <=> w.ext
         /\ \A x \in 3 .. 31 : x \in Key32(w) <=> x - (IF w.ext THEN 3 ELSE 21) \in w.id
  <1>. DEFINE k == IF w.ext THEN 3 ELSE 21
              top == IF w.ext THEN 28 ELSE 10
  <1>1. k \in Int /\ top \in Int /\ top + k = 31 /\ k >= 3 /\ w.id \subseteq 0 .. top
    BY DEF Framed, IsValidId
  <1>2. \A x \in Int : x \in Shift(w.id, k) <=> x - k \in w.id
    BY <1>1, ShiftedBit
  <1>3. Shift(w.id, k) \in SUBSET Int
    BY <1>1, ShiftIsInt
  <1>. DEFINE ide == IF w.ext THEN {2} ELSE {}
              rtr == IF w.remote THEN {1} ELSE {}
  <1>4. Key32(w) = Shift(w.id, k) \cup ide \cup rtr
    BY DEF Key32, Ide32
  <1>5. ide \subseteq {2} /\ rtr \subseteq {1}
    OBVIOUS
  <1>6. (1 \in rtr <=> w.remote) /\ (2 \in ide <=> w.ext)
    BY Zenon DEF Framed
  <1>. HIDE DEF k, top, ide, rtr
  <1>7. ASSUME NEW x \in Shift(w.id, k) PROVE x \in 3 .. 31
    <2>1. x \in Int /\ x - k \in 0 .. top
      BY <1>1, <1>2, <1>3
    <2>. QED BY <1>1, <2>1
  <1>8. \A x \in 3 .. 31 : x \in Shift(w.id, k) <=> x - k \in w.id
    BY <1>2
  <1>. DEFINE sh == Shift(w.id, k)
  <1>9. sh \subseteq 3 .. 31 /\ Key32(w) = sh \cup ide \cup rtr
    BY <1>4, <1>7
  <1>. HIDE DEF sh
  <1>10. /\ Key32(w) \subseteq 1 .. 31
         /\ 1 \in Key32(w) <=> 1 \in rtr
         /\ 2 \in Key32(w) <=> 2 \in ide
         /\ \A x \in 3 .. 31 : x \in Key32(w) <=> x \in sh
    BY <1>5, <1>9
  <1>11. \A x \in 3 .. 31 : x \in Key32(w) <=> x - k \in w.id
    BY <1>8, <1>10 DEF sh
  <1>. QED BY <1>6, <1>10, <1>11 DEF k

(* Where a shift to the right leaves a bit. *)
LEMMA UnshiftedBit ==
  ASSUME NEW S \in SUBSET Nat, NEW k \in Nat
  PROVE  /\ Unshift(S, k) \subseteq Nat
         /\ \A x \in Nat : x \in Unshift(S, k) <=> x + k \in S
  <1>1. Unshift(S, k) \subseteq Nat
    BY DEF Unshift
  <1>2. ASSUME NEW x \in Nat, x \in Unshift(S, k) PROVE x + k \in S
    <2>1. PICK b \in S : b >= k /\ x = b - k
      BY <1>2 DEF Unshift
    <2>. QED BY <2>1
  <1>3. ASSUME NEW x \in Nat, x + k \in S PROVE x \in Unshift(S, k)
    <2>1. x + k >= k /\ (x + k) - k = x
      OBVIOUS
    <2>. QED BY <1>3, <2>1 DEF Unshift
  <1>. QED BY <1>1, <1>2, <1>3

Named(ext) == IF ext THEN 2 .. 31 ELSE 21 .. 31

(* A word that an identifier can be read from is the key of the data       *)
(* frames with this identifier and of no others.                           *)
LEMMA WordIsKey ==
  ASSUME NEW w, Framed(w), ~w.remote,
         NEW ext \in BOOLEAN, NEW F, F \subseteq Named(ext), 2 \in F <=> ext
  PROVE  Key32(w) = F <=> w.ext = ext /\ w.id = Unshift(F, IF ext THEN 3 ELSE 21)
  <1>. DEFINE k == IF ext THEN 3 ELSE 21
              id == Unshift(F, k)
              key == Key32(w)
  <1>1. F \subseteq 2 .. 31 /\ F \in SUBSET Nat /\ (~ext => F \subseteq 21 .. 31) /\ k \in Nat
    BY DEF Named
  <1>2. id \subseteq Nat /\ \A x \in Nat : x \in id <=> x + k \in F
    BY <1>1, UnshiftedBit
  <1>3. w.ext \in BOOLEAN /\ w.id \subseteq Nat
    BY DEF Framed, IsValidId
  <1>4. /\ key \subseteq 1 .. 31 /\ 1 \notin key /\ (2 \in key <=> w.ext)
        /\ \A x \in 3 .. 31 : x \in key <=> x - (IF w.ext THEN 3 ELSE 21) \in w.id
    BY KeyBits
  <1>. HIDE DEF key
  <1>5. ASSUME w.ext = ext
        PROVE  /\ 2 \in key <=> 2 \in F
               /\ \A x \in 3 .. 31 : x \in key <=> x - k \in w.id
    BY <1>4, <1>5
  <1>6. ASSUME key = F PROVE w.ext = ext
    BY <1>3, <1>4, <1>6
  <1>. HIDE DEF id
  <1>7. ASSUME w.ext = ext, key = F PROVE w.id = id
    <2>1. \A x \in 3 .. 31 : x \in F <=> x - k \in w.id
      BY <1>5, <1>7
    <2>2. w.id \subseteq 0 .. 31 - k
      BY <1>7 DEF Framed, IsValidId
    <2>3. \A x \in Nat : x \in w.id <=> x + k \in F
      <3>. SUFFICES ASSUME NEW x \in Nat PROVE x \in w.id <=> x + k \in F
        OBVIOUS
      <3>. DEFINE y == x + k
      <3>1. y \in Nat /\ y - k = x /\ y >= 3 /\ (x \in w.id => y \in 3 .. 31)
        BY <1>1, <2>2
      <3>. HIDE DEF y
      <3>2. y \in F => y \in 3 .. 31
        BY <1>1, <3>1
      <3>. QED BY <2>1, <3>1, <3>2 DEF y
    <2>4. \A x \in Nat : x \in w.id <=> x \in id
      BY <1>2, <2>3
    <2>. QED BY <1>2, <1>3, <2>4
  <1>8. ASSUME w.ext = ext, w.id = id PROVE key = F
    <2>1. \A x \in 3 .. 31 : x \in key <=> x \in F
      <3>. SUFFICES ASSUME NEW x \in 3 .. 31 PROVE x - k \in id <=> x \in F
        BY <1>5, <1>8
      <3>1. CASE x >= k
        <4>1. x - k \in Nat /\ (x - k) + k = x
          BY <3>1, <1>1
        <4>. QED BY <1>2, <4>1
      <3>2. CASE ~(x >= k)
        <4>1. x - k \notin id
          BY <1>1, <1>2, <3>2
        <4>2. x \notin F
          BY <1>1, <3>2
        <4>. QED BY <4>1, <4>2
      <3>. QED BY <3>1, <3>2
    <2>2. 2 \in key <=> 2 \in F
      BY <1>5, <1>8
    <2>3. \A x \in 1 .. 31 : x \in key <=> x \in F
      <3>. SUFFICES ASSUME NEW x \in 1 .. 31 PROVE x \in key <=> x \in F
        OBVIOUS
      <3>1. x = 1 \/ x = 2 \/ x \in 3 .. 31
        OBVIOUS
      <3>2. 1 \notin key /\ 1 \notin F
        BY <1>1, <1>4
      <3>. QED BY <2>1, <2>2, <3>1, <3>2
    <2>4. key \subseteq 1 .. 31 /\ F \subseteq 1 .. 31
      BY <1>1, <1>4
    <2>. QED BY <2>3, <2>4, Zenon
  <1>. QED BY <1>6, <1>7, <1>8 DEF id, key

(* A mask that looks at the IDE bit and not at the RTR bit takes the       *)
(* frames of one kind whose identifier agrees with it, shifted or not.     *)
LEMMA MaskIsElement ==
  ASSUME NEW w, Framed(w), NEW ext \in BOOLEAN,
         NEW F, F \subseteq Named(ext), 2 \in F <=> ext,
         NEW S \in SUBSET (0 .. 31), 2 \in S, 1 \notin S
  PROVE  Agree(Key32(w), F, S) <=>
           /\ w.ext = ext
           /\ LET k == IF ext THEN 3 ELSE 21 IN Agree(w.id, Unshift(F, k), Unshift(S, k))
  <1>. DEFINE k == IF ext THEN 3 ELSE 21
              id == Unshift(F, k)
              mask == Unshift(S, k)
              key == Key32(w)
  <1>1. /\ F \subseteq 2 .. 31 /\ F \in SUBSET Nat /\ k \in {3, 21} /\ S \in SUBSET Nat
        /\ \A x \in F : x = 2 \/ x >= k
    BY DEF Named
  <1>2. /\ id \subseteq Nat /\ \A x \in Nat : x \in id <=> x + k \in F
        /\ mask \subseteq Nat /\ \A x \in Nat : x \in mask <=> x + k \in S
    BY <1>1, UnshiftedBit
  <1>3. w.ext \in BOOLEAN /\ w.id \subseteq Nat
    BY DEF Framed, IsValidId
  <1>4. /\ key \subseteq 1 .. 31 /\ (2 \in key <=> w.ext)
        /\ \A x \in 3 .. 31 : x \in key <=> x - (IF w.ext THEN 3 ELSE 21) \in w.id
    BY KeyBits
  <1>. HIDE DEF key, id, mask
  <1>5. /\ Agree(key, F, S) <=> \A x \in S : x \in key <=> x \in F
        /\ Agree(w.id, id, mask) <=> \A x \in mask : x \in w.id <=> x \in id
    BY AgreeBits
  <1>6. ASSUME Agree(key, F, S) PROVE w.ext = ext
    BY <1>3, <1>4, <1>5, <1>6
  <1>7. ASSUME w.ext = ext PROVE \A x \in 3 .. 31 : x \in key <=> x - k \in w.id
    BY <1>4, <1>7
  <1>. HIDE DEF k
  <1>8. ASSUME w.ext = ext, Agree(key, F, S), NEW x \in mask PROVE x \in w.id <=> x \in id
    <2>. DEFINE y == x + k
    <2>1. x \in Nat /\ y \in S /\ y \in 3 .. 31 /\ y - k = x
      BY <1>1, <1>2
    <2>2. (y \in key <=> y \in F) /\ (x \in id <=> y \in F)
      BY <1>2, <1>5, <1>8, <2>1
    <2>. HIDE DEF y
    <2>. QED BY <1>7, <1>8, <2>1, <2>2
  <1>9. ASSUME w.ext = ext, Agree(w.id, id, mask), NEW x \in S PROVE x \in key <=> x \in F
    <2>1. CASE x = 0
      BY <1>1, <1>4, <2>1
    <2>2. CASE x = 2
      BY <1>4, <1>9, <2>2
    <2>3. CASE x \in 3 .. 31 /\ ~(x >= k)
      <3>1. x \notin F /\ x - k \notin w.id
        BY <1>1, <1>3, <2>3
      <3>. QED BY <1>7, <1>9, <2>3, <3>1
    <2>4. CASE x \in 3 .. 31 /\ x >= k
      <3>. DEFINE y == x - k
      <3>1. y \in Nat /\ y + k = x
        BY <1>1, <2>4
      <3>2. x \in key <=> y \in w.id
        BY <1>7, <1>9, <2>4
      <3>. HIDE DEF y
      <3>3. y \in mask /\ (y \in id <=> x \in F)
        BY <1>2, <1>9, <3>1
      <3>. QED BY <1>5, <1>9, <3>2, <3>3
    <2>. QED BY <2>1, <2>2, <2>3, <2>4
  <1>. QED BY <1>5, <1>6, <1>8, <1>9 DEF k, key, id, mask

(* The two words of a bank. *)
First(b)  == b.idLow \cup Shift(b.idHigh, 16)
Second(b) == b.maskLow \cup Shift(b.maskHigh, 16)

LEMMA WordOfHalves ==
  ASSUME NEW low \in SUBSET Bits(16), NEW high \in SUBSET Bits(16)
  PROVE  /\ low \cup Shift(high, 16) \in SUBSET (0 .. 31)
         /\ 2 \in low \cup Shift(high, 16) <=> 2 \in low
  <1>1. Bits(16) = 0 .. 15
    BY DEF Bits
  <1>2. Shift(high, 16) \subseteq 16 .. 31
    BY <1>1 DEF Shift
  <1>. QED BY <1>1, <1>2

(* A 32-bit bank and the element it is translated to take the same frames. *)
LEMMA BankAsElement ==
  ASSUME NEW b, b.on \in BOOLEAN, b.list \in BOOLEAN,
         {b.idLow, b.idHigh, b.maskLow, b.maskHigh} \subseteq SUBSET Bits(16),
         b.on => b.scale = 32 /\ (b.list => (2 \in b.idLow <=> 2 \in b.maskLow)),
         First(b) \subseteq Named(ElementOf(b).ext),
         IF b.list THEN Second(b) \subseteq Named(ElementOf(b).ext)
                   ELSE 2 \in Second(b) /\ 1 \notin Second(b),
         NEW w, Framed(w), b.list => ~w.remote
  PROVE  BankMatches(RawBank(b), w) <=> /\ ElementOf(b).action # "Disable"
                                        /\ w.ext = ElementOf(b).ext
                                        /\ ElementMatches(ElementOf(b), w.id, w.id)
  <1>. DEFINE F == First(b)
              S == Second(b)
              e == ElementOf(b)
              raw == RawBank(b)
              ext == 2 \in F
              k == IF ext THEN 3 ELSE 21
  <1>1. /\ F \in SUBSET (0 .. 31) /\ S \in SUBSET (0 .. 31)
        /\ 2 \in F <=> 2 \in b.idLow
        /\ 2 \in S <=> 2 \in b.maskLow
    BY WordOfHalves DEF First, Second
  <1>2. /\ raw.on = b.on /\ raw.scale = b.scale /\ raw.list = b.list
        /\ First(raw) = F /\ Second(raw) = S
    BY DEF RawBank, First, Second
  <1>3. CASE ~b.on
    <2>1. e.action = "Disable"
      BY <1>3 DEF ElementOf, NoElement
    <2>2. ~raw.on
      BY <1>2, <1>3
    <2>. HIDE DEF e, raw
    <2>3. ~BankMatches(raw, w)
      BY <2>2, Zenon DEF BankMatches
    <2>. QED BY <2>1, <2>3 DEF e, raw
  <1>4. CASE b.on
    <2>1. /\ e.ext = ext /\ e.type = (IF b.list THEN "DUAL" ELSE "MASK")
          /\ e.action \in {"Fifo0", "Fifo1"}
          /\ e.id1 = Unshift(F, k) /\ e.id2 = Unshift(S, k)
      BY <1>4 DEF ElementOf, First, Second
    <2>2. /\ raw.on /\ raw.scale = 32 /\ raw.list = b.list
      BY <1>2, <1>4
    <2>3. CASE b.list
      <3>1. BankMatches(raw, w) <=> Key32(w) \in {F, S}
        <4>. HIDE DEF raw
        <4>1. BankMatches(raw, w) <=> Key32(w) \in {First(raw), Second(raw)}
          BY <2>2, <2>3, Zenon DEF BankMatches, First, Second
        <4>. QED BY <1>2, <4>1
      <3>2. ElementMatches(e, w.id, w.id) <=> w.id \in {e.id1, e.id2}
        <4>. HIDE DEF e
        <4>. QED BY <2>1, <2>3 DEF ElementMatches
      <3>3. ext \in BOOLEAN /\ F \subseteq Named(ext) /\ S \subseteq Named(ext)
        BY <2>1, <2>3
      <3>4. (2 \in F <=> ext) /\ (2 \in S <=> ext) /\ ~w.remote
        BY <1>1, <1>4, <2>3
      <3>. HIDE DEF e, raw, F, S, ext
      <3>5. /\ Key32(w) = F <=> w.ext = ext /\ w.id = Unshift(F, k)
            /\ Key32(w) = S <=> w.ext = ext /\ w.id = Unshift(S, k)
        BY <3>3, <3>4, WordIsKey
      <3>. HIDE DEF k
      <3>. QED BY <2>1, <3>1, <3>2, <3>5 DEF e, raw
    <2>4. CASE ~b.list
      <3>1. BankMatches(raw, w) <=> Agree(Key32(w), F, S)
        <4>. HIDE DEF raw
        <4>. QED BY <1>2, <1>4, <2>2, <2>4 DEF BankMatches, First, Second
      <3>2. ElementMatches(e, w.id, w.id) <=> Agree(w.id, e.id1, e.id2)
        <4>. HIDE DEF e
        <4>. QED BY <2>1, <2>4 DEF ElementMatches
      <3>3. ext \in BOOLEAN /\ F \subseteq Named(ext) /\ 2 \in S /\ 1 \notin S
        BY <2>1, <2>4
      <3>4. 2 \in F <=> ext
        OBVIOUS
      <3>. HIDE DEF e, raw, F, S, ext
      <3>5. Agree(Key32(w), F, S) <=> w.ext = ext /\ Agree(w.id, Unshift(F, k), Unshift(S, k))
        BY <1>1, <3>3, <3>4, MaskIsElement
      <3>. HIDE DEF k
      <3>. QED BY <2>1, <3>1, <3>2, <3>5 DEF e, raw
    <2>. QED BY <2>3, <2>4
  <1>. QED BY <1>3, <1>4

(* Each list's element is the translation of the last bank accepted for it. *)
FilterInv ==
  /\ chosen \in DOMAIN Uses
  /\ element \in [BOOLEAN -> {NoElement} \cup {ElementOf(b) : b \in use.banks}]
  /\ wanted \in [BOOLEAN -> SUBSET use.banks]
  /\ \A x \in BOOLEAN : wanted[x] = {} => element[x].action = "Disable"
  /\ \A x \in BOOLEAN : \A b \in wanted[x] :
       /\ wanted[x] = {b} /\ element[x] = ElementOf(b) /\ ElementOf(b).ext = x
       /\ Translates(b) /\ use.capacity[x] > 0

(* What a translated bank lets pass, it lets pass as a bank. *)
LEMMA WantedPasses ==
  ASSUME FilterInv, NEW x \in BOOLEAN, NEW b \in wanted[x], Expressible(b),
         NEW w \in use.wires, b.list => ~w.remote
  PROVE  BankMatches(RawBank(b), w) <=> w.ext = x /\ Passes(w)
  <1>1. /\ b \in use.banks /\ element[x] = ElementOf(b) /\ ElementOf(b).ext = x
        /\ Translates(b) /\ use.capacity[x] > 0
    BY DEF FilterInv
  <1>2. /\ b.on \in BOOLEAN /\ b.list \in BOOLEAN
        /\ {b.idLow, b.idHigh, b.maskLow, b.maskHigh} \subseteq SUBSET Bits(16)
    BY <1>1, LegacyAssumption DEF FilterInv, use
  <1>3. Framed(w)
    BY LegacyAssumption DEF FilterInv, use, Framed
  <1>4. CASE ~b.on
    <2>1. ElementOf(b).action = "Disable"
      BY <1>4 DEF ElementOf, NoElement
    <2>2. ~RawBank(b).on
      BY <1>4 DEF RawBank
    <2>3. ~BankMatches(RawBank(b), w)
      BY <2>2, Zenon DEF BankMatches
    <2>4. ~(w.ext = x /\ Passes(w))
      BY <1>1, <2>1 DEF Passes
    <2>. QED BY <2>3, <2>4
  <1>5. CASE b.on
    <2>1. /\ First(b) \subseteq Named(ElementOf(b).ext)
          /\ IF b.list THEN Second(b) \subseteq Named(ElementOf(b).ext)
                       ELSE 2 \in Second(b) /\ 1 \notin Second(b)
      <3>1. ElementOf(b).ext = (2 \in First(b))
        BY <1>5 DEF ElementOf, First
      <3>2. /\ First(b) \subseteq Named(2 \in First(b))
            /\ IF b.list THEN Second(b) \subseteq Named(2 \in First(b))
                         ELSE 2 \in Second(b) /\ 1 \notin Second(b)
        BY <1>5, Zenon DEF Expressible, First, Second, Named
      <3>. QED BY <3>1, <3>2
    <2>2. b.on => b.scale = 32 /\ (b.list => (2 \in b.idLow <=> 2 \in b.maskLow))
      BY <1>1 DEF Translates
    <2>3. BankMatches(RawBank(b), w) <=> /\ ElementOf(b).action # "Disable"
                                         /\ w.ext = ElementOf(b).ext
                                         /\ ElementMatches(ElementOf(b), w.id, w.id)
      BY <1>2, <1>3, <2>1, <2>2, BankAsElement
    <2>4. w.ext = x => (Passes(w) <=> /\ ElementOf(b).action # "Disable"
                                      /\ ElementMatches(ElementOf(b), w.id, w.id))
      <3>. HIDE DEF FilterInv
      <3>. QED BY <1>1, Zenon DEF Passes
    <2>. QED BY <1>1, <2>3, <2>4
  <1>. QED BY <1>4, <1>5

(* The translation keeps what a bank means, whatever its words and the     *)
(* frames, and however often it is configured: the frames that pass are    *)
(* those of the last bank accepted for each list.                          *)
THEOREM BankMeansTheSameThm == LegacySpec => []BankMeansTheSame
  <1>1. LegacyInit => FilterInv
    BY DEF LegacyInit, FilterInv, NoElement
  <1>2. FilterInv /\ [LegacyNext]_legacyVars => FilterInv'
    <2>. SUFFICES ASSUME FilterInv, [LegacyNext]_legacyVars PROVE FilterInv'
      OBVIOUS
    <2>1. chosen' = chosen /\ use' = use
      <3>1. chosen' = chosen
        BY DEF LegacyNext, legacyVars, Start, SendMessage, TxInterrupt, RxDispatch,
               RegisterCallback, SlotEmpties, Arrive, ConfigFilter
      <3>. QED BY <3>1 DEF use
    <2>2. CASE UNCHANGED <<element, wanted>>
      BY <2>1, <2>2 DEF FilterInv
    <2>3. ASSUME NEW b \in use.banks, ConfigFilter(b) PROVE FilterInv'
      <3>. DEFINE e == ElementOf(b)
      <3>1. e.ext \in BOOLEAN
        <4>1. CASE b.on
          <5>1. e.ext = (2 \in b.idLow \cup Shift(b.idHigh, 16))
            BY <4>1 DEF ElementOf
          <5>2. (2 \in b.idLow \cup Shift(b.idHigh, 16)) \in BOOLEAN
            OBVIOUS
          <5>. HIDE DEF e
          <5>. QED BY <5>1, <5>2, Zenon
        <4>2. CASE ~b.on
          <5>1. e.ext = FALSE
            BY <4>2 DEF ElementOf, NoElement
          <5>. HIDE DEF e
          <5>. QED BY <5>1
        <4>. QED BY <4>1, <4>2
      <3>2. CASE /\ Translates(b) /\ use.capacity[e.ext] > 0
                 /\ element' = [element EXCEPT ![e.ext] = e]
                 /\ wanted' = [wanted EXCEPT ![e.ext] = {b}]
        <4>. DEFINE x == e.ext
        <4>1. e \in {NoElement} \cup {ElementOf(d) : d \in use.banks}
          OBVIOUS
        <4>. HIDE DEF e
        <4>2. /\ element'[x] = e /\ wanted'[x] = {b}
              /\ \A y \in BOOLEAN \ {x} : element'[y] = element[y] /\ wanted'[y] = wanted[y]
              /\ element' \in [BOOLEAN -> {NoElement} \cup {ElementOf(d) : d \in use.banks}]
              /\ wanted' \in [BOOLEAN -> SUBSET use.banks]
          BY <3>1, <3>2, <4>1 DEF FilterInv
        <4>3. \A y \in BOOLEAN : wanted'[y] = {} => element'[y].action = "Disable"
          BY <4>2 DEF FilterInv
        <4>4. \A y \in BOOLEAN : \A d \in wanted'[y] :
                /\ wanted'[y] = {d} /\ element'[y] = ElementOf(d) /\ ElementOf(d).ext = y
                /\ Translates(d) /\ use.capacity[y] > 0
          <5>1. ElementOf(b) = e
            BY DEF e
          <5>. QED BY <3>1, <3>2, <4>2, <5>1 DEF FilterInv
        <4>. QED BY <2>1, <4>2, <4>3, <4>4 DEF FilterInv
      <3>. QED BY <2>2, <2>3, <3>2 DEF ConfigFilter
    <2>4. UNCHANGED <<element, wanted>> \/ \E b \in use.banks : ConfigFilter(b)
      BY DEF LegacyNext, legacyVars, filtering, Start, SendMessage, TxInterrupt, RxDispatch,
             RegisterCallback, SlotEmpties, Arrive
    <2>. QED BY <2>2, <2>3, <2>4
  <1>3. FilterInv => BankMeansTheSame
    <2>. DEFINE inForce == wanted[FALSE] \cup wanted[TRUE]
    <2>. SUFFICES ASSUME FilterInv, NEW w \in use.wires,
                         \A b \in inForce : Expressible(b) /\ (b.list => ~w.remote)
                  PROVE  Passes(w) <=> \E b \in inForce : BankMatches(RawBank(b), w)
      BY Zenon DEF BankMeansTheSame
    <2>1. \A x \in BOOLEAN : \A b \in wanted[x] :
            BankMatches(RawBank(b), w) <=> w.ext = x /\ Passes(w)
      BY WantedPasses
    <2>2. w.ext \in BOOLEAN
      BY LegacyAssumption DEF FilterInv, use
    <2>3. ASSUME Passes(w) PROVE wanted[w.ext] # {}
      BY <2>2, <2>3 DEF Passes, FilterInv
    <2>4. wanted[w.ext] \subseteq inForce
      BY <2>2
    <2>. QED BY <2>1, <2>2, <2>3, <2>4
  <1>. QED BY <1>1, <1>2, <1>3, PTL DEF LegacySpec

-----------------------------------------------------------------------------
(* What the filters of can_driver2 are written as. *)

(* FDCAN: the element written for a filter takes what the filter takes. *)
LEMMA ElementAsFilter ==
  ASSUME NEW f, f.mode \in FilterModes, f.action = "RxBuffer" => f.mode = "Mask",
         NEW w, f.ext = w.ext, NEW eidm
  PROVE  ElementMatches(NativeElement(f), w.id, IF w.ext THEN w.id \cap eidm ELSE w.id)
           <=> Takes(f, w, eidm)
  <1>. DEFINE e == NativeElement(f)
              masked == IF w.ext THEN w.id \cap eidm ELSE w.id
              id == IF w.ext /\ f.mode # "RangeWithoutExtendedMask" THEN w.id \cap eidm ELSE w.id
  <1>1. /\ e.action = f.action /\ e.id1 = f.id1
        /\ f.action # "RxBuffer" => e.id2 = f.id2
        /\ f.mode = "Mask" => e.type = "MASK"
        /\ f.mode = "List" => e.type = "DUAL"
        /\ f.mode = "Range" => e.type = "RANGE"
        /\ f.mode = "RangeWithoutExtendedMask" => e.type = "RANGE_NO_EIDM"
    BY DEF NativeElement
  <1>2. /\ f.mode # "RangeWithoutExtendedMask" => id = masked
        /\ f.mode = "RangeWithoutExtendedMask" => id = w.id
    OBVIOUS
  <1>3. Takes(f, w, eidm) <=>
          IF f.action = "RxBuffer" THEN id = f.id1
          ELSE CASE f.mode = "Mask" -> \A b \in f.id2 : b \in id <=> b \in f.id1
                 [] f.mode = "List" -> id = f.id1 \/ id = f.id2
                 [] OTHER -> AtMost(f.id1, id) /\ AtMost(id, f.id2)
    BY Zenon DEF Takes
  <1>. HIDE DEF e, masked, id
  <1>4. CASE f.action = "RxBuffer"
    BY <1>1, <1>2, <1>3, <1>4 DEF ElementMatches, e, masked
  <1>5. CASE f.action # "RxBuffer" /\ f.mode = "Mask"
    <2>1. ElementMatches(e, w.id, masked) <=> Agree(masked, f.id1, f.id2)
      BY <1>1, <1>5 DEF ElementMatches
    <2>2. Agree(masked, f.id1, f.id2) <=> \A b \in f.id2 : b \in masked <=> b \in f.id1
      BY AgreeBits
    <2>. QED BY <1>2, <1>3, <1>5, <2>1, <2>2 DEF e, masked
  <1>6. CASE f.action # "RxBuffer" /\ f.mode = "List"
    BY <1>1, <1>2, <1>3, <1>6 DEF ElementMatches, e, masked
  <1>7. CASE f.action # "RxBuffer" /\ f.mode = "Range"
    BY <1>1, <1>2, <1>3, <1>7 DEF ElementMatches, e, masked
  <1>8. CASE f.action # "RxBuffer" /\ f.mode = "RangeWithoutExtendedMask"
    BY <1>1, <1>2, <1>3, <1>8 DEF ElementMatches, e, masked
  <1>. QED BY <1>4, <1>5, <1>6, <1>7, <1>8 DEF FilterModes

KeyOf(ext, id) == IF ext THEN Shift(id, 3) \cup Ide32 ELSE Shift(id, 21)

(* An identifier's key is a word it can be read from. *)
LEMMA KeyOfId ==
  ASSUME NEW ext \in BOOLEAN, NEW id, id \subseteq LimitOf(ext)
  PROVE  LET key == KeyOf(ext, id)
             k   == IF ext THEN 3 ELSE 21
         IN  /\ key \subseteq Named(ext) /\ key \in SUBSET (0 .. 31) /\ (2 \in key <=> ext)
             /\ Unshift(key, k) = id /\ Unshift(key \cup Ide32, k) = id
  <1>. DEFINE k   == IF ext THEN 3 ELSE 21
              top == IF ext THEN 28 ELSE 10
              sh  == Shift(id, k)
              ide == IF ext THEN {2} ELSE {}
              key == KeyOf(ext, id)
  <1>1. /\ k \in {3, 21} /\ top \in Nat /\ top + k = 31 /\ id \subseteq 0 .. top
        /\ id \in SUBSET Int
    BY DEF LimitOf, Bits
  <1>2. key = sh \cup ide /\ ide \subseteq {2} /\ Ide32 = {2}
    BY DEF KeyOf, Ide32
  <1>3. sh \in SUBSET Int /\ \A x \in Int : x \in sh <=> x - k \in id
    BY <1>1, ShiftedBit, ShiftIsInt
  <1>4. /\ ext => k = 3 /\ ide = {2}
        /\ ~ext => k = 21 /\ ide = {}
    OBVIOUS
  <1>. HIDE DEF k, top, sh, ide, key
  <1>5. sh \subseteq k .. 31
    <2>. SUFFICES ASSUME NEW x \in sh PROVE x \in k .. 31
      OBVIOUS
    <2>1. x \in Int /\ x - k \in 0 .. top
      BY <1>1, <1>3
    <2>. QED BY <1>1, <2>1
  <1>6. /\ key \subseteq Named(ext) /\ key \in SUBSET (0 .. 31) /\ (2 \in key <=> ext)
    BY <1>1, <1>2, <1>4, <1>5 DEF Named
  <1>7. ASSUME NEW E, E \subseteq {2} PROVE Unshift(sh \cup E, k) = id
    <2>1. sh \cup E \in SUBSET Nat
      BY <1>1, <1>5, <1>7
    <2>2. /\ Unshift(sh \cup E, k) \subseteq Nat
          /\ \A x \in Nat : x \in Unshift(sh \cup E, k) <=> x + k \in sh \cup E
      BY <1>1, <2>1, UnshiftedBit
    <2>3. ASSUME NEW x \in Nat PROVE x + k \in sh \cup E <=> x \in id
      <3>1. x + k \notin E /\ x + k \in Int /\ (x + k) - k = x
        BY <1>1, <1>7
      <3>. QED BY <1>3, <3>1
    <2>4. id \subseteq Nat
      BY <1>1
    <2>. HIDE DEF Unshift
    <2>. QED BY <2>2, <2>3, <2>4
  <1>8. Unshift(key, k) = id /\ Unshift(key \cup Ide32, k) = id
    <2>1. Unshift(sh \cup ide, k) = id /\ Unshift(sh \cup (ide \cup {2}), k) = id
      BY <1>2, <1>7
    <2>2. key \cup Ide32 = sh \cup (ide \cup {2})
      BY <1>2
    <2>. QED BY <1>2, <2>1, <2>2
  <1>. QED BY <1>6, <1>8 DEF k, key

(* The standard frame a 16-bit key says. *)
LEMMA Key16Bits ==
  ASSUME NEW w, Framed(w)
  PROVE  /\ 3 \in Key16(w) <=> w.ext
         /\ ~w.ext => \A x \in 5 .. 15 : x \in Key16(w) <=> x - 5 \in w.id
  <1>. DEFINE rtr == IF w.remote THEN {4} ELSE {}
              high == {b - 13 : b \in {c \in w.id : c >= 18}}
              low == {b - 15 : b \in w.id \cap 15 .. 17}
              sh == Shift(w.id, 5)
  <1>1. w.ext \in BOOLEAN /\ w.id \subseteq Nat
    BY DEF Framed, IsValidId
  <1>2. Key16(w) = (IF w.ext THEN high \cup low \cup {3} ELSE sh) \cup rtr
    BY DEF Key16, Ide16
  <1>3. rtr \subseteq {4}
    OBVIOUS
  <1>4. \A x \in Int : x \in sh <=> x - 5 \in w.id
    BY <1>1, ShiftedBit
  <1>. HIDE DEF high, low, sh, rtr
  <1>5. CASE w.ext
    BY <1>2, <1>5
  <1>6. CASE ~w.ext
    <2>1. Key16(w) = sh \cup rtr
      BY <1>2, <1>6
    <2>2. 3 \notin Key16(w)
      BY <1>1, <1>3, <1>4, <2>1
    <2>3. \A x \in 5 .. 15 : x \in Key16(w) <=> x - 5 \in w.id
      BY <1>3, <1>4, <2>1
    <2>. QED BY <1>6, <2>2, <2>3
  <1>. QED BY <1>1, <1>5, <1>6

(* A half of a 16-bit bank takes one standard identifier, data and remote. *)
LEMMA HalfTakesOne ==
  ASSUME NEW w, Framed(w), NEW id, id \subseteq LimitOf(FALSE)
  PROVE  Agree(Key16(w), Shift(id, 5), Shift(Bits(11), 5) \cup Ide16) <=> ~w.ext /\ w.id = id
  <1>. DEFINE sh == Shift(id, 5)
              full == Shift(Bits(11), 5) \cup Ide16
              key == Key16(w)
  <1>1. id \subseteq 0 .. 10 /\ Bits(11) = 0 .. 10 /\ Ide16 = {3}
    BY DEF LimitOf, Bits, Ide16
  <1>2. \A x \in Int : x \in sh <=> x - 5 \in id
    BY <1>1, ShiftedBit
  <1>3. full \subseteq {3} \cup 5 .. 15 /\ 3 \in full /\ 5 .. 15 \subseteq full
    <2>1. Shift(Bits(11), 5) \in SUBSET Int
      BY <1>1, ShiftIsInt
    <2>2. \A x \in Int : x \in Shift(Bits(11), 5) <=> x - 5 \in 0 .. 10
      BY <1>1, ShiftedBit
    <2>. QED BY <1>1, <2>1, <2>2
  <1>4. /\ 3 \in key <=> w.ext
        /\ ~w.ext => \A x \in 5 .. 15 : x \in key <=> x - 5 \in w.id
    BY Key16Bits
  <1>5. w.ext \in BOOLEAN /\ (~w.ext => w.id \subseteq 0 .. 10)
    BY DEF Framed, IsValidId
  <1>. HIDE DEF sh, full, key
  <1>6. Agree(key, sh, full) <=> \A x \in full : x \in key <=> x \in sh
    BY AgreeBits
  <1>7. 3 \notin sh
    BY <1>1, <1>2
  <1>8. ASSUME Agree(key, sh, full) PROVE ~w.ext
    BY <1>3, <1>4, <1>6, <1>7, <1>8
  <1>9. ASSUME ~w.ext, Agree(key, sh, full) PROVE w.id = id
    <2>1. ASSUME NEW x \in 0 .. 10 PROVE x \in w.id <=> x \in id
      <3>. DEFINE y == x + 5
      <3>1. y \in 5 .. 15 /\ y \in Int /\ y - 5 = x
        OBVIOUS
      <3>. HIDE DEF y
      <3>. QED BY <1>2, <1>3, <1>4, <1>6, <1>9, <3>1
    <2>2. w.id \subseteq 0 .. 10
      BY <1>5, <1>9
    <2>. QED BY <1>1, <2>1, <2>2
  <1>10. ASSUME ~w.ext, w.id = id PROVE Agree(key, sh, full)
    <2>1. ASSUME NEW x \in full PROVE x \in key <=> x \in sh
      <3>1. CASE x = 3
        BY <1>4, <1>7, <1>10, <3>1
      <3>2. CASE x \in 5 .. 15
        BY <1>2, <1>4, <1>10, <3>2
      <3>. QED BY <1>3, <3>1, <3>2
    <2>. QED BY <1>6, <2>1
  <1>. QED BY <1>8, <1>9, <1>10 DEF sh, full, key

(* A filter that bxCAN can express. *)
OnBxcan(f) ==
  /\ f.ext \in BOOLEAN /\ f.mode \in FilterModes
  /\ f.id1 \cup f.id2 \subseteq LimitOf(f.ext)
  /\ f.action \in {"Disable", "Fifo0", "Fifo1"}
  /\ f.action # "Disable" => /\ f.mode \notin Ranges
                             /\ f.mode = "List" /\ f.ext => f.id1 = f.id2

(* bxCAN: the bank written for a filter takes what the filter takes. *)
LEMMA BankAsFilter ==
  ASSUME NEW f, OnBxcan(f), f.action # "Disable", NEW w, Framed(w)
  PROVE  BankMatches(Bank(f), w) <=> Takes(f, w, LimitOf(TRUE))
  <1>. DEFINE key(id) == KeyOf(f.ext, id)
              full16 == Shift(Bits(11), 5) \cup Ide16
              k == IF f.ext THEN 3 ELSE 21
              bank == Bank(f)
  <1>. f.ext \in BOOLEAN /\ f.id1 \cup f.id2 \subseteq LimitOf(f.ext)
    BY DEF OnBxcan
  <1>1. /\ f.mode \in {"Mask", "List"} /\ f.action # "RxBuffer"
        /\ f.mode = "List" /\ f.ext => f.id1 = f.id2
    BY DEF OnBxcan, FilterModes, Ranges
  <1>2. /\ w.ext \in BOOLEAN /\ (w.ext => w.id \cap LimitOf(TRUE) = w.id)
        /\ w.id \subseteq LimitOf(w.ext)
    BY DEF Framed, IsValidId, LimitOf, Bits
  <1>3. Takes(f, w, LimitOf(TRUE)) <=>
          /\ f.ext = w.ext
          /\ f.mode = "Mask" => \A b \in f.id2 : b \in w.id <=> b \in f.id1
          /\ f.mode = "List" => w.id = f.id1 \/ w.id = f.id2
    BY <1>1, <1>2 DEF Takes
  <1>4. /\ key(f.id1) \subseteq Named(f.ext) /\ key(f.id1) \in SUBSET (0 .. 31)
        /\ (2 \in key(f.id1) <=> f.ext)
        /\ Unshift(key(f.id1), k) = f.id1
    BY KeyOfId
  <1>5. \A id : key(id) = IF f.ext THEN Shift(id, 3) \cup Ide32 ELSE Shift(id, 21)
    BY DEF KeyOf
  <1>6. ASSUME NEW mask \in SUBSET (0 .. 31), 2 \in mask, 1 \notin mask,
               bank.on, bank.scale = 32, ~bank.list,
               bank.idLow = Low(key(f.id1)), bank.idHigh = High(key(f.id1)),
               bank.maskLow = Low(mask), bank.maskHigh = High(mask)
        PROVE  BankMatches(bank, w) <=> w.ext = f.ext /\ Agree(w.id, f.id1, Unshift(mask, k))
    <2>1. /\ Low(key(f.id1)) \cup Shift(High(key(f.id1)), 16) = key(f.id1)
          /\ Low(mask) \cup Shift(High(mask), 16) = mask
      BY <1>4, WholeWord
    <2>. HIDE DEF bank
    <2>2. BankMatches(bank, w) <=> Agree(Key32(w), First(bank), Second(bank))
      BY <1>6 DEF BankMatches, First, Second
    <2>3. First(bank) = key(f.id1) /\ Second(bank) = mask
      BY <1>6, <2>1 DEF First, Second
    <2>. HIDE DEF key
    <2>4. Agree(Key32(w), key(f.id1), mask) <=>
            w.ext = f.ext /\ Agree(w.id, Unshift(key(f.id1), k), Unshift(mask, k))
      BY <1>4, <1>6, MaskIsElement
    <2>. QED BY <1>4, <2>2, <2>3, <2>4
  <1>7. CASE f.mode = "Mask"
    <2>. DEFINE mask == key(f.id2) \cup Ide32
    <2>1. mask \in SUBSET (0 .. 31) /\ 2 \in mask /\ 1 \notin mask /\ Unshift(mask, k) = f.id2
      <3>1. /\ key(f.id2) \in SUBSET (0 .. 31) /\ key(f.id2) \subseteq Named(f.ext)
            /\ Unshift(mask, k) = f.id2
        BY KeyOfId
      <3>. HIDE DEF key
      <3>2. 1 \notin Named(f.ext) /\ Ide32 = {2}
        BY DEF Named, Ide32
      <3>. QED BY <3>1, <3>2
    <2>2. /\ bank.on /\ bank.scale = 32 /\ ~bank.list
          /\ bank.idLow = Low(key(f.id1)) /\ bank.idHigh = High(key(f.id1))
          /\ bank.maskLow = Low(mask) /\ bank.maskHigh = High(mask)
      BY <1>1, <1>7 DEF Bank, Whole, EmptyBank, KeyOf
    <2>. HIDE DEF mask, bank, key
    <2>3. BankMatches(bank, w) <=> w.ext = f.ext /\ Agree(w.id, f.id1, f.id2)
      BY <1>6, <2>1, <2>2
    <2>4. Agree(w.id, f.id1, f.id2) <=> \A b \in f.id2 : b \in w.id <=> b \in f.id1
      BY AgreeBits
    <2>. QED BY <1>3, <1>7, <2>3, <2>4 DEF bank
  <1>8. CASE f.mode = "List" /\ f.ext
    <2>. DEFINE all  == KeyOf(TRUE, Bits(29))
                mask == all \cup Ide32
    <2>1. mask \in SUBSET (0 .. 31) /\ 2 \in mask /\ 1 \notin mask /\ Unshift(mask, k) = Bits(29)
      <3>1. /\ all \in SUBSET (0 .. 31) /\ all \subseteq Named(TRUE)
            /\ Unshift(all \cup Ide32, 3) = Bits(29)
        BY KeyOfId DEF LimitOf
      <3>2. 1 \notin Named(TRUE) /\ Ide32 = {2}
        BY DEF Named, Ide32
      <3>3. k = 3
        BY <1>8, Zenon
      <3>. HIDE DEF all, k
      <3>4. 1 \notin all /\ all \in SUBSET (0 .. 31)
        BY <3>1, <3>2, Zenon
      <3>5. mask \in SUBSET (0 .. 31) /\ 2 \in mask /\ 1 \notin mask
        BY <3>2, <3>4
      <3>. QED BY <3>1, <3>3, <3>5
    <2>2. mask = Shift(Bits(29), 3) \cup Ide32
      BY DEF KeyOf
    <2>3. /\ bank.on /\ bank.scale = 32 /\ ~bank.list
          /\ bank.idLow = Low(key(f.id1)) /\ bank.idHigh = High(key(f.id1))
          /\ bank.maskLow = Low(mask) /\ bank.maskHigh = High(mask)
      BY <1>1, <1>8, <2>2 DEF Bank, Whole, EmptyBank, KeyOf
    <2>. HIDE DEF mask, bank, key
    <2>4. BankMatches(bank, w) <=> w.ext = f.ext /\ Agree(w.id, f.id1, Bits(29))
      BY <1>6, <2>1, <2>3
    <2>5. f.id1 \subseteq Bits(29) /\ f.id2 = f.id1 /\ (w.ext => w.id \subseteq Bits(29))
      BY <1>1, <1>2, <1>8 DEF LimitOf
    <2>6. w.ext => (Agree(w.id, f.id1, Bits(29)) <=> w.id = f.id1)
      <3>1. Agree(w.id, f.id1, Bits(29)) <=> \A b \in Bits(29) : b \in w.id <=> b \in f.id1
        BY AgreeBits
      <3>. QED BY <2>5, <3>1, Zenon
    <2>. QED BY <1>2, <1>3, <1>8, <2>4, <2>5, <2>6 DEF bank
  <1>9. CASE f.mode = "List" /\ ~f.ext
    <2>1. /\ bank.on /\ bank.scale = 16 /\ ~bank.list
          /\ bank.idLow = Shift(f.id1, 5) /\ bank.maskLow = full16
          /\ bank.idHigh = Shift(f.id2, 5) /\ bank.maskHigh = full16
      BY <1>1, <1>9 DEF Bank, EmptyBank
    <2>2. f.id1 \subseteq LimitOf(FALSE) /\ f.id2 \subseteq LimitOf(FALSE)
      BY <1>9
    <2>. HIDE DEF bank
    <2>3. BankMatches(bank, w) <=> \/ Agree(Key16(w), Shift(f.id1, 5), full16)
                                   \/ Agree(Key16(w), Shift(f.id2, 5), full16)
      BY <2>1 DEF BankMatches
    <2>4. /\ Agree(Key16(w), Shift(f.id1, 5), full16) <=> ~w.ext /\ w.id = f.id1
          /\ Agree(Key16(w), Shift(f.id2, 5), full16) <=> ~w.ext /\ w.id = f.id2
      BY <2>2, HalfTakesOne
    <2>. HIDE DEF full16
    <2>. QED BY <1>2, <1>3, <1>9, <2>3, <2>4 DEF bank
  <1>. QED BY <1>1, <1>7, <1>8, <1>9

-----------------------------------------------------------------------------
(* The filters in force, and the registers they were written to. *)

Asked(kind) == {f \in asked : f.kind = kind}

(* Of filters for one place in the hardware the last is in force. *)
OneEach == \A f, g \in asked : Slot(f) = Slot(g) => f = g
Offered == \A f \in asked : f \in plan.filters /\ FilterStatus(hw, f) = "Ok"

(* Each list element is what was asked for, or off. *)
ListsWritten ==
  /\ {"lists", "other", "noRemote", "eidm"} \subseteq DOMAIN regs /\ DOMAIN regs.lists = BOOLEAN
  /\ \A x \in BOOLEAN : DOMAIN regs.lists[x] = 0 .. FilterCapacity(hw, x) - 1
  /\ \A f \in Asked("id") : regs.lists[f.ext][f.index] = NativeElement(f)
  /\ \A x \in BOOLEAN : \A i \in DOMAIN regs.lists[x] :
       regs.lists[x][i].action # "Disable" => \E f \in Asked("id") : f.ext = x /\ f.index = i

(* So are the registers of what no list names. *)
RestWritten ==
  /\ \A f \in Asked("global") :
       /\ regs.other = [x \in BOOLEAN |-> IF x THEN f.extended ELSE f.standard]
       /\ regs.noRemote = [x \in BOOLEAN |-> IF x THEN f.rejectExtendedRemote
                                                  ELSE f.rejectStandardRemote]
  /\ Asked("global") = {} => /\ regs.other = [x \in BOOLEAN |-> "Fifo0"]
                             /\ regs.noRemote = [x \in BOOLEAN |-> FALSE]
  /\ \A f \in Asked("mask") : regs.eidm = f.mask
  /\ Asked("mask") = {} => regs.eidm = LimitOf(TRUE)

(* Each bank is what was asked for, or off. *)
BanksWritten ==
  /\ "banks" \in DOMAIN regs /\ DOMAIN regs.banks = 0 .. hw.banks - 1
  /\ \A f \in Asked("id") : regs.banks[f.index] = Bank(f)
  /\ \A f \in Asked("bank") : regs.banks[f.index] = RawBank(f)
  /\ \A i \in DOMAIN regs.banks : regs.banks[i].on =>
       \E f \in Asked("id") \cup Asked("bank") : f.index = i

Written ==
  /\ OneEach /\ Offered
  /\ IF Fdcan THEN ListsWritten /\ RestWritten ELSE BanksWritten

(* What a filter can be that was let through. *)
LEMMA OfferedFilter ==
  ASSUME LinkTypes, NEW f \in plan.filters, FilterStatus(hw, f) = "Ok"
  PROVE  /\ f.kind \in (IF Fdcan THEN {"id", "global", "mask"} ELSE {"id", "bank"})
         /\ f.kind = "id" =>
              /\ f.ext \in BOOLEAN /\ f.mode \in FilterModes /\ f.action \in FilterActions
              /\ f.index \in Nat
              /\ Fdcan => /\ f.index \in 0 .. FilterCapacity(hw, f.ext) - 1
                          /\ f.action = "RxBuffer" => f.mode = "Mask"
              /\ ~Fdcan => f.index \in 0 .. hw.banks - 1 /\ OnBxcan(f)
         /\ f.kind = "bank" => f.index \in 0 .. hw.banks - 1
         /\ f.kind = "global" => /\ f.rejectStandardRemote \in BOOLEAN
                                 /\ f.rejectExtendedRemote \in BOOLEAN
  <1>1. /\ f.kind = "id" => /\ f.ext \in BOOLEAN /\ f.action \in FilterActions
                            /\ f.mode \in FilterModes /\ f.index \in Nat
        /\ f.kind = "bank" => f.index \in Nat
        /\ f.kind = "global" => /\ f.rejectStandardRemote \in BOOLEAN
                                /\ f.rejectExtendedRemote \in BOOLEAN
    BY LinkAssumption DEF LinkTypes, plan
  <1>2. hw \in Receivers /\ hw.banks \in Nat
    BY Nodes DEF Receivers
  <1>3. CASE Fdcan
    <2>1. FilterOnFdcan(hw, f) = "Ok"
      BY <1>3 DEF FilterStatus, Fdcan
    <2>2. f.kind \in {"id", "global", "mask"}
      BY <2>1 DEF FilterOnFdcan
    <2>3. ASSUME f.kind = "id"
          PROVE  /\ f.index \in 0 .. FilterCapacity(hw, f.ext) - 1
                 /\ f.action = "RxBuffer" => f.mode = "Mask"
      <3>1. IdFilterOnFdcan(hw, f) = "Ok"
        BY <2>1, <2>3 DEF FilterOnFdcan
      <3>2. /\ ~(f.index >= FilterCapacity(hw, f.ext))
            /\ f.action = "RxBuffer" => f.mode = "Mask"
        BY <3>1, ValidIdFilter
      <3>3. FilterCapacity(hw, f.ext) \in Nat
        BY <1>1, <1>2, <2>3, CapacityIsNat
      <3>. QED BY <1>1, <2>3, <3>2, <3>3
    <2>. QED BY <1>1, <1>3, <2>2, <2>3
  <1>4. CASE ~Fdcan
    <2>1. FilterOnBxcan(hw, f) = "Ok"
      BY <1>4 DEF FilterStatus, Fdcan
    <2>2. f.kind \in {"id", "bank"}
      BY <2>1 DEF FilterOnBxcan
    <2>3. ASSUME f.kind = "id"
          PROVE  f.index \in 0 .. hw.banks - 1 /\ OnBxcan(f)
      <3>1. IdFilterOnBxcan(hw, f) = "Ok"
        BY <2>1, <2>3 DEF FilterOnBxcan
      <3>2. ~(f.index >= hw.banks)
        BY <3>1, ValidBankFilter
      <3>3. f.index \in 0 .. hw.banks - 1
        BY <1>1, <1>2, <2>3, <3>2
      <3>4. OnBxcan(f)
        BY <1>1, <2>3, <3>1, ValidBankFilter DEF OnBxcan
      <3>. QED BY <3>3, <3>4
    <2>4. ASSUME f.kind = "bank" PROVE f.index \in 0 .. hw.banks - 1
      <3>1. ~(f.index >= hw.banks)
        BY <2>1, <2>4 DEF FilterOnBxcan
      <3>. QED BY <1>1, <1>2, <2>4, <3>1
    <2>. QED BY <1>1, <1>4, <2>2, <2>3, <2>4
  <1>. QED BY <1>3, <1>4

(* Filters have one place when they are of one kind and, if they are of a  *)
(* list, at one index of one list; all banks are one list.                 *)
LEMMA Places ==
  ASSUME NEW f, NEW g,
         {f.kind, g.kind} \subseteq (IF Fdcan THEN {"id", "global", "mask"} ELSE {"id", "bank"}),
         f.kind = "id" => f.ext \in BOOLEAN, g.kind = "id" => g.ext \in BOOLEAN
  PROVE  Slot(f) = Slot(g) <=>
           IF ~Fdcan THEN f.index = g.index
           ELSE f.kind = g.kind /\ (f.kind = "id" => f.ext = g.ext /\ f.index = g.index)
  <1>1. CASE ~Fdcan
    BY <1>1 DEF Slot
  <1>2. CASE Fdcan
    BY <1>2 DEF Slot
  <1>. QED BY <1>1, <1>2

(* Two filters in force, by kind and place. *)
LEMMA AskedOnce ==
  ASSUME LinkTypes, OneEach, Offered, NEW f \in asked, NEW g \in asked,
         IF ~Fdcan THEN f.index = g.index
         ELSE f.kind = g.kind /\ (f.kind = "id" => f.ext = g.ext /\ f.index = g.index)
  PROVE  f = g
  <1>1. f \in plan.filters /\ FilterStatus(hw, f) = "Ok"
    BY DEF Offered
  <1>2. g \in plan.filters /\ FilterStatus(hw, g) = "Ok"
    BY DEF Offered
  <1>3. /\ {f.kind, g.kind} \subseteq (IF Fdcan THEN {"id", "global", "mask"} ELSE {"id", "bank"})
        /\ f.kind = "id" => f.ext \in BOOLEAN
        /\ g.kind = "id" => g.ext \in BOOLEAN
    BY <1>1, <1>2, OfferedFilter
  <1>4. Slot(f) = Slot(g)
    BY <1>3, Places
  <1>. QED BY <1>4 DEF OneEach

(* configure_filter() keeps the registers what was asked for. *)
LEMMA WrittenStep ==
  ASSUME LinkTypes, Written, NEW f \in plan.filters, FilterStatus(hw, f) = "Ok",
         regs' = Program(hw, regs, f), asked' = {g \in asked : Slot(g) # Slot(f)} \cup {f},
         scene' = scene
  PROVE  Written'
  <1>. USE SceneKept
  <1>. DEFINE kinds == IF Fdcan THEN {"id", "global", "mask"} ELSE {"id", "bank"}
  <1>1. \A g : Slot(g)' = Slot(g)
    BY DEF Slot
  <1>2. OneEach'
    BY <1>1 DEF Written, OneEach
  <1>3. Offered'
    BY DEF Written, Offered
  <1>4. ASSUME NEW g \in asked \cup {f}
        PROVE  /\ g.kind \in kinds
               /\ g.kind = "id" => /\ g.ext \in BOOLEAN
                                   /\ Fdcan => g.index \in 0 .. FilterCapacity(hw, g.ext) - 1
               /\ ~Fdcan => g.index \in 0 .. hw.banks - 1
    <2>1. g \in plan.filters /\ FilterStatus(hw, g) = "Ok"
      BY DEF Written, Offered
    <2>. QED BY <2>1, OfferedFilter
  <1>5. ASSUME NEW g \in asked
        PROVE  Slot(g) = Slot(f) <=>
                 IF ~Fdcan THEN g.index = f.index
                 ELSE g.kind = f.kind /\ (g.kind = "id" => g.ext = f.ext /\ g.index = f.index)
    BY <1>4, Places
  <1>6. ASSUME NEW kind
        PROVE  Asked(kind)' = {g \in Asked(kind) : Slot(g) # Slot(f)}
                                \cup (IF f.kind = kind THEN {f} ELSE {})
    BY DEF Asked
  <1>. HIDE DEF kinds
  <1>7. CASE Fdcan
    <2>1. ListsWritten /\ RestWritten
      BY <1>7 DEF Written
    <2>2. f.kind \in {"id", "global", "mask"} /\ regs' = ProgramFdcan(regs, f)
      BY <1>4, <1>7 DEF Program, Fdcan, kinds
    <2>3. CASE f.kind = "id"
      <3>. DEFINE e == NativeElement(f)
      <3>1. regs' = [regs EXCEPT !.lists[f.ext][f.index] = e]
        BY <2>2, <2>3 DEF ProgramFdcan
      <3>2. f.ext \in BOOLEAN /\ f.index \in 0 .. FilterCapacity(hw, f.ext) - 1
        BY <1>4, <1>7, <2>3
      <3>. HIDE DEF e
      <3>3. /\ DOMAIN regs' = DOMAIN regs
            /\ regs'.lists = [regs.lists EXCEPT ![f.ext][f.index] = e]
            /\ regs'.other = regs.other /\ regs'.noRemote = regs.noRemote
            /\ regs'.eidm = regs.eidm
        BY <2>1, <3>1 DEF ListsWritten
      <3>4. /\ Asked("global")' = Asked("global") /\ Asked("mask")' = Asked("mask")
        <4>1. \A g \in Asked("global") \cup Asked("mask") : Slot(g) # Slot(f)
          BY <1>5, <1>7, <2>3 DEF Asked
        <4>. QED BY <1>6, <2>3, <4>1
      <3>5. RestWritten'
        <4>1. RestWritten
          BY <2>1
        <4>2. /\ regs'.other = regs.other /\ regs'.noRemote = regs.noRemote
              /\ regs'.eidm = regs.eidm
          BY <3>3
        <4>. QED BY <3>4, <4>1, <4>2 DEF RestWritten
      <3>6. Asked("id")' = {g \in Asked("id") : g.ext # f.ext \/ g.index # f.index} \cup {f}
        BY <1>5, <1>6, <1>7, <2>3 DEF Asked
      <3>7. /\ DOMAIN regs'.lists = BOOLEAN
            /\ \A x \in BOOLEAN : DOMAIN regs'.lists[x] = 0 .. FilterCapacity(hw, x) - 1
            /\ \A x \in BOOLEAN : \A i \in DOMAIN regs'.lists[x] :
                 regs'.lists[x][i] = IF x = f.ext /\ i = f.index THEN e ELSE regs.lists[x][i]
        BY <2>1, <3>2, <3>3 DEF ListsWritten
      <3>8. \A g \in Asked("id")' : regs'.lists[g.ext][g.index] = NativeElement(g)
        <4>. SUFFICES ASSUME NEW g \in Asked("id")'
                      PROVE  regs'.lists[g.ext][g.index] = NativeElement(g)
          OBVIOUS
        <4>1. CASE g = f
          BY <3>2, <3>7, <4>1 DEF e
        <4>2. CASE g \in Asked("id") /\ (g.ext # f.ext \/ g.index # f.index)
          <5>1. g.ext \in BOOLEAN /\ g.index \in 0 .. FilterCapacity(hw, g.ext) - 1
            BY <1>4, <1>7, <4>2 DEF Asked
          <5>2. regs.lists[g.ext][g.index] = NativeElement(g)
            BY <2>1, <4>2 DEF ListsWritten
          <5>. QED BY <3>7, <4>2, <5>1, <5>2
        <4>. QED BY <3>6, <4>1, <4>2
      <3>9. ASSUME NEW x \in BOOLEAN, NEW i \in DOMAIN regs'.lists[x],
                   regs'.lists[x][i].action # "Disable"
            PROVE  \E g \in Asked("id")' : g.ext = x /\ g.index = i
        <4>1. CASE x = f.ext /\ i = f.index
          BY <3>6, <4>1
        <4>2. CASE ~(x = f.ext /\ i = f.index)
          <5>1. i \in DOMAIN regs.lists[x] /\ regs.lists[x][i].action # "Disable"
            BY <2>1, <3>7, <3>9, <4>2 DEF ListsWritten
          <5>2. PICK g \in Asked("id") : g.ext = x /\ g.index = i
            BY <2>1, <5>1 DEF ListsWritten
          <5>. QED BY <3>6, <4>2, <5>2
        <4>. QED BY <4>1, <4>2
      <3>10. ListsWritten'
        <4>1. {"lists", "other", "noRemote", "eidm"} \subseteq DOMAIN regs'
          BY <2>1, <3>3 DEF ListsWritten
        <4>. QED BY <3>7, <3>8, <3>9, <4>1 DEF ListsWritten
      <3>. QED BY <1>2, <1>3, <1>7, <3>5, <3>10 DEF Written
    <2>4. CASE f.kind \in {"global", "mask"}
      <3>1. /\ DOMAIN regs' = DOMAIN regs /\ regs'.lists = regs.lists
            /\ f.kind = "global" =>
                 /\ regs'.other = [x \in BOOLEAN |-> IF x THEN f.extended ELSE f.standard]
                 /\ regs'.noRemote = [x \in BOOLEAN |-> IF x THEN f.rejectExtendedRemote
                                                             ELSE f.rejectStandardRemote]
                 /\ regs'.eidm = regs.eidm
            /\ f.kind = "mask" => /\ regs'.eidm = f.mask
                                  /\ regs'.other = regs.other /\ regs'.noRemote = regs.noRemote
        BY <2>1, <2>2, <2>4 DEF ProgramFdcan, ListsWritten
      <3>2. \A g \in asked : Slot(g) = Slot(f) <=> g.kind = f.kind
        BY <1>5, <1>7, <2>4
      <3>3. ASSUME NEW kind PROVE Asked(kind)' = IF f.kind = kind THEN {f} ELSE Asked(kind)
        BY <1>6, <3>2 DEF Asked
      <3>4. Asked("id")' = Asked("id")
        BY <2>4, <3>3
      <3>5. ListsWritten'
        BY <2>1, <3>1, <3>4 DEF ListsWritten
      <3>6. RestWritten'
        <4>1. CASE f.kind = "global"
          <5>1. Asked("global")' = {f} /\ Asked("mask")' = Asked("mask")
            BY <3>3, <4>1
          <5>. QED BY <2>1, <3>1, <4>1, <5>1 DEF RestWritten
        <4>2. CASE f.kind = "mask"
          <5>1. Asked("mask")' = {f} /\ Asked("global")' = Asked("global")
            BY <3>3, <4>2
          <5>. QED BY <2>1, <3>1, <4>2, <5>1 DEF RestWritten
        <4>. QED BY <2>4, <4>1, <4>2
      <3>. QED BY <1>2, <1>3, <1>7, <3>5, <3>6 DEF Written
    <2>. QED BY <2>2, <2>3, <2>4
  <1>8. CASE ~Fdcan
    <2>. DEFINE bank == IF f.kind = "id" THEN Bank(f) ELSE RawBank(f)
    <2>1. BanksWritten
      BY <1>8 DEF Written
    <2>2. f.kind \in {"id", "bank"} /\ f.index \in 0 .. hw.banks - 1
      BY <1>4, <1>8 DEF kinds
    <2>3. regs' = [regs EXCEPT !.banks[f.index] = bank]
      BY <1>8 DEF Program, Fdcan, ProgramBxcan
    <2>. HIDE DEF bank
    <2>4. /\ DOMAIN regs' = DOMAIN regs /\ regs'.banks = [regs.banks EXCEPT ![f.index] = bank]
      BY <2>1, <2>3 DEF BanksWritten
    <2>5. /\ DOMAIN regs'.banks = 0 .. hw.banks - 1
          /\ \A i \in 0 .. hw.banks - 1 :
               regs'.banks[i] = IF i = f.index THEN bank ELSE regs.banks[i]
      BY <2>1, <2>2, <2>4 DEF BanksWritten
    <2>6. ASSUME NEW kind
          PROVE  Asked(kind)' = {g \in Asked(kind) : g.index # f.index}
                                  \cup (IF f.kind = kind THEN {f} ELSE {})
      BY <1>5, <1>6, <1>8 DEF Asked
    <2>7. \A g \in Asked("id")' : regs'.banks[g.index] = Bank(g)
      <3>. SUFFICES ASSUME NEW g \in Asked("id")' PROVE regs'.banks[g.index] = Bank(g)
        OBVIOUS
      <3>1. CASE g = f /\ f.kind = "id"
        BY <2>2, <2>5, <3>1 DEF bank
      <3>2. CASE g \in Asked("id") /\ g.index # f.index
        <4>1. g.index \in 0 .. hw.banks - 1
          BY <1>4, <1>8, <3>2 DEF Asked
        <4>2. regs.banks[g.index] = Bank(g)
          BY <2>1, <3>2 DEF BanksWritten
        <4>. QED BY <2>5, <3>2, <4>1, <4>2
      <3>. QED BY <2>6, <3>1, <3>2
    <2>8. \A g \in Asked("bank")' : regs'.banks[g.index] = RawBank(g)
      <3>. SUFFICES ASSUME NEW g \in Asked("bank")' PROVE regs'.banks[g.index] = RawBank(g)
        OBVIOUS
      <3>1. CASE g = f /\ f.kind = "bank"
        BY <2>2, <2>5, <3>1 DEF bank
      <3>2. CASE g \in Asked("bank") /\ g.index # f.index
        <4>1. g.index \in 0 .. hw.banks - 1
          BY <1>4, <1>8, <3>2 DEF Asked
        <4>2. regs.banks[g.index] = RawBank(g)
          BY <2>1, <3>2 DEF BanksWritten
        <4>. QED BY <2>5, <3>2, <4>1, <4>2
      <3>. QED BY <2>6, <3>1, <3>2
    <2>9. ASSUME NEW i \in DOMAIN regs'.banks, regs'.banks[i].on
          PROVE  \E g \in Asked("id")' \cup Asked("bank")' : g.index = i
      <3>1. CASE i = f.index
        BY <2>2, <2>6, <3>1
      <3>2. CASE i # f.index
        <4>1. i \in DOMAIN regs.banks /\ regs.banks[i].on
          BY <2>1, <2>5, <2>9, <3>2 DEF BanksWritten
        <4>2. PICK g \in Asked("id") \cup Asked("bank") : g.index = i
          BY <2>1, <4>1 DEF BanksWritten
        <4>. QED BY <2>6, <3>2, <4>2
      <3>. QED BY <3>1, <3>2
    <2>10. BanksWritten'
      <3>1. "banks" \in DOMAIN regs'
        BY <2>1, <2>4 DEF BanksWritten
      <3>. QED BY <2>5, <2>7, <2>8, <2>9, <3>1 DEF BanksWritten
    <2>. QED BY <1>2, <1>3, <1>8, <2>10 DEF Written
  <1>. QED BY <1>7, <1>8

(* Where the last frame went, it was sent by the filters now in force. *)
LandedRight ==
  landed.where # "nowhere" =>
    /\ stage # "ready" /\ Framed(landed.wire)
    /\ landed.where = Route(hw, regs, landed.wire, landed.full)

RoutingInv == Written /\ LandedRight

(* FDCAN routes as its filters are documented. *)
LEMMA FdcanRouted ==
  ASSUME LinkTypes, Written, LandedRight, Fdcan
  PROVE  RoutedAsDocumented
  <1>. DEFINE w       == landed.wire
              globals == {f \in asked : f.kind = "global"}
              eidm    == IF \E f \in asked : f.kind = "mask"
                         THEN (CHOOSE f \in asked : f.kind = "mask").mask ELSE LimitOf(TRUE)
              barred  == w.remote /\ \E f \in globals : IF w.ext THEN f.rejectExtendedRemote
                                                                 ELSE f.rejectStandardRemote
              locked(f) == f.action = "RxBuffer" /\ BufferNames[f.buffer + 1] \in landed.full
              takers  == {f \in asked : f.kind = "id" /\ f.action # "Disable" /\ ~locked(f)
                                          /\ Takes(f, w, eidm)}
              raw     == {f \in asked : f.kind = "bank" /\ BankMatches(RawBank(f), w)}
              target(f) == IF f.action = "RxBuffer" THEN BufferNames[f.buffer + 1]
                                                    ELSE TargetOf(f.action)
              default == IF globals = {} THEN "fifo0"
                         ELSE LET f == CHOOSE f \in globals : TRUE
                              IN  TargetOf(IF w.ext THEN f.extended ELSE f.standard)
  <1>. SUFFICES ASSUME landed.where # "nowhere"
                PROVE  landed.where \in IF barred THEN {"none"}
                                        ELSE IF takers \cup raw = {} THEN {default}
                                        ELSE {target(f) : f \in takers} \cup {f.fifo : f \in raw}
    BY Zenon DEF RoutedAsDocumented
  <1>1. /\ ListsWritten /\ RestWritten /\ OneEach /\ Offered
        /\ landed.where = FdcanRoute(regs, w, landed.full)
        /\ w.ext \in BOOLEAN /\ w.remote \in BOOLEAN
    BY DEF Written, LandedRight, Route, Framed, Fdcan
  <1>2. ASSUME NEW f \in asked
        PROVE  /\ f.kind \in {"id", "global", "mask"}
               /\ f.kind = "id" => /\ f.ext \in BOOLEAN /\ f.mode \in FilterModes
                                   /\ f.index \in 0 .. FilterCapacity(hw, f.ext) - 1
                                   /\ f.action = "RxBuffer" => f.mode = "Mask"
               /\ f.kind = "global" => /\ f.rejectStandardRemote \in BOOLEAN
                                       /\ f.rejectExtendedRemote \in BOOLEAN
    <2>1. f \in plan.filters /\ FilterStatus(hw, f) = "Ok"
      BY <1>1 DEF Offered
    <2>. QED BY <2>1, OfferedFilter
  <1>3. raw = {}
    BY <1>2
  <1>4. eidm = regs.eidm
    <2>1. CASE \E f \in asked : f.kind = "mask"
      <3>. DEFINE g == CHOOSE f \in asked : f.kind = "mask"
      <3>1. g \in Asked("mask") /\ eidm = g.mask
        BY <2>1, Zenon DEF Asked
      <3>. QED BY <1>1, <3>1 DEF RestWritten
    <2>2. CASE ~\E f \in asked : f.kind = "mask"
      <3>1. Asked("mask") = {} /\ eidm = LimitOf(TRUE)
        BY <2>2 DEF Asked
      <3>. QED BY <1>1, <3>1 DEF RestWritten
    <2>. QED BY <2>1, <2>2
  <1>5. globals = Asked("global")
    BY DEF Asked
  <1>6. barred <=> w.remote /\ regs.noRemote[w.ext]
    <2>1. CASE globals = {}
      <3>1. regs.noRemote = [x \in BOOLEAN |-> FALSE]
        BY <1>1, <1>5, <2>1 DEF RestWritten
      <3>2. ~regs.noRemote[w.ext]
        BY <1>1, <3>1
      <3>. QED BY <2>1, <3>2
    <2>2. CASE globals # {}
      <3>1. PICK g \in globals : TRUE
        BY <2>2
      <3>2. \A f \in globals : f = g
        BY <1>1, <3>1, AskedOnce
      <3>3. regs.noRemote = [x \in BOOLEAN |-> IF x THEN g.rejectExtendedRemote
                                                    ELSE g.rejectStandardRemote]
        BY <1>1, <1>5, <3>1 DEF RestWritten
      <3>4. regs.noRemote[w.ext] = IF w.ext THEN g.rejectExtendedRemote ELSE g.rejectStandardRemote
        BY <1>1, <3>3
      <3>. QED BY <3>1, <3>2, <3>4, Zenon
    <2>. QED BY <2>1, <2>2
  <1>7. default = TargetOf(regs.other[w.ext])
    <2>1. CASE globals = {}
      <3>1. regs.other = [x \in BOOLEAN |-> "Fifo0"]
        BY <1>1, <1>5, <2>1 DEF RestWritten
      <3>2. regs.other[w.ext] = "Fifo0"
        BY <1>1, <3>1
      <3>. QED BY <2>1, <3>2 DEF TargetOf
    <2>2. CASE globals # {}
      <3>. DEFINE g == CHOOSE f \in globals : TRUE
      <3>1. g \in globals
        BY <2>2, Zenon
      <3>2. default = TargetOf(IF w.ext THEN g.extended ELSE g.standard)
        BY <2>2, Zenon
      <3>. HIDE DEF g
      <3>3. regs.other = [x \in BOOLEAN |-> IF x THEN g.extended ELSE g.standard]
        BY <1>1, <1>5, <3>1 DEF RestWritten
      <3>4. regs.other[w.ext] = IF w.ext THEN g.extended ELSE g.standard
        BY <1>1, <3>3
      <3>. QED BY <3>2, <3>4, Zenon
    <2>. QED BY <2>1, <2>2
  <1>. DEFINE list   == regs.lists[w.ext]
              masked == IF w.ext THEN w.id \cap regs.eidm ELSE w.id
              full   == landed.full
              hits   == {i \in DOMAIN list :
                           /\ list[i].action # "Disable"
                           /\ list[i].action = "RxBuffer" =>
                                BufferNames[list[i].buffer + 1] \notin full
                           /\ ElementMatches(list[i], w.id, masked)}
  <1>8. FdcanRoute(regs, w, full) =
          IF w.remote /\ regs.noRemote[w.ext] THEN "none"
          ELSE IF hits = {} THEN TargetOf(regs.other[w.ext])
          ELSE LET e == list[Min(hits)] IN
               IF e.action = "RxBuffer" THEN BufferNames[e.buffer + 1] ELSE TargetOf(e.action)
    BY DEF FdcanRoute
  <1>9. DOMAIN list = 0 .. FilterCapacity(hw, w.ext) - 1
    BY <1>1 DEF ListsWritten
  <1>10. ASSUME NEW f \in asked, f.kind = "id", f.ext = w.ext
         PROVE  /\ f.index \in DOMAIN list /\ list[f.index] = NativeElement(f)
                /\ f.index \in hits <=> f \in takers
                /\ target(f) = IF list[f.index].action = "RxBuffer"
                               THEN BufferNames[list[f.index].buffer + 1]
                               ELSE TargetOf(list[f.index].action)
    <2>. DEFINE e == NativeElement(f)
    <2>1. f.index \in DOMAIN list
      BY <1>2, <1>9, <1>10
    <2>2. list[f.index] = e
      <3>1. f \in Asked("id")
        BY <1>10 DEF Asked
      <3>. QED BY <1>1, <1>10, <3>1 DEF ListsWritten
    <2>3. e.action = f.action /\ e.buffer = f.buffer
      BY DEF NativeElement
    <2>4. ElementMatches(e, w.id, masked) <=> Takes(f, w, regs.eidm)
      BY <1>2, <1>10, ElementAsFilter
    <2>. HIDE DEF e, list, masked, eidm
    <2>5. f.index \in hits <=> f \in takers
      BY <1>4, <1>10, <2>1, <2>2, <2>3, <2>4, Zenon
    <2>. QED BY <2>1, <2>2, <2>3, <2>5 DEF e
  <1>11. ASSUME NEW f \in takers PROVE f \in asked /\ f.kind = "id" /\ f.ext = w.ext
    BY DEF Takes
  <1>12. ASSUME NEW i \in hits
         PROVE  \E f \in asked : f.kind = "id" /\ f.ext = w.ext /\ f.index = i
    <2>1. i \in DOMAIN list /\ list[i].action # "Disable"
      OBVIOUS
    <2>2. PICK f \in Asked("id") : f.ext = w.ext /\ f.index = i
      BY <1>1, <2>1 DEF ListsWritten
    <2>. QED BY <2>2 DEF Asked
  <1>13. hits \in SUBSET Nat
    BY <1>9
  <1>. HIDE DEF hits, takers, raw, barred, default, target, list
  <1>14. CASE barred
    BY <1>1, <1>6, <1>8, <1>14
  <1>15. CASE ~barred /\ takers = {}
    <2>1. hits = {}
      BY <1>10, <1>12, <1>15
    <2>. QED BY <1>1, <1>3, <1>6, <1>7, <1>8, <1>15, <2>1
  <1>16. CASE ~barred /\ takers # {}
    <2>1. hits # {}
      BY <1>10, <1>11, <1>16
    <2>. DEFINE i == Min(hits)
    <2>2. i \in hits
      BY <1>13, <2>1, LeastIsThere
    <2>. HIDE DEF i
    <2>3. PICK f \in asked : f.kind = "id" /\ f.ext = w.ext /\ f.index = i
      BY <1>12, <2>2
    <2>4. f \in takers /\ target(f) = IF list[i].action = "RxBuffer"
                                      THEN BufferNames[list[i].buffer + 1]
                                      ELSE TargetOf(list[i].action)
      BY <1>10, <2>2, <2>3
    <2>5. landed.where = IF list[i].action = "RxBuffer"
                         THEN BufferNames[list[i].buffer + 1] ELSE TargetOf(list[i].action)
      BY <1>1, <1>6, <1>8, <1>16, <2>1 DEF i
    <2>. QED BY <1>3, <1>16, <2>4, <2>5
  <1>. QED BY <1>14, <1>15, <1>16

(* Of banks that match, one is the hardware's choice, and it is one of them. *)
LEMMA BankChosen ==
  ASSUME NEW r, DOMAIN r.banks \subseteq Nat, NEW w,
         NEW hits, hits = {i \in DOMAIN r.banks : BankMatches(r.banks[i], w)}
  PROVE  /\ hits = {} => BxcanRoute(r, w) = "none"
         /\ hits # {} => \E i \in hits : BxcanRoute(r, w) = r.banks[i].fifo
  <1>. DEFINE rank(i) == (IF r.banks[i].scale = 32 THEN 0 ELSE 200)
                           + (IF r.banks[i].list THEN 0 ELSE 100) + i
              ranks == {rank(i) : i \in hits}
              least == CHOOSE i \in hits : \A j \in hits : rank(i) <= rank(j)
  <1>1. BxcanRoute(r, w) = IF hits = {} THEN "none" ELSE r.banks[least].fifo
    BY DEF BxcanRoute
  <1>2. ASSUME hits # {} PROVE least \in hits
    <2>1. \A i \in hits : rank(i) \in Nat
      <3>. SUFFICES ASSUME NEW i \in hits PROVE rank(i) \in Nat
        OBVIOUS
      <3>. DEFINE a == IF r.banks[i].scale = 32 THEN 0 ELSE 200
                  b == IF r.banks[i].list THEN 0 ELSE 100
      <3>1. a \in Nat /\ b \in Nat /\ i \in Nat
        OBVIOUS
      <3>. HIDE DEF a, b
      <3>2. a + b + i \in Nat
        BY <3>1
      <3>. QED BY <3>2 DEF a, b
    <2>. HIDE DEF rank
    <2>2. ranks \in SUBSET Nat /\ ranks # {}
      BY <1>2, <2>1
    <2>3. PICK i \in hits : rank(i) = Min(ranks)
      BY <2>2, LeastIsThere
    <2>4. \A j \in hits : rank(i) <= rank(j)
      <3>1. \A n \in ranks : Min(ranks) <= n
        BY <2>2, LeastIsThere
      <3>. QED BY <2>3, <3>1
    <2>. QED BY <2>4, Zenon
  <1>. HIDE DEF least
  <1>. QED BY <1>1, <1>2

(* bxCAN routes as its filters are documented. *)
LEMMA BxcanRouted ==
  ASSUME LinkTypes, Written, LandedRight, ~Fdcan
  PROVE  RoutedAsDocumented
  <1>. DEFINE w       == landed.wire
              globals == {f \in asked : f.kind = "global"}
              eidm    == IF \E f \in asked : f.kind = "mask"
                         THEN (CHOOSE f \in asked : f.kind = "mask").mask ELSE LimitOf(TRUE)
              barred  == w.remote /\ \E f \in globals : IF w.ext THEN f.rejectExtendedRemote
                                                                 ELSE f.rejectStandardRemote
              locked(f) == f.action = "RxBuffer" /\ BufferNames[f.buffer + 1] \in landed.full
              takers  == {f \in asked : f.kind = "id" /\ f.action # "Disable" /\ ~locked(f)
                                          /\ Takes(f, w, eidm)}
              raw     == {f \in asked : f.kind = "bank" /\ BankMatches(RawBank(f), w)}
              target(f) == IF f.action = "RxBuffer" THEN BufferNames[f.buffer + 1]
                                                    ELSE TargetOf(f.action)
  <1>. SUFFICES ASSUME landed.where # "nowhere"
                PROVE  landed.where \in IF barred THEN {"none"}
                                        ELSE IF takers \cup raw = {} THEN {"none"}
                                        ELSE {target(f) : f \in takers} \cup {f.fifo : f \in raw}
    BY Zenon DEF RoutedAsDocumented
  <1>1. BanksWritten /\ Offered /\ landed.where = BxcanRoute(regs, w) /\ Framed(w)
    BY DEF Written, LandedRight, Route, Fdcan
  <1>2. ASSUME NEW f \in asked
        PROVE  /\ f.kind \in {"id", "bank"}
               /\ f.index \in 0 .. hw.banks - 1
               /\ f.kind = "id" => OnBxcan(f)
    <2>1. f \in plan.filters /\ FilterStatus(hw, f) = "Ok"
      BY <1>1 DEF Offered
    <2>. QED BY <2>1, OfferedFilter
  <1>3. ~barred /\ eidm = LimitOf(TRUE)
    BY <1>2
  <1>. DEFINE hits == {i \in DOMAIN regs.banks : BankMatches(regs.banks[i], w)}
  <1>4. DOMAIN regs.banks = 0 .. hw.banks - 1 /\ DOMAIN regs.banks \subseteq Nat
    BY <1>1 DEF BanksWritten
  <1>5. /\ hits = {} => landed.where = "none"
        /\ hits # {} => \E i \in hits : landed.where = regs.banks[i].fifo
    <2>1. hits = {i \in DOMAIN regs.banks : BankMatches(regs.banks[i], w)}
      OBVIOUS
    <2>2. DOMAIN regs.banks \subseteq Nat
      BY <1>4
    <2>. HIDE DEF hits, w
    <2>3. /\ hits = {} => BxcanRoute(regs, w) = "none"
          /\ hits # {} => \E i \in hits : BxcanRoute(regs, w) = regs.banks[i].fifo
      BY <2>1, <2>2, BankChosen, Zenon
    <2>. QED BY <1>1, <2>3
  <1>6. ASSUME NEW f \in asked, f.kind = "id"
        PROVE  /\ regs.banks[f.index] = Bank(f)
               /\ f.index \in hits <=> f \in takers
               /\ f \in takers => target(f) = Bank(f).fifo
    <2>1. regs.banks[f.index] = Bank(f)
      <3>1. f \in Asked("id")
        BY <1>6 DEF Asked
      <3>. QED BY <1>1, <3>1 DEF BanksWritten
    <2>2. f.index \in DOMAIN regs.banks
      BY <1>2, <1>4
    <2>3. CASE f.action = "Disable"
      <3>1. Bank(f).on = FALSE
        BY <2>3 DEF Bank, EmptyBank
      <3>2. ~BankMatches(Bank(f), w)
        BY <3>1, Zenon DEF BankMatches
      <3>. QED BY <2>1, <2>3, <3>2
    <2>4. CASE f.action \in {"Fifo0", "Fifo1"}
      <3>1. BankMatches(Bank(f), w) <=> Takes(f, w, LimitOf(TRUE))
        BY <1>1, <1>2, <1>6, <2>4, BankAsFilter
      <3>2. Bank(f).fifo = TargetOf(f.action)
        BY <2>4 DEF Bank, Whole, EmptyBank
      <3>3. f.action # "RxBuffer" /\ f.action # "Disable"
        BY <2>4
      <3>4. f \in takers <=> Takes(f, w, LimitOf(TRUE))
        BY <1>3, <1>6, <3>3, Zenon
      <3>5. f.index \in hits <=> BankMatches(Bank(f), w)
        BY <2>1, <2>2
      <3>. HIDE DEF hits, takers
      <3>. QED BY <2>1, <3>1, <3>2, <3>3, <3>4, <3>5
    <2>. QED BY <1>2, <1>6, <2>3, <2>4 DEF OnBxcan
  <1>7. ASSUME NEW f \in asked, f.kind = "bank"
        PROVE  /\ regs.banks[f.index] = RawBank(f) /\ RawBank(f).fifo = f.fifo
               /\ f.index \in hits <=> f \in raw
    <2>1. regs.banks[f.index] = RawBank(f)
      <3>1. f \in Asked("bank")
        BY <1>7 DEF Asked
      <3>. QED BY <1>1, <3>1 DEF BanksWritten
    <2>2. f.index \in DOMAIN regs.banks
      BY <1>2, <1>4
    <2>3. RawBank(f).fifo = f.fifo
      BY DEF RawBank
    <2>. QED BY <1>7, <2>1, <2>2, <2>3
  <1>8. ASSUME NEW i \in hits PROVE \E f \in asked : f.kind \in {"id", "bank"} /\ f.index = i
    <2>1. i \in DOMAIN regs.banks /\ regs.banks[i].on
      BY Zenon DEF BankMatches
    <2>2. PICK f \in Asked("id") \cup Asked("bank") : f.index = i
      BY <1>1, <2>1 DEF BanksWritten
    <2>. QED BY <2>2 DEF Asked
  <1>9. \A f \in takers : f \in asked /\ f.kind = "id"
    OBVIOUS
  <1>10. \A f \in raw : f \in asked /\ f.kind = "bank"
    OBVIOUS
  <1>. HIDE DEF hits, takers, raw, barred, target
  <1>11. CASE hits = {}
    <2>1. takers = {} /\ raw = {}
      BY <1>6, <1>7, <1>9, <1>10, <1>11
    <2>. QED BY <1>3, <1>5, <1>11, <2>1
  <1>12. CASE hits # {}
    <2>1. PICK i \in hits : landed.where = regs.banks[i].fifo
      BY <1>5, <1>12
    <2>2. PICK f \in asked : f.kind \in {"id", "bank"} /\ f.index = i
      BY <1>8
    <2>3. CASE f.kind = "id"
      <3>1. f \in takers /\ landed.where = target(f)
        BY <1>6, <2>1, <2>2, <2>3
      <3>. QED BY <1>3, <3>1
    <2>4. CASE f.kind = "bank"
      <3>1. f \in raw /\ landed.where = f.fifo
        BY <1>7, <2>1, <2>2, <2>4
      <3>. QED BY <1>3, <3>1
    <2>. QED BY <2>2, <2>3, <2>4
  <1>. QED BY <1>11, <1>12

(* A frame that lands does so by the filters in force. *)
LEMMA LandedStep ==
  ASSUME LandedRight, NEW w, Framed(w), NEW meant, Lands(w, meant),
         UNCHANGED <<scene, stage, regs>>
  PROVE  LandedRight'
  <1>. USE SceneKept
  <1>1. CASE stage = "ready"
    BY <1>1 DEF Lands, LandedRight
  <1>2. CASE stage # "ready"
    <2>1. landed' = [where |-> Route(hw, regs, w, Full), wire |-> w, full |-> Full]
      BY <1>2 DEF Lands
    <2>. QED BY <1>2, <2>1 DEF LandedRight
  <1>. QED BY <1>1, <1>2

(* Filters in force do not change once frames land. *)
LEMMA RoutingStep ==
  ASSUME LinkInv, RoutingInv, [Next]_vars
  PROVE  RoutingInv'
  <1>. USE SceneKept
  <1>0. LinkTypes
    BY DEF LinkInv, StorageInv
  <1>1. ASSUME UNCHANGED <<scene, regs, asked>> PROVE Written'
    <2>1. \A g : Slot(g)' = Slot(g)
      BY <1>1 DEF Slot
    <2>2. OneEach' /\ Offered'
      BY <1>1, <2>1 DEF RoutingInv, Written, OneEach, Offered
    <2>3. \A kind : Asked(kind)' = Asked(kind)
      BY <1>1 DEF Asked
    <2>4. ListsWritten => ListsWritten'
      BY <1>1, <2>3 DEF ListsWritten
    <2>5. RestWritten => RestWritten'
      BY <1>1, <2>3 DEF RestWritten
    <2>6. BanksWritten => BanksWritten'
      BY <1>1, <2>3 DEF BanksWritten
    <2>. QED BY <1>1, <2>2, <2>4, <2>5, <2>6 DEF RoutingInv, Written
  <1>2. CASE ConfigureFilter
    <2>1. /\ UNCHANGED <<scene, stage, landed>> /\ stage = "ready"
          /\ \E f \in plan.filters :
               IF FilterStatus(hw, f) = "Ok"
               THEN /\ regs' = Program(hw, regs, f)
                    /\ asked' = {g \in asked : Slot(g) # Slot(f)} \cup {f}
               ELSE UNCHANGED <<regs, asked>>
      BY <1>2 DEF ConfigureFilter
    <2>2. LandedRight'
      BY <2>1 DEF RoutingInv, LandedRight
    <2>3. Written'
      BY <1>0, <1>1, <2>1, WrittenStep DEF RoutingInv
    <2>. QED BY <2>2, <2>3 DEF RoutingInv
  <1>3. CASE StartHardware \/ EnableNotifications
    <2>1. UNCHANGED <<scene, regs, asked, landed>> /\ stage' # "ready"
      BY <1>3 DEF StartHardware, EnableNotifications
    <2>. QED BY <1>1, <2>1 DEF RoutingInv, LandedRight
  <1>4. CASE ForeignFrame
    <2>1. PICK w \in plan.foreign : Lands(w, Meaning(w))
      BY <1>4 DEF ForeignFrame
    <2>2. UNCHANGED <<scene, stage, regs, asked>>
      BY <1>4 DEF ForeignFrame, receiver
    <2>3. w \in WireFrames /\ IsValidId(w.ext, w.id)
      BY <1>0, LinkAssumption DEF LinkTypes, plan
    <2>4. Framed(w)
      BY <2>3 DEF Framed, WireFrames
    <2>. QED BY <1>1, <2>1, <2>2, <2>4, LandedStep DEF RoutingInv
  <1>5. CASE Send
    <2>1. PICK v \in plan.views :
            IF SendResult(SendStatus(v)) = "Submitted" THEN Lands(OnTheWire(tx, v), v)
            ELSE UNCHANGED landed
      BY <1>5 DEF Send
    <2>2. UNCHANGED <<scene, stage, regs, asked>>
      BY <1>5 DEF Send, receiver
    <2>3. CASE SendResult(SendStatus(v)) = "Submitted"
      <3>1. ValidateFrame(tx.backend, v) = "Ok"
        BY <2>3, ValidSend
      <3>2. IsValidId(v.ext, v.id)
        BY <3>1, ValidFrame DEF SendableFrame
      <3>3. v \in FrameViews
        BY <1>0, LinkAssumption DEF LinkTypes, plan
      <3>4. Framed(OnTheWire(tx, v))
        BY <3>2, <3>3 DEF Framed, OnTheWire, FrameViews
      <3>. QED BY <1>1, <2>1, <2>2, <2>3, <3>4, LandedStep DEF RoutingInv
    <2>4. CASE SendResult(SendStatus(v)) # "Submitted"
      BY <1>1, <2>1, <2>2, <2>4 DEF RoutingInv, LandedRight
    <2>. QED BY <2>3, <2>4
  <1>6. CASE UNCHANGED <<scene, receiver, landed>>
    BY <1>1, <1>6 DEF RoutingInv, LandedRight, receiver
  <1>7. \/ ConfigureFilter \/ StartHardware \/ EnableNotifications \/ ForeignFrame \/ Send
        \/ UNCHANGED <<scene, receiver, landed>>
    BY DEF Next, vars, OnReceive, Interrupt, ReadFifo, QueryBuffer, CopyBuffer, ClearNewData, StorageEmpty
  <1>. QED BY <1>2, <1>3, <1>4, <1>5, <1>6, <1>7

(* The registers say what was asked for, from reset on. *)
LEMMA ResetWritten ==
  ASSUME Init
  PROVE  RoutingInv
  <1>1. /\ scene \in DOMAIN Plans /\ stage = "ready" /\ regs = ResetRegisters(hw) /\ asked = {}
        /\ landed = [where |-> "nowhere"]
    BY DEF Init
  <1>2. /\ DOMAIN regs = {"lists", "other", "noRemote", "eidm", "banks"}
        /\ DOMAIN regs.lists = BOOLEAN
        /\ \A x \in BOOLEAN : DOMAIN regs.lists[x] = 0 .. FilterCapacity(hw, x) - 1
        /\ \A x \in BOOLEAN : \A i \in DOMAIN regs.lists[x] : regs.lists[x][i].action = "Disable"
        /\ regs.other = [x \in BOOLEAN |-> "Fifo0"] /\ regs.noRemote = [x \in BOOLEAN |-> FALSE]
        /\ regs.eidm = LimitOf(TRUE) /\ regs.banks = [i \in 0 .. hw.banks - 1 |-> EmptyBank]
    BY <1>1 DEF ResetRegisters
  <1>3. \A kind : Asked(kind) = {}
    BY <1>1 DEF Asked
  <1>4. OneEach /\ Offered /\ LandedRight
    BY <1>1 DEF OneEach, Offered, LandedRight
  <1>5. ListsWritten
    BY <1>2, <1>3 DEF ListsWritten
  <1>6. RestWritten
    BY <1>2, <1>3 DEF RestWritten
  <1>7. BanksWritten
    <2>1. \A i \in DOMAIN regs.banks : regs.banks[i].on = FALSE
      BY <1>2 DEF EmptyBank
    <2>. QED BY <1>2, <1>3, <2>1 DEF BanksWritten
  <1>. QED BY <1>4, <1>5, <1>6, <1>7 DEF RoutingInv, Written

(* The filter registers hold what was asked for, and frames land by them. *)
THEOREM RoutingInvariance == Spec => []RoutingInv
  <1>1. Init => RoutingInv
    BY ResetWritten
  <1>2. LinkInv /\ RoutingInv /\ [Next]_vars => RoutingInv'
    BY RoutingStep
  <1>. QED BY <1>1, <1>2, LinkInvariance, PTL DEF Spec

(* Whatever filters were asked for, in whatever order, and whatever frames *)
(* come: each goes where the comments say, on both backends.               *)
THEOREM RoutedAsDocumentedThm == Spec => []RoutedAsDocumented
  <1>1. LinkInv /\ RoutingInv => RoutedAsDocumented
    <2>1. LinkInv => LinkTypes
      BY DEF LinkInv, StorageInv
    <2>. QED BY <2>1, FdcanRouted, BxcanRouted DEF RoutingInv
  <1>. QED BY <1>1, LinkInvariance, RoutingInvariance, PTL
=============================================================================
