----------------------------- MODULE ListTheorems -----------------------------
(***************************************************************************)
(* What the operations on page lists do to the set of frames that are on a *)
(* list, and that none of them makes a list repeat a frame.                *)
(***************************************************************************)
EXTENDS VMTypes, SequenceTheorems, TLAPS

(* Adding a frame at the tail.                                             *)
LEMMA AddEntry ==
  ASSUME NEW S, NEW s \in Seq(S), NEW e \in S
  PROVE  /\ add_entry(s, e) \in Seq(S)
         /\ \A f : On(add_entry(s, e), f) <=> On(s, f) \/ f = e
         /\ IsInjective(s) /\ ~ On(s, e) => IsInjective(add_entry(s, e))
<1> DEFINE t == Append(s, e)
<1>1. /\ t \in Seq(S) /\ Len(t) = Len(s) + 1 /\ t[Len(s) + 1] = e
      /\ \A i \in 1 .. Len(s) : t[i] = s[i]
      /\ Len(s) \in Nat
  BY AppendProperties, LenProperties
<1>2. DOMAIN t = 1 .. Len(s) + 1 /\ DOMAIN s = 1 .. Len(s)
  BY <1>1, LenProperties
<1> HIDE DEF t
<1>3. \A f : On(t, f) <=> On(s, f) \/ f = e
  BY <1>1, <1>2 DEF On
<1>4. IsInjective(s) /\ ~ On(s, e) => IsInjective(t)
  BY <1>1, <1>2 DEF On, IsInjective
<1> QED  BY <1>1, <1>3, <1>4 DEF add_entry, t

(* Taking a frame from the head.                                           *)
LEMMA PopPage ==
  ASSUME NEW S, NEW s \in Seq(S), s # <<>>
  PROVE  /\ Head(s) \in S
         /\ Tail(s) \in Seq(S)
         /\ On(s, Head(s))
         /\ \A f : On(s, f) <=> f = Head(s) \/ On(Tail(s), f)
         /\ IsInjective(s) =>
              /\ IsInjective(Tail(s))
              /\ \A f : On(Tail(s), f) <=> On(s, f) /\ f # Head(s)
<1> DEFINE t == Tail(s)
<1>1. /\ Head(s) \in S /\ t \in Seq(S) /\ Len(t) = Len(s) - 1
      /\ \A i \in 1 .. Len(t) : t[i] = s[i + 1]
      /\ Len(s) \in Nat \ {0} /\ Head(s) = s[1]
  BY HeadTailProperties, EmptySeq
<1>2. DOMAIN t = 1 .. Len(s) - 1 /\ DOMAIN s = 1 .. Len(s)
  BY <1>1, LenProperties
<1> HIDE DEF t
<1>3. ASSUME NEW f
      PROVE  On(s, f) <=> f = s[1] \/ On(t, f)
  <2>1. ASSUME NEW i \in 1 .. Len(s), s[i] = f, i # 1 PROVE On(t, f)
    <3>1. i - 1 \in 1 .. Len(s) - 1 /\ t[i - 1] = s[i]
      BY <1>1, <2>1
    <3> QED  BY <3>1, <1>2, <2>1 DEF On
  <2>2. ASSUME NEW i \in 1 .. Len(s) - 1, t[i] = f PROVE On(s, f)
    <3>1. i + 1 \in 1 .. Len(s) /\ s[i + 1] = f
      BY <1>1, <2>2
    <3> QED  BY <3>1, <1>2 DEF On
  <2>3. f = s[1] => On(s, f)
    BY <1>1, <1>2 DEF On
  <2> QED  BY <2>1, <2>2, <2>3, <1>2 DEF On
<1>4. ASSUME IsInjective(s)
      PROVE  ~ On(t, s[1]) /\ IsInjective(t)
  <2>1. \A i, j \in 1 .. Len(s) : s[i] = s[j] => i = j
    BY <1>4, <1>2 DEF IsInjective
  <2>2. ASSUME NEW i \in 1 .. Len(s) - 1, t[i] = s[1] PROVE FALSE
    <3>1. i + 1 \in 1 .. Len(s) /\ 1 \in 1 .. Len(s) /\ s[i + 1] = s[1]
      BY <1>1, <2>2
    <3> QED  BY <3>1, <2>1, <2>2
  <2>3. ASSUME NEW i \in 1 .. Len(s) - 1, NEW j \in 1 .. Len(s) - 1,
               t[i] = t[j]
        PROVE  i = j
    <3>1. i + 1 \in 1 .. Len(s) /\ j + 1 \in 1 .. Len(s) /\ s[i + 1] = s[j + 1]
      BY <1>1, <2>3
    <3>2. i + 1 = j + 1
      BY <3>1, <2>1
    <3> QED  BY <3>2
  <2> QED  BY <2>2, <2>3, <1>2 DEF On, IsInjective
<1> QED  BY <1>1, <1>3, <1>4 DEF t

(* Taking a batch of frames from the head.                                 *)
LEMMA PopBatch ==
  ASSUME NEW S, NEW s \in Seq(S), NEW n \in 0 .. Len(s)
  PROVE  /\ SubSeq(s, 1, n) \in Seq(S)
         /\ SubSeq(s, n + 1, Len(s)) \in Seq(S)
         /\ Len(SubSeq(s, 1, n)) = n
         /\ \A i \in 1 .. n : SubSeq(s, 1, n)[i] = s[i]
         /\ \A f : On(s, f) <=> \/ On(SubSeq(s, 1, n), f)
                                \/ On(SubSeq(s, n + 1, Len(s)), f)
         /\ IsInjective(s) =>
              /\ IsInjective(SubSeq(s, 1, n))
              /\ IsInjective(SubSeq(s, n + 1, Len(s)))
              /\ \A f : ~ (/\ On(SubSeq(s, 1, n), f)
                           /\ On(SubSeq(s, n + 1, Len(s)), f))
<1> DEFINE h == SubSeq(s, 1, n)
           t == SubSeq(s, n + 1, Len(s))
<1>1. Len(s) \in Nat /\ n \in Int /\ \A i \in 1 .. Len(s) : s[i] \in S
  BY LenProperties, ElementOfSeq
<1>2. /\ h \in Seq(S) /\ Len(h) = n
      /\ \A i \in 1 .. n : h[i] = s[i]
  <2>1. \A i \in 1 .. n : s[i] \in S
    BY <1>1
  <2>2. /\ h \in Seq(S) /\ Len(h) = IF 1 <= n THEN n - 1 + 1 ELSE 0
        /\ \A i \in 1 .. n - 1 + 1 : h[i] = s[1 + i - 1]
    BY <2>1, <1>1, SubSeqProperties
  <2> QED  BY <2>2, <1>1
<1>3. /\ t \in Seq(S) /\ Len(t) = Len(s) - n
      /\ \A i \in 1 .. Len(s) - n : t[i] = s[n + i]
  <2>1. \A i \in n + 1 .. Len(s) : s[i] \in S
    BY <1>1
  <2>2. n + 1 \in Int /\ Len(s) \in Int
    BY <1>1
  <2>3. /\ t \in Seq(S)
        /\ Len(t) = IF n + 1 <= Len(s) THEN Len(s) - (n + 1) + 1 ELSE 0
        /\ \A i \in 1 .. Len(s) - (n + 1) + 1 : t[i] = s[n + 1 + i - 1]
    BY <2>1, <2>2, SubSeqProperties
  <2> QED  BY <2>3, <1>1
<1>4. /\ DOMAIN h = 1 .. n /\ DOMAIN t = 1 .. Len(s) - n
      /\ DOMAIN s = 1 .. Len(s)
  BY <1>2, <1>3, LenProperties
<1> HIDE DEF h, t
<1>5. ASSUME NEW f
      PROVE  On(s, f) <=> On(h, f) \/ On(t, f)
  <2>1. ASSUME NEW i \in 1 .. Len(s), s[i] = f PROVE On(h, f) \/ On(t, f)
    <3>1. CASE i <= n
      BY <3>1, <2>1, <1>1, <1>2, <1>4 DEF On
    <3>2. CASE i > n
      <4>1. i - n \in 1 .. Len(s) - n /\ t[i - n] = s[i]
        BY <3>2, <1>1, <1>3
      <4> QED  BY <4>1, <2>1, <1>4 DEF On
    <3> QED  BY <3>1, <3>2, <1>1
  <2>2. On(h, f) => On(s, f)
    BY <1>1, <1>2, <1>4 DEF On
  <2>3. ASSUME NEW i \in 1 .. Len(s) - n, t[i] = f PROVE On(s, f)
    <3>1. n + i \in 1 .. Len(s) /\ s[n + i] = f
      BY <2>3, <1>1, <1>3
    <3> QED  BY <3>1, <1>4 DEF On
  <2> QED  BY <2>1, <2>2, <2>3, <1>4 DEF On
<1>6. ASSUME IsInjective(s)
      PROVE  /\ IsInjective(h) /\ IsInjective(t)
             /\ \A f : ~ (On(h, f) /\ On(t, f))
  <2>1. \A i, j \in 1 .. Len(s) : s[i] = s[j] => i = j
    BY <1>6, <1>4 DEF IsInjective
  <2>2. IsInjective(h)
    BY <2>1, <1>1, <1>2, <1>4 DEF IsInjective
  <2>3. ASSUME NEW i \in 1 .. Len(s) - n, NEW j \in 1 .. Len(s) - n,
               t[i] = t[j]
        PROVE  i = j
    <3>1. n + i \in 1 .. Len(s) /\ n + j \in 1 .. Len(s) /\ s[n + i] = s[n + j]
      BY <1>1, <1>3, <2>3
    <3>2. n + i = n + j
      BY <3>1, <2>1
    <3> QED  BY <3>2, <1>1
  <2>4. ASSUME NEW i \in 1 .. n, NEW j \in 1 .. Len(s) - n, h[i] = t[j]
        PROVE  FALSE
    <3>1. i \in 1 .. Len(s) /\ n + j \in 1 .. Len(s) /\ s[i] = s[n + j]
      BY <1>1, <1>2, <1>3, <2>4
    <3>2. i = n + j
      BY <3>1, <2>1
    <3> QED  BY <3>2, <1>1
  <2>5. \A f : ~ (On(h, f) /\ On(t, f))
    BY <2>4, <1>4 DEF On
  <2>6. IsInjective(t)
    BY <2>3, <1>4 DEF IsInjective
  <2> QED  BY <2>2, <2>5, <2>6
<1> QED  BY <1>2, <1>3, <1>5, <1>6 DEF h, t

(* Unlinking a frame wherever it is.                                       *)
LEMMA RemovePage ==
  ASSUME NEW S, NEW s \in Seq(S), NEW e, IsInjective(s)
  PROVE  /\ removePage(s, e) \in Seq(S)
         /\ IsInjective(removePage(s, e))
         /\ \A f : On(removePage(s, e), f) <=> On(s, f) /\ f # e
<1>1. CASE ~ On(s, e)
  BY <1>1 DEF removePage
<1>2. CASE On(s, e)
  <2> DEFINE k == CHOOSE i \in DOMAIN s : s[i] = e
             h == SubSeq(s, 1, k - 1)
             t == SubSeq(s, k + 1, Len(s))
  <2>1. k \in DOMAIN s /\ s[k] = e
    BY <1>2 DEF On
  <2>2. Len(s) \in Nat /\ DOMAIN s = 1 .. Len(s)
    BY LenProperties
  <2> HIDE DEF k
  <2>3. k - 1 \in 0 .. Len(s) /\ k \in 0 .. Len(s) /\ k - 1 + 1 = k
    BY <2>1, <2>2
  <2>4. /\ h \in Seq(S) /\ Len(h) = k - 1
        /\ \A i \in 1 .. k - 1 : h[i] = s[i]
    BY <2>3, PopBatch
  <2>5. /\ t \in Seq(S) /\ Len(t) = Len(s) - k
        /\ \A i \in 1 .. Len(s) - k : t[i] = s[k + i]
    <3>1. \A i \in k + 1 .. Len(s) : s[i] \in S
      BY <2>1, <2>2, ElementOfSeq
    <3>2. k + 1 \in Int /\ Len(s) \in Int
      BY <2>1, <2>2
    <3>3. /\ t \in Seq(S)
          /\ Len(t) = IF k + 1 <= Len(s) THEN Len(s) - (k + 1) + 1 ELSE 0
          /\ \A i \in 1 .. Len(s) - (k + 1) + 1 : t[i] = s[k + 1 + i - 1]
      BY <3>1, <3>2, SubSeqProperties
    <3> QED  BY <3>3, <2>1, <2>2
  <2> DEFINE r == h \o t
  <2>6. /\ r \in Seq(S) /\ Len(r) = Len(h) + Len(t)
        /\ \A i \in 1 .. Len(h) + Len(t) :
             r[i] = IF i <= Len(h) THEN h[i] ELSE t[i - Len(h)]
    BY <2>4, <2>5, ConcatProperties
  <2>7. removePage(s, e) = r
    BY <1>2 DEF removePage, RemoveAt, k
  <2>8. /\ DOMAIN r = 1 .. Len(s) - 1
        /\ \A i \in 1 .. Len(s) - 1 : r[i] = IF i < k THEN s[i] ELSE s[i + 1]
    <3>1. DOMAIN r = 1 .. Len(s) - 1
      BY <2>6, <2>4, <2>5, <2>1, <2>2, LenProperties
    <3>2. ASSUME NEW i \in 1 .. Len(s) - 1
          PROVE  r[i] = IF i < k THEN s[i] ELSE s[i + 1]
      <4> HIDE DEF r, h, t
      <4>1. CASE i < k
        BY <4>1, <2>6, <2>4, <2>5, <2>1, <2>2
      <4>2. CASE i >= k
        <5>1. i - Len(h) \in 1 .. Len(s) - k /\ k + (i - Len(h)) = i + 1
          BY <4>2, <2>4, <2>1, <2>2
        <5>2. r[i] = t[i - Len(h)]
          BY <4>2, <2>6, <2>4, <2>5, <2>1, <2>2
        <5> QED  BY <5>1, <5>2, <2>5, <4>2, <2>1, <2>2
      <4> QED  BY <4>1, <4>2, <2>1, <2>2
    <3> QED  BY <3>1, <3>2
  <2> HIDE DEF r
  <2>9. IsInjective(r)
    BY <2>8, <2>1, <2>2 DEF IsInjective
  <2>10. ASSUME NEW f
         PROVE  On(r, f) <=> On(s, f) /\ f # e
    <3>1. ASSUME NEW i \in 1 .. Len(s) - 1, r[i] = f
          PROVE  On(s, f) /\ f # e
      BY <3>1, <2>8, <2>1, <2>2 DEF On, IsInjective
    <3>2. ASSUME NEW i \in 1 .. Len(s), s[i] = f, f # e
          PROVE  On(r, f)
      <4>1. CASE i < k
        BY <4>1, <3>2, <2>8, <2>1, <2>2 DEF On
      <4>2. CASE i > k
        <5>1. i - 1 \in 1 .. Len(s) - 1 /\ r[i - 1] = s[i]
          BY <4>2, <2>8, <2>1, <2>2
        <5> QED  BY <5>1, <3>2, <2>8 DEF On
      <4> QED  BY <4>1, <4>2, <3>2, <2>1, <2>2
    <3> QED  BY <3>1, <3>2, <2>8, <2>2 DEF On
  <2> QED  BY <2>6, <2>7, <2>9, <2>10
<1> QED  BY <1>1, <1>2
==============================================================================
