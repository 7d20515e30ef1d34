---------------------------- MODULE DashboardProofs ----------------------------
(***************************************************************************)
(* What one tab of the dashboard guarantees for any number of events,      *)
(* sockets, losses and replays, whatever the server tells it and when.     *)
(***************************************************************************)
EXTENDS Dashboard, FiniteSetTheorems, SequenceTheorems, WellFoundedInduction, TLAPS

USE DashboardAssumption, StoreAssumption DEF DashboardAssumption, StoreAssumption

-----------------------------------------------------------------------------
(* Induction up to a number, for a set of numbers.                         *)

LEMMA Climb ==
  ASSUME NEW N \in Nat, NEW Good, 0 \in Good,
         \A n \in 0 .. N : n # N /\ n \in Good => n + 1 \in Good
  PROVE  0 .. N \subseteq Good
<1> DEFINE Bad == {n \in 0 .. N : n \notin Good}
<1> SUFFICES ASSUME Bad # {} PROVE FALSE  OBVIOUS
<1>1. Bad \subseteq Nat  OBVIOUS
<1>2. PICK k \in Bad : \A j \in Bad : ~ (<< j, k >> \in OpToRel(<, Nat))
  <2> HIDE DEF Bad
  <2>1. QED  BY <1>1, NatLessThanWellFounded, WFMin
<1>3. k \in 1 .. N /\ k \notin Good  OBVIOUS
<1>4. k - 1 \in 0 .. N /\ k - 1 # N /\ k - 1 < k /\ k - 1 \in Nat /\ k \in Nat  BY <1>3
<1>5. k - 1 \notin Bad
  <2> HIDE DEF Bad
  <2>1. QED  BY <1>2, <1>4 DEF OpToRel
<1>6. k - 1 \in Good  BY <1>4, <1>5
<1>7. (k - 1) + 1 \in Good  BY <1>4, <1>6
<1>8. QED  BY <1>3, <1>7

\* The last of finitely many numbers.
LEMMA LastExists ==
  ASSUME NEW S, IsFiniteSet(S), S \subseteq Nat, S # {}
  PROVE  \E m \in S : \A x \in S : x <= m
<1> DEFINE Above(x) == {y \in S : y >= x}
           Sizes == {Cardinality(Above(x)) : x \in S}
<1>1. \A x \in S : Above(x) \subseteq S /\ IsFiniteSet(Above(x))  BY FS_Subset
<1>2. \A x \in S : Cardinality(Above(x)) \in Nat  BY <1>1, FS_CardinalityType
<1>3. Sizes \subseteq Nat /\ Sizes # {}  BY <1>2
<1>4. PICK k \in Sizes : \A j \in Sizes : ~ (<< j, k >> \in OpToRel(<, Nat))
  <2> HIDE DEF Sizes
  <2>1. QED  BY <1>3, NatLessThanWellFounded, WFMin
<1>5. PICK m \in S : k = Cardinality(Above(m))  OBVIOUS
<1>6. ASSUME NEW x \in S, x > m PROVE FALSE
  <2>1. Above(x) \subseteq Above(m) /\ m \in Above(m) /\ m \notin Above(x)
    <3>1. x \in Nat /\ m \in Nat /\ \A y \in S : y \in Nat  OBVIOUS
    <3>2. \A y \in S : y >= x => y >= m  BY <1>6, <3>1
    <3>3. m >= m /\ ~ (m >= x)  BY <1>6, <3>1
    <3>4. QED  BY <3>2, <3>3
  <2>2. Cardinality(Above(x)) < Cardinality(Above(m))
    <3>1. Above(x) # Above(m)  BY <2>1
    <3>2. Above(x) \in SUBSET Above(m) /\ IsFiniteSet(Above(m))  BY <1>1, <2>1
    <3> HIDE DEF Above
    <3>3. /\ Cardinality(Above(x)) <= Cardinality(Above(m))
          /\ Cardinality(Above(x)) # Cardinality(Above(m))
      BY <3>1, <3>2, FS_Subset
    <3>4. QED  BY <1>2, <3>3
  <2>3. Cardinality(Above(x)) \in Sizes /\ Cardinality(Above(x)) \in Nat /\ k \in Nat
    BY <1>2, <1>3
  <2>4. QED
    <3> HIDE DEF Sizes, Above
    <3>1. QED  BY <1>4, <1>5, <2>2, <2>3 DEF OpToRel
<1>7. QED  BY <1>6

\* Finitely many numbers are ranked from the last down.
Rank(S, e) == Cardinality({f \in S : f >= e})

LEMMA Ranked ==
  ASSUME NEW S, IsFiniteSet(S), S \subseteq Nat
  PROVE  \A i \in 1 .. Cardinality(S) : \E e \in S : Rank(S, e) = i
<1> DEFINE N == Cardinality(S)
           Above(x) == {y \in S : y >= x}
           Good == {n \in 0 .. N : n = 0 \/ \E e \in S : Cardinality(Above(e)) = n}
<1>1. N \in Nat  BY FS_CardinalityType
<1>2. 0 \in Good  BY <1>1
<1>3. ASSUME NEW n \in 0 .. N, n # N, n \in Good PROVE n + 1 \in Good
  <2>1. PICK A \in SUBSET S : /\ Cardinality(A) = n
                              /\ \A x \in A, y \in S \ A : y < x
    <3>1. CASE n = 0
      <4>1. Cardinality({}) = 0  BY FS_EmptySet
      <4>2. QED  BY <3>1, <4>1
    <3>2. CASE n # 0
      <4>1. PICK e \in S : Cardinality(Above(e)) = n  BY <1>3, <3>2
      <4>2. \A x \in Above(e), y \in S \ Above(e) : y < x  OBVIOUS
      <4>3. QED  BY <4>1, <4>2
    <3>3. QED  BY <3>1, <3>2
  <2>2. IsFiniteSet(A) /\ A # S  BY <2>1, <1>3, FS_Subset
  <2>3. IsFiniteSet(S \ A) /\ S \ A # {} /\ S \ A \subseteq Nat  BY <2>1, <2>2, FS_Subset
  <2>4. PICK m \in S \ A : \A x \in S \ A : x <= m
    <3> DEFINE rest == S \ A
    <3> HIDE DEF rest
    <3>1. \E m \in rest : \A x \in rest : x <= m  BY <2>3, LastExists DEF rest
    <3>2. QED  BY <3>1 DEF rest
  <2>5. Above(m) = A \union {m}
    <3>1. \A y \in S \ A : y >= m => y = m  BY <2>3, <2>4
    <3>2. \A y \in A : y >= m /\ y \in S  BY <2>1, <2>4
    <3>3. m \in S /\ m >= m  BY <2>3, <2>4
    <3>4. \A y \in S : y >= m <=> y \in A \/ y = m  BY <3>1, <3>2, <3>3
    <3>5. QED  BY <2>1, <3>3, <3>4
  <2>6. Cardinality(A \union {m}) = n + 1
    <3>1. m \notin A  BY <2>4
    <3>2. QED  BY <2>1, <2>2, <3>1, FS_AddElement
  <2>7. n + 1 \in 0 .. N  BY <1>1, <1>3
  <2>8. QED  BY <2>4, <2>5, <2>6, <2>7
<1>4. 0 .. N \subseteq Good
  <2> HIDE DEF Good, N
  <2>1. QED  BY <1>1, <1>2, <1>3, Climb
<1>5. QED  BY <1>1, <1>4 DEF Rank

-----------------------------------------------------------------------------
(* What is kept of a sequence.                                             *)

\* One step of Only, and what makes a function the one Only is defined by.
Keep(s, S, g, n) ==
  IF n = 0 THEN << >> ELSE IF s[n] \in S THEN Append(g[n - 1], s[n]) ELSE g[n - 1]

Filters(s, S, g, n) == g = [k \in 0 .. n |-> Keep(s, S, g, k)]

LEMMA OnlyFunction ==
  ASSUME NEW T, NEW s \in Seq(T), NEW S
  PROVE  \E g : Filters(s, S, g, Len(s)) /\ Only(s, S) = g[Len(s)]
<1> DEFINE N == Len(s)
           Good == {n \in 0 .. N : \E g : Filters(s, S, g, n)}
<1>1. N \in Nat  BY LenProperties
<1>2. 0 \in Good
  <2> DEFINE g == [k \in 0 .. 0 |-> << >>]
  <2>1. Filters(s, S, g, 0)  BY DEF Filters, Keep
  <2>2. QED  BY <1>1, <2>1
<1>3. ASSUME NEW n \in 0 .. N, n # N, n \in Good PROVE n + 1 \in Good
  <2>1. PICK g : Filters(s, S, g, n)  BY <1>3
  <2> DEFINE h == [k \in 0 .. n + 1 |-> IF k = n + 1 THEN Keep(s, S, g, n + 1) ELSE g[k]]
  <2>2. n \in Nat /\ n + 1 \in 0 .. N  BY <1>1, <1>3
  <2>3. \A k \in 0 .. n : g[k] = Keep(s, S, g, k)  BY <2>1 DEF Filters
  <2>4. \A k \in 0 .. n + 1 : h[k] = Keep(s, S, h, k)
    <3> SUFFICES ASSUME NEW k \in 0 .. n + 1 PROVE h[k] = Keep(s, S, h, k)  OBVIOUS
    <3>1. h[k] = Keep(s, S, g, k)  BY <2>2, <2>3
    <3>2. k # 0 => h[k - 1] = g[k - 1]  BY <2>2
    <3>3. QED
      <4> HIDE DEF h
      <4>1. QED  BY <3>1, <3>2 DEF Keep
  <2>5. Filters(s, S, h, n + 1)
    <3>1. h = [k \in 0 .. n + 1 |-> h[k]]  OBVIOUS
    <3> HIDE DEF h
    <3>2. QED  BY <2>4, <3>1 DEF Filters
  <2>6. QED  BY <2>2, <2>5
<1>4. N \in Good
  <2>1. 0 .. N \subseteq Good
    <3> HIDE DEF Good, N
    <3>1. QED  BY <1>1, <1>2, <1>3, Climb
  <2>2. QED  BY <1>1, <2>1
<1>5. PICK g : Filters(s, S, g, N)  BY <1>4
<1> DEFINE kept == CHOOSE f : f = [n \in 0 .. N |->
                     IF n = 0 THEN << >>
                     ELSE IF s[n] \in S THEN Append(f[n - 1], s[n]) ELSE f[n - 1]]
<1>6. Filters(s, S, kept, N)  BY <1>5 DEF Filters, Keep
<1>7. Only(s, S) = kept[N]  BY DEF Only
<1>8. QED  BY <1>6, <1>7

\* r keeps elements of s up to n that are in S, in their order.
KeptFrom(r, s, S, T, n) ==
  /\ r \in Seq(T)
  /\ \A j \in 1 .. Len(r) : r[j] \in S /\ \E i \in 1 .. n : r[j] = s[i]
  /\ \A j, k \in 1 .. Len(r) :
       j < k => \E i, l \in 1 .. n : i < l /\ r[j] = s[i] /\ r[k] = s[l]

LEMMA OnlyKeeps ==
  ASSUME NEW T, NEW s \in Seq(T), NEW S
  PROVE  KeptFrom(Only(s, S), s, S, T, Len(s))
<1> DEFINE N == Len(s)
<1>1. PICK g : Filters(s, S, g, N) /\ Only(s, S) = g[N]  BY OnlyFunction
<1> DEFINE Good == {n \in 0 .. N : KeptFrom(g[n], s, S, T, n)}
<1>2. N \in Nat  BY LenProperties
<1>3. \A n \in 0 .. N : g[n] = Keep(s, S, g, n)  BY <1>1 DEF Filters
<1>4. 0 \in Good
  <2>1. g[0] = << >>  BY <1>2, <1>3 DEF Keep
  <2>2. KeptFrom(<< >>, s, S, T, 0)  BY DEF KeptFrom
  <2>3. QED  BY <1>2, <2>1, <2>2
<1>5. ASSUME NEW n \in 0 .. N, n # N, n \in Good PROVE n + 1 \in Good
  <2> DEFINE q == g[n]
             x == s[n + 1]
             r == g[n + 1]
  <2>1. n \in Nat /\ n + 1 \in 1 .. N /\ n + 1 \in 0 .. N /\ KeptFrom(q, s, S, T, n)
    BY <1>2, <1>5
  <2>2. r = IF x \in S THEN Append(q, x) ELSE q  BY <1>3, <2>1 DEF Keep
  <2>3. x \in T  BY <1>2, <2>1, ElementOfSeq
  <2>4. \A i \in 1 .. n : i \in 1 .. n + 1 /\ i < n + 1  BY <2>1
  <2> SUFFICES KeptFrom(r, s, S, T, n + 1)  BY <2>1
  <2> HIDE DEF r, q
  <2>5. CASE x \notin S
    BY <2>1, <2>2, <2>4, <2>5 DEF KeptFrom
  <2>6. CASE x \in S
    <3>1. /\ r \in Seq(T) /\ Len(r) = Len(q) + 1 /\ Len(q) \in Nat
          /\ \A j \in 1 .. Len(q) : r[j] = q[j]
          /\ r[Len(q) + 1] = x
      <4> HIDE DEF x
      <4>1. QED  BY <2>1, <2>2, <2>3, <2>6 DEF KeptFrom
    <3>2. \A j \in 1 .. Len(r) : j \in 1 .. Len(q) \/ j = Len(r)  BY <3>1
    <3>3. ASSUME NEW j \in 1 .. Len(r)
          PROVE  r[j] \in S /\ \E i \in 1 .. n + 1 : r[j] = s[i]
      <4>1. CASE j \in 1 .. Len(q)
        <5>1. PICK i \in 1 .. n : q[j] \in S /\ q[j] = s[i]  BY <2>1, <4>1 DEF KeptFrom
        <5>2. QED  BY <2>4, <3>1, <4>1, <5>1
      <4>2. CASE j = Len(r)
        <5>1. n + 1 \in 1 .. n + 1 /\ r[j] = s[n + 1]  BY <2>1, <3>1, <4>2
        <5>2. QED  BY <2>6, <5>1
      <4>3. QED  BY <3>2, <4>1, <4>2
    <3>4. ASSUME NEW j \in 1 .. Len(r), NEW k \in 1 .. Len(r), j < k
          PROVE  \E i, l \in 1 .. n + 1 : i < l /\ r[j] = s[i] /\ r[k] = s[l]
      <4>1. j \in 1 .. Len(q)  BY <3>1, <3>2, <3>4
      <4>2. CASE k \in 1 .. Len(q)
        <5>1. PICK i \in 1 .. n, l \in 1 .. n : i < l /\ q[j] = s[i] /\ q[k] = s[l]
          BY <2>1, <3>4, <4>1, <4>2 DEF KeptFrom
        <5>2. QED  BY <2>4, <3>1, <4>1, <4>2, <5>1
      <4>3. CASE k = Len(r)
        <5>1. PICK i \in 1 .. n : q[j] = s[i]  BY <2>1, <4>1 DEF KeptFrom
        <5>2. n + 1 \in 1 .. n + 1  BY <2>1
        <5>3. r[j] = s[i] /\ r[k] = s[n + 1]  BY <3>1, <4>1, <4>3, <5>1
        <5>4. QED  BY <2>4, <5>2, <5>3
      <4>4. QED  BY <3>2, <4>2, <4>3
    <3>5. QED  BY <3>1, <3>3, <3>4 DEF KeptFrom
  <2>7. QED  BY <2>5, <2>6
<1>6. 0 .. N \subseteq Good
  <2> HIDE DEF Good, N
  <2>1. QED  BY <1>2, <1>4, <1>5, Climb
<1>7. QED  BY <1>1, <1>2, <1>6

-----------------------------------------------------------------------------
(* The tape.                                                               *)

TapeRow == [id : Int, status : {"pending", "verified"}]

\* One row under each id, and no row green whose event is not in done.
Sound(q, done) ==
  /\ q \in Seq(TapeRow)
  /\ \A i, j \in 1 .. Len(q) : q[i].id = q[j].id => i = j
  /\ \A i \in 1 .. Len(q) : q[i].status = "verified" => q[i].id \in done \/ -q[i].id \in done

LEMMA SoundLater ==
  ASSUME NEW q, NEW done, NEW later, done \subseteq later, Sound(q, done)
  PROVE  Sound(q, later)
BY DEF Sound

LEMMA EmptySound == ASSUME NEW done PROVE Sound(<< >>, done)
BY DEF Sound

\* .slice(0, n)
LEMMA FirstNSound ==
  ASSUME NEW q, NEW done, Sound(q, done), NEW n \in Nat
  PROVE  /\ Sound(FirstN(q, n), done) /\ Len(FirstN(q, n)) <= n
         /\ \A i \in 1 .. Len(FirstN(q, n)) : i \in 1 .. Len(q) /\ FirstN(q, n)[i] = q[i]
<1> DEFINE m == IF Len(q) < n THEN Len(q) ELSE n
           r == SubSeq(q, 1, m)
<1>1. Len(q) \in Nat /\ m \in Nat /\ m <= n /\ m <= Len(q) /\ q \in Seq(TapeRow)
  BY LenProperties DEF Sound
<1> HIDE DEF m
<1>2. r \in Seq(TapeRow) /\ Len(r) = m /\ \A i \in 1 .. m : r[i] = q[i] /\ i \in 1 .. Len(q)
  <2>1. \A i \in 1 .. m : q[i] \in TapeRow  BY <1>1, ElementOfSeq
  <2>2. QED  BY <1>1, <2>1, SubSeqProperties
<1> HIDE DEF r
<1>3. Sound(r, done)  BY <1>2 DEF Sound
<1>4. FirstN(q, n) = r  BY DEF FirstN, r, m
<1>5. QED  BY <1>1, <1>2, <1>3, <1>4

\* Rows of which each id is in one of the two parts.
LEMMA ConcatSound ==
  ASSUME NEW q, NEW r, NEW done, Sound(q, done), Sound(r, done),
         \A i \in 1 .. Len(q), j \in 1 .. Len(r) : q[i].id # r[j].id
  PROVE  Sound(q \o r, done)
<1> DEFINE s == q \o r
<1>1. /\ s \in Seq(TapeRow) /\ Len(q) \in Nat /\ Len(r) \in Nat /\ Len(s) = Len(q) + Len(r)
      /\ \A i \in 1 .. Len(s) : s[i] = IF i <= Len(q) THEN q[i] ELSE r[i - Len(q)]
  <2>1. q \in Seq(TapeRow) /\ r \in Seq(TapeRow)  BY DEF Sound
  <2>2. QED  BY <2>1, ConcatProperties
<1> HIDE DEF s
<1>2. \A i \in 1 .. Len(s) : \/ i \in 1 .. Len(q) /\ s[i] = q[i]
                             \/ i - Len(q) \in 1 .. Len(r) /\ s[i] = r[i - Len(q)]
  BY <1>1
<1>3. ASSUME NEW i \in 1 .. Len(s), NEW j \in 1 .. Len(s), s[i].id = s[j].id PROVE i = j
  <2>1. i \in Int /\ j \in Int  OBVIOUS
  <2>2. CASE i \in 1 .. Len(q) /\ s[i] = q[i] /\ j \in 1 .. Len(q) /\ s[j] = q[j]
    BY <1>3, <2>2 DEF Sound
  <2>3. CASE /\ i - Len(q) \in 1 .. Len(r) /\ s[i] = r[i - Len(q)]
             /\ j - Len(q) \in 1 .. Len(r) /\ s[j] = r[j - Len(q)]
    <3>1. i - Len(q) = j - Len(q)  BY <1>3, <2>3 DEF Sound
    <3>2. QED  BY <1>1, <2>1, <3>1
  <2>4. QED  BY <1>2, <1>3, <2>2, <2>3
<1>4. ASSUME NEW i \in 1 .. Len(s), s[i].status = "verified"
      PROVE  s[i].id \in done \/ -s[i].id \in done
  BY <1>2, <1>4 DEF Sound
<1>5. QED  BY <1>1, <1>3, <1>4 DEF Sound, s

LEMMA AddSound ==
  ASSUME NEW q, NEW done, Sound(q, done), Len(q) <= MAX_TAPE, NEW e \in Int
  PROVE  /\ Sound(AddOptimisticEvent(q, e), done)
         /\ Len(AddOptimisticEvent(q, e)) <= MAX_TAPE
<1>1. CASE e \in Ids(q)  BY <1>1 DEF AddOptimisticEvent
<1>2. CASE e \notin Ids(q)
  <2> DEFINE row == [id |-> e, status |-> "pending"]
             one == << row >>
  <2>1. row \in TapeRow /\ row.id = e /\ row.status = "pending"  BY DEF TapeRow
  <2> HIDE DEF row
  <2>2. one \in Seq(TapeRow) /\ Len(one) = 1 /\ one[1] = row  BY <2>1
  <2> HIDE DEF one
  <2>3. Sound(one, done)  BY <2>1, <2>2 DEF Sound
  <2>4. \A i \in 1 .. Len(one), j \in 1 .. Len(q) : one[i].id # q[j].id
    <3>1. DOMAIN q = 1 .. Len(q)  BY LenProperties DEF Sound
    <3>2. QED  BY <1>2, <2>1, <2>2, <3>1 DEF Ids
  <2>5. Sound(one \o q, done)  BY <2>3, <2>4, ConcatSound
  <2>6. AddOptimisticEvent(q, e) = FirstN(one \o q, MAX_TAPE)
    BY <1>2 DEF AddOptimisticEvent, one, row
  <2>7. QED  BY <2>5, <2>6, FirstNSound
<1>3. QED  BY <1>1, <1>2

LEMMA VerifySound ==
  ASSUME NEW q, NEW done, Sound(q, done), NEW e \in done
  PROVE  Sound(VerifyEvent(q, e), done) /\ Len(VerifyEvent(q, e)) = Len(q)
<1> DEFINE r == VerifyEvent(q, e)
<1>1. q \in Seq(TapeRow) /\ DOMAIN q = 1 .. Len(q) /\ Len(q) \in Nat  BY LenProperties DEF Sound
<1>2. \A i \in 1 .. Len(q) : q[i] \in TapeRow  BY <1>1, ElementOfSeq
<1>3. \A b \in TapeRow : LET c == [b EXCEPT !.status = "verified"]
                         IN  c \in TapeRow /\ c.id = b.id /\ c.status = "verified"
  BY DEF TapeRow
<1>4. r = [i \in 1 .. Len(q) |->
             IF q[i].id = e THEN [q[i] EXCEPT !.status = "verified"] ELSE q[i]]
  BY <1>1 DEF VerifyEvent
<1> HIDE DEF r
<1>5. \A i \in 1 .. Len(q) : /\ r[i] \in TapeRow /\ r[i].id = q[i].id
                             /\ r[i].status = "verified" =>
                                  q[i].status = "verified" \/ r[i].id = e
  BY <1>2, <1>3, <1>4
<1>6. r \in Seq(TapeRow) /\ Len(r) = Len(q)
  <2>1. r = [i \in 1 .. Len(q) |-> r[i]]  BY <1>4
  <2>2. QED  BY <1>1, <1>5, <2>1
<1>7. Sound(r, done)  BY <1>5, <1>6 DEF Sound
<1>8. QED  BY <1>6, <1>7 DEF r

LEMMA PendingSound ==
  ASSUME NEW q, NEW rows, NEW done, Sound(q, done), Sound(rows, done)
  PROVE  LET r == PendingUnmatched(q, rows)
         IN  Sound(r, done) /\ \A i \in 1 .. Len(r), j \in 1 .. Len(rows) : r[i].id # rows[j].id
<1> DEFINE S == {r \in ToSet(q) : r.status = "pending" /\ r.id \notin Ids(rows)}
           r == PendingUnmatched(q, rows)
<1>1. q \in Seq(TapeRow) /\ rows \in Seq(TapeRow) /\ DOMAIN rows = 1 .. Len(rows)
  BY LenProperties DEF Sound
<1>2. KeptFrom(r, q, S, TapeRow, Len(q))
  <2> HIDE DEF S
  <2>1. KeptFrom(Only(q, S), q, S, TapeRow, Len(q))  BY <1>1, OnlyKeeps
  <2>2. r = Only(q, S)  BY DEF PendingUnmatched, S
  <2>3. QED  BY <2>1, <2>2
<1>3. \A b \in S : b.status = "pending" /\ b.id \notin Ids(rows)  OBVIOUS
<1> HIDE DEF S, r
<1>4. r \in Seq(TapeRow) /\ Len(r) \in Nat /\ \A i \in 1 .. Len(r) : r[i] \in S
  BY <1>2, LenProperties DEF KeptFrom
<1>5. ASSUME NEW i \in 1 .. Len(r), NEW j \in 1 .. Len(r), i < j PROVE r[i].id # r[j].id
  <2>1. PICK k \in 1 .. Len(q), l \in 1 .. Len(q) : k < l /\ r[i] = q[k] /\ r[j] = q[l]
    BY <1>2, <1>5 DEF KeptFrom
  <2>2. q[k].id = q[l].id => k = l  BY DEF Sound
  <2>3. QED  BY <2>1, <2>2
<1>6. ASSUME NEW i \in 1 .. Len(r), NEW j \in 1 .. Len(r), r[i].id = r[j].id PROVE i = j
  <2>1. i \in Int /\ j \in Int /\ ~ (i < j) /\ ~ (j < i)  BY <1>5, <1>6
  <2>2. QED  BY <2>1
<1>7. Sound(r, done)  BY <1>3, <1>4, <1>6 DEF Sound
<1>8. \A i \in 1 .. Len(r), j \in 1 .. Len(rows) : r[i].id # rows[j].id
  BY <1>1, <1>3, <1>4 DEF Ids
<1>9. QED  BY <1>7, <1>8 DEF r

LEMMA SetTapeSound ==
  ASSUME NEW q, NEW rows, NEW done, Sound(q, done), Sound(rows, done), NEW on
  PROVE  Sound(SetTape(q, rows, on), done) /\ Len(SetTape(q, rows, on)) <= MAX_TAPE
<1>1. Sound(PendingUnmatched(q, rows) \o rows, done)  BY PendingSound, ConcatSound
<1>2. QED  BY <1>1, FirstNSound DEF SetTape

-----------------------------------------------------------------------------
(* The rows of the server.                                                 *)

LEMMA RowTyped ==
  \A e \in Int : Row(e) \in TapeRow /\ Row(e).id = e /\ Row(e).status = "verified"
BY DEF Row, TapeRow

LEMMA NewestRows ==
  ASSUME NEW done, Shown \subseteq done, NEW n \in Nat
  PROVE  /\ Sound(Newest(n), done)
         /\ \A i \in 1 .. Len(Newest(n)) : Newest(n)[i].id \in Shown
<1> DEFINE N == Cardinality(Shown)
           At(i) == CHOOSE e \in Shown : Rank(Shown, e) = i
           q == [i \in 1 .. N |-> Row(At(i))]
<1>1. Shown \subseteq Nat /\ IsFiniteSet(Shown)  BY FS_Subset DEF Shown
<1>2. N \in Nat  BY <1>1, FS_CardinalityType
<1>3. \A i \in 1 .. N : \E e \in Shown : Rank(Shown, e) = i  BY <1>1, Ranked
<1> HIDE DEF N
<1>4. \A i \in 1 .. N : At(i) \in Shown /\ Rank(Shown, At(i)) = i  BY <1>3
<1> HIDE DEF At
<1>5. \A i, j \in 1 .. N : At(i) = At(j) => i = j  BY <1>4
<1>6. \A i \in 1 .. N : At(i) \in Int
  <2>1. \A e \in Shown : e \in Int  BY <1>1
  <2>2. QED  BY <1>4, <2>1
<1>7. /\ q \in Seq(TapeRow) /\ Len(q) = N
      /\ \A i \in 1 .. N : q[i].id = At(i) /\ q[i].id \in Shown
  BY <1>2, <1>4, <1>6, RowTyped
<1> HIDE DEF q
<1>8. Sound(q, done)  BY <1>4, <1>5, <1>7 DEF Sound
<1>9. Newest(n) = FirstN(q, n)  BY DEF Newest, q, At, N, Rank
<1>10. QED  BY <1>7, <1>8, <1>9, FirstNSound

\* A push, whose rows carry other ids.
LEMMA PushedRows ==
  ASSUME NEW done, Shown \subseteq done
  PROVE  Sound([i \in DOMAIN Newest(MAX_TAPE) |-> Row(-Newest(MAX_TAPE)[i].id)], done)
<1> DEFINE q == Newest(MAX_TAPE)
           r == [i \in DOMAIN q |-> Row(-q[i].id)]
<1>1. Sound(q, done) /\ \A i \in 1 .. Len(q) : q[i].id \in Shown  BY NewestRows
<1> HIDE DEF q
<1>2. DOMAIN q = 1 .. Len(q) /\ Len(q) \in Nat  BY <1>1, LenProperties DEF Sound
<1>3. \A i \in 1 .. Len(q) : q[i].id \in Nat /\ q[i].id \in done  BY <1>1 DEF Shown
<1>4. /\ r \in Seq(TapeRow) /\ Len(r) = Len(q)
      /\ \A i \in 1 .. Len(q) : r[i].id = -q[i].id
  BY <1>2, <1>3, RowTyped
<1> HIDE DEF r
<1>5. \A i \in 1 .. Len(q) : -r[i].id = q[i].id  BY <1>3, <1>4
<1>6. \A i, j \in 1 .. Len(q) : r[i].id = r[j].id => q[i].id = q[j].id  BY <1>3, <1>4
<1>7. Sound(r, done)  BY <1>1, <1>3, <1>4, <1>5, <1>6 DEF Sound
<1>8. QED  BY <1>7 DEF r, q

-----------------------------------------------------------------------------
(* The connection.                                                         *)

States == {"none", "connecting", "open", "closing"}

\* A socket or a timer for every time the effect has run; while it has run once,
\* the only socket is the current one, and a reconnect is under way exactly when
\* there is none.
ConnInv ==
  /\ replays \in 0 .. MaxReplays /\ timers \in Nat
  /\ sock \in [Sockets -> States]
  /\ wsRef \in Sockets \union {0} /\ (wsRef # 0 => wsRef \in Alive)
  /\ IsFiniteSet(Alive) /\ Cardinality(Alive) + timers <= 1 + replays
  /\ replays = 0 =>
       \/ timers = 0 /\ wsRef \in Sockets /\ Alive = {wsRef}
       \/ timers = 1 /\ wsRef = 0 /\ Alive = {}

LEMMA ConnIsOne == ConnInv => OneConnection
<1> SUFFICES ASSUME ConnInv, replays = 0 PROVE Cardinality(Alive) + timers = 1
  BY DEF OneConnection
<1>1. CASE timers = 0 /\ Alive = {wsRef}
  <2>1. Cardinality(Alive) = 1  BY <1>1, FS_Singleton
  <2>2. QED  BY <1>1, <2>1
<1>2. CASE timers = 1 /\ Alive = {}
  <2>1. Cardinality(Alive) = 0  BY <1>2, FS_EmptySet
  <2>2. QED  BY <1>2, <2>1
<1>3. QED  BY <1>1, <1>2 DEF ConnInv

\* connect() adds one socket or none.
LEMMA ConnectAdds ==
  ASSUME NEW states \in [Sockets -> States], Connect(states), wsRef \in Sockets \union {0},
         NEW before, before = {s \in Sockets : states[s] # "none"}, IsFiniteSet(before)
  PROVE  /\ sock' \in [Sockets -> States] /\ IsFiniteSet(Alive')
         /\ Cardinality(Alive') <= Cardinality(before) + 1
         /\ wsRef' \in Sockets \union {0} /\ (wsRef' # 0 => wsRef' \in Alive')
<1>1. Cardinality(before) \in Nat  BY FS_CardinalityType
<1>2. CASE wsRef # 0 /\ states[wsRef] = "open" /\ sock' = states /\ wsRef' = wsRef
  <2>1. Alive' = before /\ wsRef' \in Alive'  BY <1>2 DEF Alive
  <2>2. QED  BY <1>1, <1>2, <2>1
<1>3. CASE \E s \in Sockets : /\ states[s] = "none"
                              /\ sock' = [states EXCEPT ![s] = "connecting"]
                              /\ wsRef' = s
  <2>1. PICK s \in Sockets : /\ states[s] = "none" /\ wsRef' = s
                             /\ sock' = [states EXCEPT ![s] = "connecting"]
    BY <1>3
  <2>2. sock' \in [Sockets -> States]  BY <2>1 DEF States
  <2>3. Alive' = before \union {s}  BY <2>1 DEF Alive
  <2>4. s \notin before  BY <2>1
  <2>5. IsFiniteSet(Alive') /\ Cardinality(Alive') = Cardinality(before) + 1
    BY <2>3, <2>4, FS_AddElement
  <2>6. wsRef' \in Alive' /\ wsRef' \in Sockets  BY <2>1, <2>3
  <2>7. QED  BY <1>1, <2>2, <2>5, <2>6
<1>4. QED  BY <1>2, <1>3 DEF Connect

LEMMA ConnStep == ConnInv /\ [Next]_vars => ConnInv'
<1> SUFFICES ASSUME ConnInv, [Next]_vars PROVE ConnInv'  OBVIOUS
<1>0. Cardinality(Alive) \in Nat  BY FS_CardinalityType DEF ConnInv
<1>1. ASSUME UNCHANGED << sock, wsRef, timers, replays >> PROVE ConnInv'
  BY <1>1 DEF ConnInv, Alive
<1>2. ASSUME NEW s \in Sockets, Opened(s) \/ Error(s) PROVE ConnInv'
  <2>1. sock' \in [Sockets -> States] /\ Alive' = Alive
    BY <1>2 DEF ConnInv, Alive, States, Opened, Error
  <2>2. UNCHANGED << wsRef, timers, replays >>  BY <1>2 DEF Opened, Error
  <2> HIDE DEF Alive
  <2>3. wsRef' # 0 => wsRef' \in Alive'  BY <2>1, <2>2 DEF ConnInv
  <2>4. Cardinality(Alive') = Cardinality(Alive) /\ IsFiniteSet(Alive')  BY <2>1 DEF ConnInv
  <2>5. QED  BY <2>1, <2>2, <2>3, <2>4 DEF ConnInv
<1>3. ASSUME NEW s \in Sockets, Close(s) PROVE ConnInv'
  <2>1. sock' \in [Sockets -> States] /\ Alive' = Alive \ {s} /\ s \in Alive
    BY <1>3 DEF ConnInv, Alive, States, Close
  <2>2. wsRef' = 0 /\ timers' = timers + 1 /\ UNCHANGED replays  BY <1>3 DEF Close
  <2>3. IsFiniteSet(Alive') /\ Cardinality(Alive') = Cardinality(Alive) - 1
    BY <2>1, FS_RemoveElement DEF ConnInv
  <2>4. Cardinality(Alive') + timers' <= 1 + replays'  BY <1>0, <2>2, <2>3 DEF ConnInv
  <2>5. QED  BY <2>1, <2>2, <2>3, <2>4 DEF ConnInv
<1>4. CASE TimerFires
  <2>1. timers > 0 /\ timers' = timers - 1 /\ Connect(sock) /\ UNCHANGED replays
    BY <1>4 DEF TimerFires
  <2>2. /\ sock' \in [Sockets -> States] /\ IsFiniteSet(Alive')
        /\ Cardinality(Alive') <= Cardinality(Alive) + 1
        /\ wsRef' \in Sockets \union {0} /\ (wsRef' # 0 => wsRef' \in Alive')
    BY <2>1, ConnectAdds DEF ConnInv, Alive
  <2>3. Cardinality(Alive') \in Nat  BY <2>2, FS_CardinalityType
  <2>4. Cardinality(Alive') + timers' <= 1 + replays'
    BY <1>0, <2>1, <2>2, <2>3 DEF ConnInv
  <2>5. ASSUME replays = 0
        PROVE  timers' = 0 /\ wsRef' \in Sockets /\ Alive' = {wsRef'}
    <3>1. timers = 1 /\ wsRef = 0 /\ \A s \in Sockets : sock[s] = "none"
      BY <2>1, <2>5 DEF ConnInv, Alive
    <3>2. PICK s \in Sockets : sock' = [sock EXCEPT ![s] = "connecting"] /\ wsRef' = s
      BY <2>1, <3>1 DEF Connect
    <3>3. Alive' = {s}  BY <3>1, <3>2 DEF ConnInv, Alive
    <3>4. QED  BY <2>1, <3>1, <3>2, <3>3
  <2>6. QED  BY <2>1, <2>2, <2>4, <2>5 DEF ConnInv
<1>5. CASE Replay
  <2>1. /\ replays' = replays + 1 /\ replays < MaxReplays
        /\ timers' \in {timers, timers - 1} /\ timers' >= 0
        /\ Connect(IF wsRef = 0 THEN sock ELSE [sock EXCEPT ![wsRef] = "closing"])
    BY <1>5 DEF Replay
  <2> DEFINE states == IF wsRef = 0 THEN sock ELSE [sock EXCEPT ![wsRef] = "closing"]
  <2>2. states \in [Sockets -> States]  BY DEF ConnInv, States
  <2>3. {s \in Sockets : states[s] # "none"} = Alive  BY DEF ConnInv, Alive
  <2> HIDE DEF states
  <2>4. /\ sock' \in [Sockets -> States] /\ IsFiniteSet(Alive')
        /\ Cardinality(Alive') <= Cardinality(Alive) + 1
        /\ wsRef' \in Sockets \union {0} /\ (wsRef' # 0 => wsRef' \in Alive')
    BY <2>1, <2>2, <2>3, ConnectAdds DEF ConnInv, states
  <2>5. Cardinality(Alive') \in Nat  BY <2>4, FS_CardinalityType
  <2>6. timers' \in Nat /\ replays' \in 0 .. MaxReplays /\ replays' # 0
    BY <2>1 DEF ConnInv
  <2>7. Cardinality(Alive') + timers' <= 1 + replays'
    BY <1>0, <2>1, <2>4, <2>5, <2>6 DEF ConnInv
  <2>8. QED  BY <2>4, <2>6, <2>7 DEF ConnInv
<1>6. QED
  BY <1>1, <1>2, <1>3, <1>4, <1>5
     DEF Next, Announce, Verify, Silent, Tell, PushTape, UnchangedTab, OnMessage, Answer,
         Painted, PollReads, PollLands, SwitchPreview, UnchangedWire, socketVars, vars

LEMMA ConnInit == Init => ConnInv
<1> SUFFICES ASSUME Init PROVE ConnInv  OBVIOUS
<1>1. First \in Sockets  BY DEF First
<1>2. Alive = {First} /\ sock \in [Sockets -> States]  BY <1>1 DEF Init, Alive, States
<1>3. IsFiniteSet({First}) /\ Cardinality({First}) = 1  BY FS_Singleton
<1>4. wsRef = First /\ timers = 0 /\ replays = 0  BY DEF Init
<1>5. QED  BY <1>1, <1>2, <1>3, <1>4 DEF ConnInv

\* A tab whose effect has run once has one connection or one timer that will make
\* one, after any number of losses (ws.ts:184-207).
THEOREM ConnectionIsOne == Spec => []OneConnection
<1>1. QED  BY ConnInit, ConnStep, ConnIsOne, PTL DEF Spec

-----------------------------------------------------------------------------
(* The bars.                                                               *)

Bar == [id : Events, source : {"ws", "client"}, vm : BOOLEAN,
        it : Words \union {"none"}, render : BOOLEAN]

OneBarEach(q) == \A i, j \in DOMAIN q : q[i].id = q[j].id => i = j

ClientStays(q, r) ==
  \A e \in Events : \A i \in BarsOf(q, e) :
    q[i].source = "client" => \A j \in BarsOf(r, e) : r[j].source = "client"

\* A change of the bars in their places.
LEMMA InPlace ==
  ASSUME NEW q \in Seq(Bar), OneBarEach(q), NEW r \in [DOMAIN q -> Bar],
         \A i \in DOMAIN q : /\ r[i].id = q[i].id
                             /\ q[i].source = "client" => r[i].source = "client"
  PROVE  r \in Seq(Bar) /\ Len(r) = Len(q) /\ OneBarEach(r) /\ ClientStays(q, r)
<1>1. DOMAIN q = 1 .. Len(q) /\ Len(q) \in Nat  BY LenProperties
<1>2. r \in Seq(Bar) /\ Len(r) = Len(q)  BY <1>1
<1>3. DOMAIN r = DOMAIN q  OBVIOUS
<1>4. QED  BY <1>2, <1>3 DEF OneBarEach, ClientStays, BarsOf

\* A new bar at the end, and the oldest one cut off if there are too many.
LEMMA AtTheEnd ==
  ASSUME NEW q \in Seq(Bar), OneBarEach(q), NEW b \in Bar, BarsOf(q, b.id) = {}
  PROVE  LET r == LastN(Append(q, b), MAX_LATENCY_BARS)
         IN  /\ r \in Seq(Bar) /\ Len(r) <= MAX_LATENCY_BARS
             /\ OneBarEach(r) /\ ClientStays(q, r)
<1> DEFINE s == Append(q, b)
           m == IF Len(s) > MAX_LATENCY_BARS THEN Len(s) - MAX_LATENCY_BARS + 1 ELSE 1
           r == SubSeq(s, m, Len(s))
<1>1. /\ s \in Seq(Bar) /\ Len(s) = Len(q) + 1 /\ Len(q) \in Nat
      /\ DOMAIN q = 1 .. Len(q) /\ DOMAIN s = 1 .. Len(s)
      /\ \A i \in 1 .. Len(q) : s[i] = q[i]
      /\ s[Len(s)] = b
  OBVIOUS
<1>2. OneBarEach(s)
  BY <1>1 DEF OneBarEach, BarsOf
<1>3. /\ m \in 1 .. Len(s) /\ m \in Int /\ Len(s) \in Int
      /\ Len(s) - m + 1 <= MAX_LATENCY_BARS
  BY <1>1
<1> HIDE DEF s, m
<1>4. /\ r \in Seq(Bar) /\ Len(r) = Len(s) - m + 1
      /\ \A i \in 1 .. Len(s) - m + 1 : r[i] = s[m + i - 1]
  <2>1. \A i \in m .. Len(s) : s[i] \in Bar  BY <1>1, <1>3, ElementOfSeq
  <2>2. QED  BY <2>1, <1>3, SubSeqProperties
<1>5. DOMAIN r = 1 .. Len(s) - m + 1  BY <1>3, <1>4, LenProperties
<1> HIDE DEF r
<1>6. \A i \in DOMAIN r : m + i - 1 \in DOMAIN s /\ r[i] = s[m + i - 1]
  <2> SUFFICES ASSUME NEW i \in 1 .. Len(s) - m + 1
               PROVE  m + i - 1 \in 1 .. Len(s) /\ r[i] = s[m + i - 1]
    BY <1>1, <1>5
  <2>1. m + i - 1 \in 1 .. Len(s)  BY <1>3
  <2>2. QED  BY <2>1, <1>4
<1>7. OneBarEach(r)
  <2> SUFFICES ASSUME NEW i \in DOMAIN r, NEW j \in DOMAIN r, r[i].id = r[j].id PROVE i = j
    BY DEF OneBarEach
  <2>1. /\ m + i - 1 \in DOMAIN s /\ m + j - 1 \in DOMAIN s
        /\ s[m + i - 1].id = s[m + j - 1].id
    BY <1>6
  <2>2. m + i - 1 = m + j - 1  BY <2>1, <1>2 DEF OneBarEach
  <2>3. QED  BY <2>2, <1>3, <1>5
<1>8. ClientStays(q, r)
  <2> SUFFICES ASSUME NEW e \in Events, NEW i \in BarsOf(q, e), q[i].source = "client",
                      NEW j \in BarsOf(r, e)
               PROVE  r[j].source = "client"
    BY DEF ClientStays
  <2>1. i \in 1 .. Len(q) /\ q[i].id = e  BY <1>1 DEF BarsOf
  <2>2. i \in DOMAIN s /\ s[i].id = e /\ s[i].source = "client"  BY <1>1, <2>1
  <2>3. m + j - 1 \in DOMAIN s /\ r[j] = s[m + j - 1] /\ r[j].id = e
    BY <1>6 DEF BarsOf
  <2>4. i = m + j - 1  BY <2>2, <2>3, <1>2 DEF OneBarEach
  <2>5. QED  BY <2>2, <2>3, <2>4
<1>9. LastN(Append(q, b), MAX_LATENCY_BARS) = r  BY DEF LastN, r, s, m
<1>10. QED  BY <1>3, <1>4, <1>7, <1>8, <1>9

LEMMA AddKeeps ==
  ASSUME NEW q \in Seq(Bar), OneBarEach(q), Len(q) <= MAX_LATENCY_BARS, NEW b \in Bar
  PROVE  LET r == AddLatencyBar(q, b)
         IN  /\ r \in Seq(Bar) /\ Len(r) <= MAX_LATENCY_BARS
             /\ OneBarEach(r) /\ ClientStays(q, r)
<1>1. CASE BarsOf(q, b.id) = {}
  BY <1>1, AtTheEnd DEF AddLatencyBar
<1>2. CASE BarsOf(q, b.id) # {}
  <2> DEFINE r == [i \in DOMAIN q |->
                     IF q[i].id = b.id /\ b.source = "client" /\ q[i].source # "client"
                       THEN b ELSE q[i]]
  <2>1. AddLatencyBar(q, b) = r  BY <1>2 DEF AddLatencyBar
  <2>2. \A i \in DOMAIN q : q[i] \in Bar  BY LenProperties
  <2>3. r \in [DOMAIN q -> Bar]  BY <2>2
  <2>4. \A i \in DOMAIN q : /\ r[i].id = q[i].id
                            /\ q[i].source = "client" => r[i].source = "client"
    BY <2>2
  <2> HIDE DEF r
  <2>5. QED  BY <2>1, <2>3, <2>4, InPlace
<1>3. QED  BY <1>1, <1>2

\* The three updates fill in one field of the bars of an event.
LEMMA UpdateKeeps ==
  ASSUME NEW q \in Seq(Bar), OneBarEach(q), NEW e, NEW word \in Words \union {"none"}
  PROVE  \A r \in {UpdateLatencyBarByEventId(q, e, TRUE),
                   UpdateLatencyBarItPoll(q, e, "it", word),
                   UpdateLatencyBar(q, e, TRUE)} :
           r \in Seq(Bar) /\ Len(r) = Len(q) /\ OneBarEach(r) /\ ClientStays(q, r)
<1>1. \A i \in DOMAIN q : q[i] \in Bar  BY LenProperties
<1>2. \A b \in Bar : /\ [b EXCEPT !.vm = TRUE] \in Bar
                     /\ [b EXCEPT !["it"] = word] \in Bar
                     /\ [b EXCEPT !.render = TRUE] \in Bar
  BY DEF Bar
<1>3. \A b \in Bar : /\ [b EXCEPT !.vm = TRUE].id = b.id
                     /\ [b EXCEPT !.vm = TRUE].source = b.source
                     /\ [b EXCEPT !["it"] = word].id = b.id
                     /\ [b EXCEPT !["it"] = word].source = b.source
                     /\ [b EXCEPT !.render = TRUE].id = b.id
                     /\ [b EXCEPT !.render = TRUE].source = b.source
  BY DEF Bar
<1> SUFFICES ASSUME NEW r \in {UpdateLatencyBarByEventId(q, e, TRUE),
                               UpdateLatencyBarItPoll(q, e, "it", word),
                               UpdateLatencyBar(q, e, TRUE)}
             PROVE  r \in Seq(Bar) /\ Len(r) = Len(q) /\ OneBarEach(r) /\ ClientStays(q, r)
  OBVIOUS
<1>4. /\ r \in [DOMAIN q -> Bar]
      /\ \A i \in DOMAIN q : r[i].id = q[i].id /\ r[i].source = q[i].source
  <2>1. CASE r = UpdateLatencyBarByEventId(q, e, TRUE)
    BY <2>1, <1>1, <1>2, <1>3 DEF UpdateLatencyBarByEventId
  <2>2. CASE r = UpdateLatencyBarItPoll(q, e, "it", word)
    BY <2>2, <1>1, <1>2, <1>3 DEF UpdateLatencyBarItPoll
  <2>3. CASE r = UpdateLatencyBar(q, e, TRUE)
    BY <2>3, <1>1, <1>2, <1>3 DEF UpdateLatencyBar
  <2>4. QED  BY <2>1, <2>2, <2>3
<1>5. QED  BY <1>4, InPlace

-----------------------------------------------------------------------------
(* The messages.                                                           *)

Types == {"optimistic", "verified", "it_visible", "tape"}

\* What the wire may hold.
Messages ==
  {m \in [type : Types, e : Events \union {0}, word : Words \union {"none"},
          rows : Seq(TapeRow)] :
     /\ m.type # "tape" => m.e \in Events
     /\ m.type = "it_visible" => m.word \in Words}

WireInv == inbox \in [Sockets -> Seq(Messages)]

LEMMA MessagesTyped ==
  /\ \A e \in Events, type \in {"optimistic", "verified"} : Message(type, e) \in Messages
  /\ \A e \in Events, word \in Words :
       [Message("it_visible", e) EXCEPT !.word = word] \in Messages
  /\ \A rows \in Seq(TapeRow) : [Message("tape", 0) EXCEPT !.rows = rows] \in Messages
<1>1. << >> \in Seq(TapeRow)  OBVIOUS
<1>2. \A e \in Events, type \in {"optimistic", "verified"} : Message(type, e) \in Messages
  BY <1>1 DEF Messages, Message, Types
<1>3. \A e \in Events, word \in Words :
        [Message("it_visible", e) EXCEPT !.word = word] \in Messages
  BY <1>1 DEF Messages, Message, Types
<1>4. \A rows \in Seq(TapeRow) : [Message("tape", 0) EXCEPT !.rows = rows] \in Messages
  BY DEF Messages, Message, Types
<1>5. QED  BY <1>2, <1>3, <1>4

BarsInv ==
  WireInv /\ bars \in Seq(Bar) /\ Len(bars) <= MAX_LATENCY_BARS /\ OneBarEach(bars)

\* What a message does to the bars.
LEMMA Handled ==
  ASSUME BarsInv, NEW s \in Sockets, OnMessage(s)
  PROVE  \E m \in Messages :
           /\ m = Head(inbox[s]) /\ inbox[s] # << >>
           /\ inbox' = [inbox EXCEPT ![s] = Tail(@)] /\ WireInv'
           /\ \/ m.type = "optimistic" /\ m.e \in Events /\ Optimistic(m.e)
              \/ m.type = "verified" /\ m.e \in Events /\ Verified(m.e)
              \/ m.type = "it_visible" /\ m.word \in Words /\ ItVisible(m.e, m.word)
              \/ m.type = "tape" /\ Tape(m.rows)
<1> DEFINE m == Head(inbox[s])
<1>1. inbox[s] # << >> /\ inbox' = [inbox EXCEPT ![s] = Tail(inbox[s])]  BY DEF OnMessage
<1>2. inbox[s] \in Seq(Messages)  BY DEF BarsInv, WireInv
<1>3. m \in Messages /\ Tail(inbox[s]) \in Seq(Messages)
  BY <1>1, <1>2, HeadTailProperties
<1>4. WireInv'  BY <1>1, <1>3 DEF BarsInv, WireInv
<1>5. /\ m.type \in Types /\ (m.type # "tape" => m.e \in Events)
      /\ m.type = "it_visible" => m.word \in Words
  BY <1>3 DEF Messages
<1>6. /\ m.type = "optimistic" => Optimistic(m.e)
      /\ m.type = "verified" => Verified(m.e)
      /\ m.type = "it_visible" => ItVisible(m.e, m.word)
      /\ m.type = "tape" => Tape(m.rows)
  BY <1>5 DEF OnMessage, Types
<1> HIDE DEF m
<1>7. QED  BY <1>1, <1>3, <1>4, <1>5, <1>6 DEF Types, m

LEMMA BarsStep ==
  ASSUME BarsInv, [Next]_vars
  PROVE  BarsInv' /\ (ClientStays(bars, bars') \/ UNCHANGED vars)
<1>0. BarsInv => bars \in Seq(Bar) /\ OneBarEach(bars) /\ Len(bars) <= MAX_LATENCY_BARS
  BY DEF BarsInv
<1>1. ClientStays(bars, bars)
  BY DEF ClientStays, BarsOf, OneBarEach, BarsInv
<1>2. ASSUME UNCHANGED << bars, inbox >>
      PROVE  BarsInv' /\ ClientStays(bars, bars')
  BY <1>1, <1>2 DEF BarsInv, WireInv
<1>3. ASSUME UNCHANGED bars, WireInv'
      PROVE  BarsInv' /\ ClientStays(bars, bars')
  BY <1>1, <1>3 DEF BarsInv
<1>4. ASSUME NEW m \in Messages, Broadcast(m) PROVE WireInv'
  BY <1>4 DEF BarsInv, WireInv, Broadcast
<1>5. ASSUME NEW e \in Events, Announce(e) \/ Verify(e)
      PROVE  BarsInv' /\ ClientStays(bars, bars')
  <2>1. UNCHANGED bars  BY <1>5 DEF Announce, Verify, UnchangedTab, storeVars
  <2>2. WireInv'  BY <1>4, <1>5, MessagesTyped DEF Announce, Verify
  <2>3. QED  BY <1>3, <2>1, <2>2
<1>6. ASSUME NEW e \in Events, NEW word \in Words, Tell(e, word)
      PROVE  BarsInv' /\ ClientStays(bars, bars')
  <2>1. UNCHANGED bars  BY <1>6 DEF Tell, UnchangedTab, storeVars
  <2>2. WireInv'  BY <1>4, <1>6, MessagesTyped DEF Tell
  <2>3. QED  BY <1>3, <2>1, <2>2
<1>7. CASE PushTape
  <2> DEFINE rows == [i \in DOMAIN Newest(MAX_TAPE) |-> Row(-Newest(MAX_TAPE)[i].id)]
  <2>1. UNCHANGED bars /\ Broadcast([Message("tape", 0) EXCEPT !.rows = rows])
    BY <1>7 DEF PushTape, UnchangedTab, storeVars
  <2>2. rows \in Seq(TapeRow)  BY PushedRows DEF Sound
  <2> HIDE DEF rows
  <2>3. WireInv'  BY <1>4, <2>1, <2>2, MessagesTyped
  <2>4. QED  BY <1>3, <2>1, <2>3
<1>8. ASSUME NEW s \in Sockets, Error(s)
      PROVE  BarsInv' /\ ClientStays(bars, bars')
  <2>1. UNCHANGED bars /\ inbox' = [inbox EXCEPT ![s] = << >>]
    BY <1>8 DEF Error, UnchangedElse, storeVars
  <2>2. WireInv'  BY <2>1 DEF BarsInv, WireInv
  <2>3. QED  BY <1>3, <2>1, <2>2
<1>9. CASE Replay
  <2>1. /\ UNCHANGED bars
        /\ inbox' = inbox \/ inbox' = [inbox EXCEPT ![wsRef] = << >>]
    BY <1>9 DEF Replay, UnchangedElse, storeVars
  <2>2. WireInv'
    <3>1. << >> \in Seq(Messages)  OBVIOUS
    <3>2. [inbox EXCEPT ![wsRef] = << >>] \in [Sockets -> Seq(Messages)]
      BY <3>1 DEF BarsInv, WireInv
    <3>3. QED  BY <2>1, <3>2 DEF BarsInv, WireInv
  <2>3. QED  BY <1>3, <2>1, <2>2
<1>10. ASSUME NEW s \in Sockets, OnMessage(s)
       PROVE  BarsInv' /\ ClientStays(bars, bars')
  <2>1. PICK m \in Messages :
          /\ WireInv'
          /\ \/ m.type = "optimistic" /\ m.e \in Events /\ Optimistic(m.e)
             \/ m.type = "verified" /\ m.e \in Events /\ Verified(m.e)
             \/ m.type = "it_visible" /\ m.word \in Words /\ ItVisible(m.e, m.word)
             \/ m.type = "tape" /\ Tape(m.rows)
    BY <1>10, Handled
  <2>2. CASE m.e \in Events /\ Optimistic(m.e)
    <3>1. WsBar(m.e) \in Bar  BY <2>2 DEF WsBar, Bar
    <3>2. bars' = bars \/ bars' = AddLatencyBar(bars, WsBar(m.e))
      BY <2>2 DEF Optimistic
    <3>3. CASE bars' = bars  BY <1>3, <2>1, <3>3
    <3>4. CASE bars' = AddLatencyBar(bars, WsBar(m.e))
      BY <1>0, <2>1, <3>1, <3>4, AddKeeps DEF BarsInv
    <3>5. QED  BY <3>2, <3>3, <3>4
  <2>3. CASE Verified(m.e)
    <3>1. bars' = UpdateLatencyBarByEventId(bars, m.e, TRUE)  BY <2>3 DEF Verified
    <3>2. QED  BY <1>0, <2>1, <3>1, UpdateKeeps DEF BarsInv
  <2>4. CASE m.word \in Words /\ ItVisible(m.e, m.word)
    <3>1. bars' = UpdateLatencyBarItPoll(bars, m.e, "it", m.word)  BY <2>4 DEF ItVisible
    <3>2. QED  BY <1>0, <2>1, <2>4, <3>1, UpdateKeeps DEF BarsInv
  <2>5. CASE Tape(m.rows)
    BY <1>3, <2>1, <2>5 DEF Tape
  <2>6. QED  BY <2>1, <2>2, <2>3, <2>4, <2>5
<1>11. ASSUME NEW e \in Mine, Answer(e)
       PROVE  BarsInv' /\ ClientStays(bars, bars')
  <2>1. ClientBar(e) \in Bar  BY DEF ClientBar, Bar
  <2>2. bars' = bars \/ bars' = AddLatencyBar(bars, ClientBar(e))  BY <1>11 DEF Answer
  <2>3. WireInv'  BY <1>11 DEF Answer, UnchangedWire, socketVars, BarsInv, WireInv
  <2>4. CASE bars' = bars  BY <1>3, <2>3, <2>4
  <2>5. CASE bars' = AddLatencyBar(bars, ClientBar(e))
    BY <1>0, <2>1, <2>3, <2>5, AddKeeps DEF BarsInv
  <2>6. QED  BY <2>2, <2>4, <2>5
<1>12. ASSUME NEW e \in Mine, Painted(e)
       PROVE  BarsInv' /\ ClientStays(bars, bars')
  <2>1. bars' = UpdateLatencyBar(bars, e, TRUE)  BY <1>12 DEF Painted
  <2>2. WireInv'  BY <1>12 DEF Painted, UnchangedWire, socketVars, BarsInv, WireInv
  <2>3. QED  BY <1>0, <2>1, <2>2, UpdateKeeps DEF BarsInv
<1>13. QED
  BY <1>2, <1>5, <1>6, <1>7, <1>8, <1>9, <1>10, <1>11, <1>12
     DEF Next, Silent, UnchangedTab, storeVars, Opened, Close, TimerFires, UnchangedElse,
         PollReads, PollLands, SwitchPreview, UnchangedWire, socketVars, vars

LEMMA BarsInit == Init => BarsInv
BY DEF Init, BarsInv, WireInv, OneBarEach

\* A bar that the tab has measured itself is not given back for what the socket
\* says of the same event, in whatever order the two come (store.ts:217-237).
THEOREM MeasuredBarStays == Spec => ClientBarStays
<1>1. BarsInv /\ [Next]_vars => BarsInv'  BY BarsStep
<1>2. BarsInv /\ [Next]_vars =>
        [\A e \in Mine : \A i \in BarsOf(bars, e) :
           bars[i].source = "client" =>
             \A j \in BarsOf(bars', e) : bars'[j].source = "client"]_vars
  BY BarsStep DEF ClientStays
<1>3. QED  BY BarsInit, <1>1, <1>2, PTL DEF Spec, ClientBarStays

-----------------------------------------------------------------------------
(* What the tab shows of the server.                                       *)

\* A message that says something of the server says what is so.
Truthful(m, done) ==
  /\ m.type = "verified" => m.e \in done
  /\ m.type = "tape" => Sound(m.rows, done)

\* Only committed events are visible, and the tape, the answers under way and the
\* messages on the wire have one row for each event, green only if committed.
TapeInv ==
  /\ visible \in [Events -> SUBSET {Raw}] /\ Shown \subseteq committed
  /\ Sound(tape, committed) /\ Len(tape) <= MAX_TAPE
  /\ DOMAIN polls = PollSlots /\ \A p \in PollSlots : Sound(polls[p], committed)
  /\ \A s \in Sockets : \A i \in 1 .. Len(inbox[s]) : Truthful(inbox[s][i], committed)

Tab ==
  /\ seen \subseteq Events /\ answered \in [Mine -> {"no", "yes", "painted"}]
  /\ BarsInv /\ TapeInv

LEMMA TabInit == Init => Tab
<1> SUFFICES ASSUME Init PROVE Tab  OBVIOUS
<1>1. BarsInv  BY BarsInit
<1>2. visible \in [Events -> SUBSET {Raw}] /\ Shown = {}  BY DEF Init, Shown
<1>3. /\ Sound(tape, committed) /\ Len(tape) <= MAX_TAPE
      /\ DOMAIN polls = PollSlots /\ \A p \in PollSlots : Sound(polls[p], committed)
  BY EmptySound DEF Init
<1>4. \A s \in Sockets : \A i \in 1 .. Len(inbox[s]) : Truthful(inbox[s][i], committed)
  BY DEF Init
<1>5. seen \subseteq Events /\ answered \in [Mine -> {"no", "yes", "painted"}]  BY DEF Init
<1>6. QED  BY <1>1, <1>2, <1>3, <1>4, <1>5 DEF Tab, TapeInv

\* A truthful message more, or one less.
LEMMA BroadcastTruth ==
  ASSUME WireInv, NEW done,
         \A s \in Sockets : \A i \in 1 .. Len(inbox[s]) : Truthful(inbox[s][i], done),
         NEW m \in Messages, Truthful(m, done), Broadcast(m)
  PROVE  \A s \in Sockets : \A i \in 1 .. Len(inbox'[s]) : Truthful(inbox'[s][i], done)
<1> SUFFICES ASSUME NEW s \in Sockets, NEW i \in 1 .. Len(inbox'[s])
             PROVE  Truthful(inbox'[s][i], done)
  OBVIOUS
<1>1. inbox[s] \in Seq(Messages)  BY DEF WireInv
<1>2. inbox'[s] = inbox[s] \/ inbox'[s] = Append(inbox[s], m)  BY DEF Broadcast
<1>3. CASE inbox'[s] = Append(inbox[s], m)
  <2>1. i \in 1 .. Len(inbox[s]) + 1  BY <1>1, <1>3
  <2>2. inbox'[s][i] = IF i = Len(inbox[s]) + 1 THEN m ELSE inbox[s][i]
    BY <1>1, <1>3, <2>1
  <2>3. i # Len(inbox[s]) + 1 => i \in 1 .. Len(inbox[s])  BY <1>1, <2>1
  <2>4. QED  BY <2>2, <2>3
<1>4. QED  BY <1>2, <1>3

LEMMA TailTruth ==
  ASSUME NEW done, NEW q \in Seq(Messages), q # << >>,
         \A i \in 1 .. Len(q) : Truthful(q[i], done)
  PROVE  Truthful(Head(q), done) /\ \A i \in 1 .. Len(Tail(q)) : Truthful(Tail(q)[i], done)
<1>1. /\ Len(q) \in Nat \ {0} /\ Len(Tail(q)) = Len(q) - 1 /\ Head(q) = q[1]
      /\ \A i \in 1 .. Len(Tail(q)) : Tail(q)[i] = q[i + 1]
  BY EmptySeq, LenProperties, HeadTailProperties
<1>2. \A i \in 1 .. Len(Tail(q)) : i + 1 \in 1 .. Len(q)  BY <1>1
<1>3. QED  BY <1>1, <1>2

\* The steps of the server that no message tells of.
LEMMA SilentTape == ASSUME TapeInv, NEW e \in Events, Silent(e) PROVE TapeInv'
<1>1. UNCHANGED << tape, polls, inbox >>  BY DEF Silent, UnchangedTab, storeVars
<1>2. \/ committed' = committed \union {e} /\ visible' = visible
      \/ /\ committed' = committed /\ e \in committed
         /\ visible' = [visible EXCEPT ![e] = @ \union {Raw}]
      \/ committed' = committed /\ visible' = visible
  BY DEF Silent, Server!Commit, Server!Show, Server!GiveUp
<1>3. committed \subseteq committed'  BY <1>2
<1>4. visible' \in [Events -> SUBSET {Raw}] /\ Shown' \subseteq committed'
  <2>1. CASE visible' = visible  BY <1>3, <2>1 DEF TapeInv, Shown
  <2>2. CASE /\ committed' = committed /\ e \in committed
             /\ visible' = [visible EXCEPT ![e] = @ \union {Raw}]
    <3>1. visible' \in [Events -> SUBSET {Raw}]  BY <2>2 DEF TapeInv
    <3>2. Shown' \subseteq Shown \union {e}  BY <2>2 DEF TapeInv, Shown
    <3>3. QED  BY <2>2, <3>1, <3>2 DEF TapeInv
  <2>3. QED  BY <1>2, <2>1, <2>2
<1>5. /\ Sound(tape, committed') /\ \A p \in PollSlots : Sound(polls[p], committed')
      /\ \A s \in Sockets : \A i \in 1 .. Len(inbox[s]) : Truthful(inbox[s][i], committed')
  BY <1>3, SoundLater DEF TapeInv, Truthful
<1>6. QED  BY <1>1, <1>4, <1>5 DEF TapeInv

LEMMA TapeStep == ASSUME Tab, [Next]_vars PROVE TapeInv'
<1> USE DEF Tab
<1>1. ASSUME UNCHANGED << committed, visible, polls, inbox >>,
             Sound(tape', committed), Len(tape') <= MAX_TAPE
      PROVE  TapeInv'
  BY <1>1 DEF TapeInv, Shown
<1>2. ASSUME UNCHANGED << committed, visible, tape, polls, inbox >> PROVE TapeInv'
  BY <1>1, <1>2 DEF TapeInv
<1>3. ASSUME NEW m \in Messages, Truthful(m, committed), Broadcast(m),
             UNCHANGED << committed, visible, tape, polls >>
      PROVE  TapeInv'
  <2>1. \A s \in Sockets : \A i \in 1 .. Len(inbox'[s]) : Truthful(inbox'[s][i], committed)
    BY <1>3, BroadcastTruth DEF BarsInv, TapeInv
  <2>2. QED  BY <1>3, <2>1 DEF TapeInv, Shown
<1>4. ASSUME NEW s, inbox' = [inbox EXCEPT ![s] = << >>],
             UNCHANGED << committed, visible, tape, polls >>
      PROVE  TapeInv'
  <2>1. \A r \in Sockets : inbox'[r] = inbox[r] \/ inbox'[r] = << >>
    BY <1>4 DEF BarsInv, WireInv
  <2>2. \A r \in Sockets : \A i \in 1 .. Len(inbox'[r]) : Truthful(inbox'[r][i], committed)
    BY <2>1 DEF TapeInv
  <2>3. QED  BY <1>4, <2>2 DEF TapeInv, Shown
<1>5. ASSUME NEW e \in Events, Announce(e) PROVE TapeInv'
  <2>1. Broadcast(Message("optimistic", e)) /\ UNCHANGED << committed, visible, tape, polls >>
    BY <1>5 DEF Announce, UnchangedTab, storeVars, Server!Announce
  <2>2. Truthful(Message("optimistic", e), committed)  BY DEF Truthful, Message
  <2>3. QED  BY <1>3, <2>1, <2>2, MessagesTyped
<1>6. ASSUME NEW e \in Events, Verify(e) PROVE TapeInv'
  <2>1. /\ Broadcast(Message("verified", e)) /\ e \in committed
        /\ UNCHANGED << committed, visible, tape, polls >>
    BY <1>6 DEF Verify, UnchangedTab, storeVars, Server!Verify
  <2>2. Truthful(Message("verified", e), committed)  BY <2>1 DEF Truthful, Message
  <2>3. QED  BY <1>3, <2>1, <2>2, MessagesTyped
<1>7. ASSUME NEW e \in Events, NEW word \in Words, Tell(e, word) PROVE TapeInv'
  <2> DEFINE m == [Message("it_visible", e) EXCEPT !.word = word]
  <2>1. Broadcast(m) /\ UNCHANGED << committed, visible, tape, polls >>
    BY <1>7 DEF Tell, UnchangedTab, storeVars, Server!Tell
  <2>2. Truthful(m, committed) /\ m \in Messages
    BY MessagesTyped DEF Truthful, Message
  <2> HIDE DEF m
  <2>3. QED  BY <1>3, <2>1, <2>2
<1>8. CASE PushTape
  <2> DEFINE rows == [i \in DOMAIN Newest(MAX_TAPE) |-> Row(-Newest(MAX_TAPE)[i].id)]
             m == [Message("tape", 0) EXCEPT !.rows = rows]
  <2>1. Broadcast(m) /\ UNCHANGED << committed, visible, tape, polls >>
    BY <1>8 DEF PushTape, UnchangedTab, storeVars, contractVars
  <2>2. Sound(rows, committed)  BY PushedRows DEF TapeInv
  <2> HIDE DEF rows
  <2>3. Truthful(m, committed)  BY <2>2 DEF Truthful, Message
  <2>4. m \in Messages  BY <2>2, MessagesTyped DEF Sound
  <2> HIDE DEF m
  <2>5. QED  BY <1>3, <2>1, <2>3, <2>4
<1>9. ASSUME NEW s \in Sockets, OnMessage(s) PROVE TapeInv'
  <2>1. PICK m \in Messages :
          /\ m = Head(inbox[s]) /\ inbox[s] # << >>
          /\ inbox' = [inbox EXCEPT ![s] = Tail(inbox[s])]
          /\ \/ m.type = "optimistic" /\ m.e \in Events /\ Optimistic(m.e)
             \/ m.type = "verified" /\ m.e \in Events /\ Verified(m.e)
             \/ m.type = "it_visible" /\ m.word \in Words /\ ItVisible(m.e, m.word)
             \/ m.type = "tape" /\ Tape(m.rows)
    BY <1>9, Handled
  <2>2. UNCHANGED << committed, visible, polls >>  BY <1>9 DEF OnMessage, contractVars
  <2>3. /\ Truthful(m, committed)
        /\ \A i \in 1 .. Len(Tail(inbox[s])) : Truthful(Tail(inbox[s])[i], committed)
    BY <2>1, TailTruth DEF BarsInv, WireInv, TapeInv
  <2>4. \A r \in Sockets : \A i \in 1 .. Len(inbox'[r]) : Truthful(inbox'[r][i], committed)
    <3>1. \A r \in Sockets : inbox'[r] = IF r = s THEN Tail(inbox[s]) ELSE inbox[r]
      BY <2>1 DEF BarsInv, WireInv
    <3>2. QED  BY <2>3, <3>1 DEF TapeInv
  <2>5. Sound(tape', committed) /\ Len(tape') <= MAX_TAPE
    <3>1. CASE tape' = tape  BY <3>1 DEF TapeInv
    <3>2. CASE m.e \in Events /\ tape' = AddOptimisticEvent(tape, m.e)
      <4>1. \A e \in Events : e \in Int  OBVIOUS
      <4>2. m.e \in Int  BY <3>2, <4>1
      <4>3. QED  BY <3>2, <4>2, AddSound DEF TapeInv
    <3>3. CASE m.type = "verified" /\ tape' = VerifyEvent(tape, m.e)
      <4>1. m.e \in committed  BY <2>3, <3>3 DEF Truthful
      <4>2. QED  BY <3>3, <4>1, VerifySound DEF TapeInv
    <3>4. CASE m.type = "tape" /\ tape' = SetTape(tape, m.rows, optimisticEnabled)
      <4>1. Sound(m.rows, committed)  BY <2>3, <3>4 DEF Truthful
      <4>2. QED  BY <3>4, <4>1, SetTapeSound DEF TapeInv
    <3>5. QED  BY <2>1, <3>1, <3>2, <3>3, <3>4 DEF Optimistic, Verified, ItVisible, Tape
  <2>6. QED  BY <2>2, <2>4, <2>5 DEF TapeInv, Shown
<1>10. ASSUME NEW e \in Mine, Answer(e) PROVE TapeInv'
  <2>1. /\ UNCHANGED << committed, visible, polls, inbox >>
        /\ tape' = tape \/ tape' = AddOptimisticEvent(tape, e)
    BY <1>10 DEF Answer, UnchangedWire, contractVars, socketVars
  <2>2. e \in Int  OBVIOUS
  <2>3. Sound(tape', committed) /\ Len(tape') <= MAX_TAPE
    BY <2>1, <2>2, AddSound DEF TapeInv
  <2>4. QED  BY <1>1, <2>1, <2>3
<1>11. ASSUME NEW p \in PollSlots, PollReads(p) \/ PollLands(p) PROVE TapeInv'
  <2>1. UNCHANGED << committed, visible, inbox >>
    BY <1>11 DEF PollReads, PollLands, UnchangedWire, contractVars, socketVars
  <2>2. \/ polls' = [polls EXCEPT ![p] = Newest(MAX_TAPE)]
        \/ polls' = [polls EXCEPT ![p] = << >>]
    BY <1>11 DEF PollReads, PollLands
  <2>3. DOMAIN polls' = PollSlots /\ \A r \in PollSlots : Sound(polls'[r], committed)
    <3>1. MAX_TAPE \in Nat /\ Shown \subseteq committed  BY DEF TapeInv
    <3>2. Sound(Newest(MAX_TAPE), committed)  BY <3>1, NewestRows
    <3>3. Sound(<< >>, committed)  BY EmptySound
    <3>4. QED  BY <2>2, <3>2, <3>3 DEF TapeInv
  <2>4. Sound(tape', committed) /\ Len(tape') <= MAX_TAPE
    <3>1. tape' = tape \/ tape' = SetTape(tape, polls[p], optimisticEnabled)
      BY <1>11 DEF PollReads, PollLands, storeVars
    <3>2. QED  BY <3>1, SetTapeSound DEF TapeInv
  <2>5. QED  BY <2>1, <2>3, <2>4 DEF TapeInv, Shown
<1>12. ASSUME NEW s \in Sockets, Opened(s) \/ Error(s) \/ Close(s) PROVE TapeInv'
  <2>1. /\ UNCHANGED << committed, visible, tape, polls >>
        /\ inbox' = inbox \/ inbox' = [inbox EXCEPT ![s] = << >>]
    BY <1>12 DEF Opened, Error, Close, UnchangedElse, contractVars, storeVars
  <2>2. QED  BY <1>2, <1>4, <2>1
<1>13. CASE TimerFires \/ Replay
  <2>1. /\ UNCHANGED << committed, visible, tape, polls >>
        /\ inbox' = inbox \/ inbox' = [inbox EXCEPT ![wsRef] = << >>]
    BY <1>13 DEF TimerFires, Replay, UnchangedElse, contractVars, storeVars
  <2>2. QED  BY <1>2, <1>4, <2>1
<1>14. ASSUME NEW e \in Events, Silent(e) PROVE TapeInv'
  BY <1>14, SilentTape
<1>15. QED
  BY <1>2, <1>5, <1>6, <1>7, <1>8, <1>9, <1>10, <1>11, <1>12, <1>13, <1>14
     DEF Next, Painted, SwitchPreview, UnchangedWire, contractVars, socketVars, storeVars, vars

LEMMA TabStep == Tab /\ [Next]_vars => Tab'
<1> SUFFICES ASSUME Tab, [Next]_vars PROVE Tab'  OBVIOUS
<1>1. TapeInv' /\ BarsInv'  BY TapeStep, BarsStep DEF Tab
<1>2. seen' \subseteq Events
  <2>1. ASSUME NEW s \in Sockets, OnMessage(s) PROVE seen' \subseteq Events
    BY <2>1, Handled DEF Tab, Optimistic, Verified, ItVisible, Tape
  <2>2. QED
    BY <2>1
       DEF Tab, Next, Announce, Verify, Silent, Tell, PushTape, UnchangedTab, Opened, Error,
           Close, TimerFires, Replay, UnchangedElse, Answer, Painted, PollReads, PollLands,
           SwitchPreview, UnchangedWire, socketVars, vars
<1>3. answered' \in [Mine -> {"no", "yes", "painted"}]
  BY DEF Tab, Next, Announce, Verify, Silent, Tell, PushTape, UnchangedTab, Opened, Error,
         Close, TimerFires, Replay, UnchangedElse, OnMessage, Answer, Painted, PollReads,
         PollLands, SwitchPreview, UnchangedWire, vars
<1>4. QED  BY <1>1, <1>2, <1>3 DEF Tab

\* The tape and the chart stay within their lengths, and there is at most one timer
\* more than the effect has been replayed.
THEOREM TypeCorrect == Spec => []TypeOK
<1>1. ConnInv /\ Tab => TypeOK
  <2> SUFFICES ASSUME ConnInv, Tab PROVE TypeOK  OBVIOUS
  <2>1. /\ sock \in [Sockets -> {"none", "connecting", "open", "closing"}]
        /\ wsRef \in Sockets \union {0}
    BY DEF ConnInv, States
  <2>2. timers \in 0 .. 1 + MaxReplays
    <3>1. Cardinality(Alive) \in Nat  BY FS_CardinalityType DEF ConnInv
    <3>2. QED  BY <3>1 DEF ConnInv
  <2>3. /\ \A i \in DOMAIN tape : tape[i].status \in {"pending", "verified"}
        /\ Len(tape) <= MAX_TAPE
    <3>1. DOMAIN tape = 1 .. Len(tape) /\ \A i \in 1 .. Len(tape) : tape[i] \in TapeRow
      BY LenProperties, ElementOfSeq DEF Tab, TapeInv, Sound
    <3>2. QED  BY <3>1 DEF Tab, TapeInv, TapeRow
  <2>4. /\ \A i \in DOMAIN bars : bars[i].id \in Events /\ bars[i].source \in {"ws", "client"}
        /\ Len(bars) <= MAX_LATENCY_BARS
    <3>1. \A i \in DOMAIN bars : bars[i] \in Bar
      BY LenProperties, ElementOfSeq DEF Tab, BarsInv
    <3>2. QED  BY <3>1 DEF Tab, BarsInv, Bar
  <2>5. QED  BY <2>1, <2>2, <2>3, <2>4 DEF TypeOK, Tab
<1>2. QED  BY <1>1, ConnInit, ConnStep, TabInit, TabStep, PTL DEF Spec

\* However an event is told, over the socket, the answer, the polls and the pushes, in
\* whatever order, the tape has one row under its id and the chart one bar
\* (store.ts:164-172, 217-237).
THEOREM EveryEventOnce == Spec => []OneOfEach
<1>1. Tab => OneOfEach
  <2> SUFFICES ASSUME Tab PROVE OneOfEach  OBVIOUS
  <2>1. DOMAIN tape = 1 .. Len(tape)  BY LenProperties DEF Tab, TapeInv, Sound
  <2>2. QED  BY <2>1 DEF OneOfEach, Tab, TapeInv, Sound, BarsInv, OneBarEach
<1>2. QED  BY <1>1, TabInit, TabStep, PTL DEF Spec

\* A row turns green only by a verified message, a poll or a push, all of which speak
\* of committed events, however late they come (store.ts:182-184).
THEOREM GreenRowsAreCommitted == Spec => []GreenIsCommitted
<1>1. Tab => GreenIsCommitted
  <2> SUFFICES ASSUME Tab PROVE GreenIsCommitted  OBVIOUS
  <2>1. DOMAIN tape = 1 .. Len(tape)  BY LenProperties DEF Tab, TapeInv, Sound
  <2>2. QED  BY <2>1 DEF GreenIsCommitted, Tab, TapeInv, Sound
<1>2. QED  BY <1>1, TabInit, TabStep, PTL DEF Spec
=============================================================================
