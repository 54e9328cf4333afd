--------------------------- MODULE EvidenceProofs ---------------------------
(***************************************************************************)
(* What the run of Evidence shows for a few layouts and records, and the    *)
(* run of Calendar for four centuries of days, for all of them.             *)
(*                                                                          *)
(* The layouts first.  The template a reader renders and the response the   *)
(* registry renders are built in the same steps, each appending pieces of   *)
(* equal length: so what was written before a piece has the same length in  *)
(* both, the piece stands at the same place, and the quotes do.             *)
(*                                                                          *)
(* Then the evidence.  What check_shape compares determines the layout of   *)
(* the response (SameLayout), so the commitments to the policy's ranges     *)
(* open to the values of the record (Opened, Passed).  The circuit's field  *)
(* arithmetic is exact on them: a word less one byte is below R, and so are *)
(* the numbers compared.  So what the circuit proves of the openings holds  *)
(* of the record.                                                           *)
(***************************************************************************)
EXTENDS Evidence, Calendar, SequenceTheorems, FiniteSetTheorems, WellFoundedInduction, TLAPS


-----------------------------------------------------------------------------
(* Induction over the naturals.                                            *)

\* A non-empty set of naturals has a least member.
LEMMA LeastNatural ==
    ASSUME NEW T, T \subseteq Nat, T # {}
    PROVE  \E x \in T : \A y \in T : ~(y < x)
<1>1. \E x \in T : \A y \in T : ~(<<y, x>> \in OpToRel(<, Nat))
  BY NatLessThanWellFounded, WFMin, Zenon
<1> QED BY <1>1 DEF OpToRel

\* A set with 0 and with the successors of its members has all naturals.
LEMMA Induction ==
    ASSUME NEW S, 0 \in S, \A n \in Nat : n \in S => n + 1 \in S
    PROVE  \A n \in Nat : n \in S
<1> DEFINE T == {n \in Nat : n \notin S}
<1>1. CASE T = {}
  BY <1>1
<1>2. CASE T # {}
  <2>1. PICK x \in T : \A y \in T : ~(y < x)
    <3>1. T \subseteq Nat
      OBVIOUS
    <3> HIDE DEF T
    <3> QED BY <1>2, <3>1, LeastNatural
  <2>2. x # 0 /\ x - 1 \in Nat /\ x - 1 < x
    OBVIOUS
  <2>3. x - 1 \in S
    BY <2>1, <2>2
  <2> QED BY <2>2, <2>3
<1> QED BY <1>1, <1>2

-----------------------------------------------------------------------------
(* Sequences of symbols.                                                   *)

Begins(s, p) == Len(p) <= Len(s) /\ \A i \in 1..Len(p) : s[i] = p[i]

\* The same length and, if q, quotes at the same places.
Alike(q, s, t) ==
    Len(s) = Len(t) /\ (q => \A i \in 1..Len(s) : s[i] = Quote <=> t[i] = Quote)

\* A symbol stands at one place or nowhere.
OnlyAt(s, x, n) == \A i \in 1..Len(s) : s[i] = x => i = n

LEMMA Joined ==
    ASSUME NEW p \in Seq(Nat), NEW r \in Seq(Nat)
    PROVE  /\ p \o r \in Seq(Nat) /\ Len(p \o r) = Len(p) + Len(r) /\ Len(p) \in Nat /\ Len(r) \in Nat
           /\ \A i \in 1..Len(p) : (p \o r)[i] = p[i]
           /\ \A i \in 1..Len(r) : (p \o r)[Len(p) + i] = r[i]
           /\ \A i \in 1..(Len(p) + Len(r)) : i > Len(p) => (p \o r)[i] = r[i - Len(p)]
  OBVIOUS

LEMMA BeginsWith ==
    ASSUME NEW p \in Seq(Nat), NEW r \in Seq(Nat)
    PROVE  Begins(p \o r, p)
  BY DEF Begins

LEMMA BeginsSelf ==
    ASSUME NEW p \in Seq(Nat)
    PROVE  Begins(p, p)
  BY DEF Begins

LEMMA BeginsTrans ==
    ASSUME NEW s \in Seq(Nat), NEW p \in Seq(Nat), NEW q \in Seq(Nat), Begins(s, p), Begins(p, q)
    PROVE  Begins(s, q)
  BY DEF Begins

\* What stands between two positions.
LEMMA Slice ==
    ASSUME NEW r \in Seq(Nat), NEW p \in Seq(Nat), NEW n \in Nat,
           n + Len(p) <= Len(r), \A i \in 1..Len(p) : r[n + i] = p[i]
    PROVE  SubSeq(r, n + 1, n + Len(p)) = p
<1> DEFINE q == SubSeq(r, n + 1, n + Len(p))
<1>1. \A i \in (n + 1)..(n + Len(p)) : r[i] \in Nat
  OBVIOUS
<1>2. /\ q \in Seq(Nat) 
      /\ Len(q) = IF n + 1 <= n + Len(p) THEN (n + Len(p)) - (n + 1) + 1 ELSE 0
      /\ \A i \in 1..((n + Len(p)) - (n + 1) + 1) : q[i] = r[(n + 1) + i - 1]
  BY ONLY <1>1, n \in Nat, p \in Seq(Nat), Len(p) \in Nat, n + 1 \in Int, n + Len(p) \in Int,
          SubSeqProperties
<1>3. Len(q) = Len(p)
  BY <1>2
<1>4. \A i \in 1..Len(q) : q[i] = p[i]
  BY <1>2, <1>3
<1> HIDE DEF q
<1>5. q = p
  BY <1>2, <1>3, <1>4, SeqEqual
<1> QED BY <1>5 DEF q

LEMMA AlikeSelf ==
    ASSUME NEW q \in BOOLEAN, NEW s \in Seq(Nat)
    PROVE  Alike(q, s, s)
  BY DEF Alike

LEMMA AlikeJoined ==
    ASSUME NEW q \in BOOLEAN, NEW s \in Seq(Nat), NEW t \in Seq(Nat), NEW a \in Seq(Nat), NEW b \in Seq(Nat),
           Alike(q, s, t), Alike(q, a, b)
    PROVE  Alike(q, s \o a, t \o b)
<1>1. /\ s \o a \in Seq(Nat) /\ t \o b \in Seq(Nat) /\ Len(s) = Len(t) /\ Len(a) = Len(b)
      /\ Len(s \o a) = Len(s) + Len(a) /\ Len(t \o b) = Len(t) + Len(b)
  BY Joined DEF Alike
<1>2. ASSUME q, NEW i \in 1..(Len(s) + Len(a))
      PROVE  (s \o a)[i] = Quote <=> (t \o b)[i] = Quote
  <2>1. CASE i <= Len(s)
    BY <1>1, <1>2, <2>1 DEF Alike
  <2>2. CASE i > Len(s)
    <3>1. i - Len(s) \in 1..Len(a)
      BY <1>1, <2>2
    <3>2. (s \o a)[i] = a[i - Len(s)] /\ (t \o b)[i] = b[i - Len(s)]
      <4>1. \A n \in 1..(Len(s) + Len(a)) : n > Len(s) => (s \o a)[n] = a[n - Len(s)]
        BY ONLY s \in Seq(Nat), a \in Seq(Nat), Joined
      <4>2. \A n \in 1..(Len(t) + Len(b)) : n > Len(t) => (t \o b)[n] = b[n - Len(t)]
        BY ONLY t \in Seq(Nat), b \in Seq(Nat), Joined
      <4> QED BY ONLY <1>1, <2>2, <4>1, <4>2, i \in 1..(Len(s) + Len(a))
    <3>3. \A j \in 1..Len(a) : a[j] = Quote <=> b[j] = Quote
      BY <1>2 DEF Alike
    <3> QED BY ONLY <3>1, <3>2, <3>3
  <2> QED BY <1>1, <2>1, <2>2
<1> QED BY <1>1, <1>2 DEF Alike

LEMMA OnlyAtJoined ==
    ASSUME NEW s \in Seq(Nat), NEW a \in Seq(Nat), NEW x, NEW n \in Int,
           OnlyAt(s, x, n), OnlyAt(a, x, n - Len(s))
    PROVE  OnlyAt(s \o a, x, n)
<1>1. s \o a \in Seq(Nat) /\ Len(s \o a) = Len(s) + Len(a)
  OBVIOUS
<1>2. ASSUME NEW i \in 1..(Len(s) + Len(a)), (s \o a)[i] = x
      PROVE  i = n
  <2>1. CASE i <= Len(s)
    BY <1>1, <1>2, <2>1 DEF OnlyAt
  <2>2. CASE i > Len(s)
    <3>1. i - Len(s) \in 1..Len(a)
      BY <2>2
    <3>2. (s \o a)[i] = a[i - Len(s)]
      BY <2>2, Joined
    <3> QED BY <1>2, <3>1, <3>2 DEF OnlyAt
  <2> QED BY <2>1, <2>2
<1> QED BY <1>1, <1>2 DEF OnlyAt

-----------------------------------------------------------------------------
(* Lists.                                                                  *)

Followed(x, y) == x \o y \o <<Comma>>

Written(g, items, n) ==
    g = [k \in 1..n |-> IF k = 1 THEN <<>> ELSE Followed(g[k - 1], items[k - 1])]

\* The recursion that defines before has a solution.
LEMMA WrittenExists ==
    ASSUME NEW items
    PROVE  \A n \in Nat : \E g : Written(g, items, n)
<1> DEFINE S == {n \in Nat : \E g : Written(g, items, n)}
<1>1. 0 \in S
  <2>1. Written([k \in 1..0 |-> IF k = 1 THEN <<>> ELSE <<>>], items, 0)
    BY DEF Written
  <2> QED BY <2>1
<1>2. ASSUME NEW n \in Nat, n \in S
      PROVE  n + 1 \in S
  <2>1. PICK g : Written(g, items, n)
    BY <1>2
  <2> DEFINE h == [k \in 1..(n + 1) |->
                    IF k = n + 1 THEN (IF n = 0 THEN <<>> ELSE Followed(g[n], items[n])) ELSE g[k]]
  <2>2. \A k \in 1..n : g[k] = IF k = 1 THEN <<>> ELSE Followed(g[k - 1], items[k - 1])
    BY <2>1 DEF Written
  <2>3. \A k \in 1..(n + 1) : h[k] = IF k = 1 THEN <<>> ELSE Followed(h[k - 1], items[k - 1])
    BY <2>2
  <2>4. Written(h, items, n + 1)
    BY <2>3 DEF Written
  <2> QED BY <2>4
<1>3. \A n \in Nat : n \in S
  <2> HIDE DEF S
  <2> QED BY <1>1, <1>2, Induction
<1> QED BY <1>3

LEMMA BeforeIsWritten ==
    ASSUME NEW items, Len(items) \in Nat
    PROVE  Written(before(items), items, Len(items))
<1> DEFINE t == CHOOSE g : g = [k \in 1..Len(items) |->
                    IF k = 1 THEN <<>> ELSE Followed(g[k - 1], items[k - 1])]
<1>1. \E g : g = [k \in 1..Len(items) |->
                    IF k = 1 THEN <<>> ELSE Followed(g[k - 1], items[k - 1])]
  BY WrittenExists DEF Written
<1>2. t = [k \in 1..Len(items) |-> IF k = 1 THEN <<>> ELSE Followed(t[k - 1], items[k - 1])]
  BY <1>1
<1>3. before(items) = t
  BY DEF before, Followed
<1> HIDE DEF t
<1>4. Written(t, items, Len(items))
  BY <1>2 DEF Written
<1> QED BY <1>3, <1>4

\* Items are sequences of symbols, at least one.
Items(items) == items \in Seq(Seq(Nat)) /\ Len(items) > 0

LEMMA ItemsType ==
    ASSUME NEW items, Items(items)
    PROVE  /\ Len(items) \in Nat /\ Len(items) > 0 /\ 1 \in 1..Len(items) /\ Len(items) \in 1..Len(items)
           /\ \A k \in 1..Len(items) : items[k] \in Seq(Nat)
  BY DEF Items

\* What before writes, one item at a time.
LEMMA BeforeFirst ==
    ASSUME NEW items, Items(items)
    PROVE  before(items)[1] = <<>>
<1>1. Written(before(items), items, Len(items)) /\ 1 \in 1..Len(items)
  BY ItemsType, BeforeIsWritten
<1> QED BY <1>1 DEF Written

LEMMA BeforeNext ==
    ASSUME NEW items, Items(items), NEW k \in 1..Len(items), k < Len(items)
    PROVE  before(items)[k + 1] = Followed(before(items)[k], items[k])
<1>1. Written(before(items), items, Len(items)) /\ Len(items) \in Nat
  BY ItemsType, BeforeIsWritten
<1>2. k + 1 \in 1..Len(items) /\ k + 1 # 1 /\ (k + 1) - 1 = k
  BY <1>1
<1> QED BY <1>1, <1>2 DEF Written

LEMMA Punctuation ==
    /\ <<>> \in Seq(Nat) /\ Len(<<>>) = 0 /\ <<Comma>> \in Seq(Nat) /\ Len(<<Comma>>) = 1
    /\ <<Open>> \in Seq(Nat) /\ Len(<<Open>>) = 1 /\ <<Quote>> \in Seq(Nat) /\ Len(<<Quote>>) = 1
    /\ <<ListOpen>> \in Seq(Nat) /\ Len(<<ListOpen>>) = 1
    /\ <<ListClose, Comma>> \in Seq(Nat) /\ Len(<<ListClose, Comma>>) = 2
    /\ <<Close, Close>> \in Seq(Nat) /\ Len(<<Close, Close>>) = 2
  BY DEF Comma, Open, Quote, ListOpen, ListClose, Close

LEMMA FollowedType ==
    ASSUME NEW x \in Seq(Nat), NEW y \in Seq(Nat)
    PROVE  /\ Followed(x, y) \in Seq(Nat) /\ Len(Followed(x, y)) = Len(x) + Len(y) + 1
           /\ Begins(Followed(x, y), x \o y) /\ Followed(x, y) = (x \o y) \o <<Comma>>
<1> DEFINE z == x \o y
<1>1. z \in Seq(Nat) /\ Len(z) = Len(x) + Len(y)
  BY Joined
<1> HIDE DEF z
<1>2. z \o <<Comma>> \in Seq(Nat) /\ Len(z \o <<Comma>>) = Len(z) + 1 /\ Begins(z \o <<Comma>>, z)
  BY <1>1, Punctuation, Joined, BeginsWith
<1> QED BY <1>1, <1>2 DEF Followed, z

LEMMA BeforeType ==
    ASSUME NEW items, Items(items), NEW k \in 1..Len(items)
    PROVE  before(items)[k] \in Seq(Nat)
<1> DEFINE S == {n \in Nat : n + 1 <= Len(items) => before(items)[n + 1] \in Seq(Nat)}
<1>0. Len(items) \in Nat
  BY ItemsType
<1>1. 0 \in S
  <2>1. before(items)[1] \in Seq(Nat)
    BY BeforeFirst, Punctuation
  <2> QED BY <2>1
<1>2. ASSUME NEW n \in Nat, n \in S
      PROVE  n + 1 \in S
  <2> SUFFICES ASSUME (n + 1) + 1 <= Len(items)
               PROVE  before(items)[(n + 1) + 1] \in Seq(Nat)
    OBVIOUS
  <2>1. n + 1 \in 1..Len(items) /\ n + 1 < Len(items)
    BY <1>0
  <2>2. before(items)[n + 1] \in Seq(Nat) /\ items[n + 1] \in Seq(Nat)
    BY <1>2, <2>1, ItemsType
  <2>3. before(items)[(n + 1) + 1] = Followed(before(items)[n + 1], items[n + 1])
    BY <2>1, BeforeNext
  <2> QED BY <2>2, <2>3, FollowedType
<1>3. \A n \in Nat : n \in S
  <2> HIDE DEF S
  <2> QED BY <1>1, <1>2, Induction
<1>4. k - 1 \in Nat /\ (k - 1) + 1 = k /\ k <= Len(items)
  BY <1>0
<1> QED BY <1>3, <1>4

LEMMA ListedType ==
    ASSUME NEW items, Items(items)
    PROVE  /\ listed(items) \in Seq(Nat)
           /\ Len(listed(items)) = Len(before(items)[Len(items)]) + Len(items[Len(items)])
<1>1. before(items)[Len(items)] \in Seq(Nat) /\ items[Len(items)] \in Seq(Nat)
  BY BeforeType, ItemsType
<1> QED BY <1>1, Joined DEF listed

\* Each item stands in the list behind what was written before it.
UpTo(items, k) == before(items)[k] \o items[k]

LEMMA UpToNext ==
    ASSUME NEW items, Items(items), NEW k \in 1..Len(items), k < Len(items)
    PROVE  /\ UpTo(items, k) \in Seq(Nat) /\ UpTo(items, k + 1) \in Seq(Nat)
           /\ Begins(UpTo(items, k + 1), UpTo(items, k))
<1>1. /\ k + 1 \in 1..Len(items)
      /\ before(items)[k] \in Seq(Nat) /\ items[k] \in Seq(Nat)
  BY ItemsType, BeforeType
<1>2. before(items)[k + 1] \in Seq(Nat) /\ items[k + 1] \in Seq(Nat)
  BY <1>1, ItemsType, BeforeType
<1>3. UpTo(items, k) \in Seq(Nat) /\ UpTo(items, k + 1) \in Seq(Nat)
  BY <1>1, <1>2, Joined DEF UpTo
<1>4. Begins(before(items)[k + 1], UpTo(items, k))
  <2>1. before(items)[k + 1] = Followed(before(items)[k], items[k])
    BY BeforeNext
  <2>2. Begins(Followed(before(items)[k], items[k]), before(items)[k] \o items[k])
    BY <1>1, FollowedType
  <2> QED BY <2>1, <2>2 DEF UpTo
<1>5. Begins(UpTo(items, k + 1), before(items)[k + 1])
  BY <1>2, BeginsWith DEF UpTo
<1> QED BY <1>2, <1>3, <1>4, <1>5, BeginsTrans

LEMMA UpToLater ==
    ASSUME NEW items, Items(items), NEW k \in 1..Len(items), NEW j \in 1..Len(items), k <= j
    PROVE  /\ UpTo(items, k) \in Seq(Nat) /\ UpTo(items, j) \in Seq(Nat)
           /\ Begins(UpTo(items, j), UpTo(items, k))
<1> DEFINE S == {n \in Nat : k + n <= Len(items) => Begins(UpTo(items, k + n), UpTo(items, k))}
<1>0. Len(items) \in Nat /\ \A i \in 1..Len(items) : UpTo(items, i) \in Seq(Nat)
  BY ItemsType, BeforeType, Joined DEF UpTo
<1>1. 0 \in S
  <2>1. k + 0 = k /\ Begins(UpTo(items, k), UpTo(items, k))
    BY <1>0, BeginsSelf
  <2> QED BY <2>1
<1>2. ASSUME NEW n \in Nat, n \in S
      PROVE  n + 1 \in S
  <2> SUFFICES ASSUME k + (n + 1) <= Len(items)
               PROVE  Begins(UpTo(items, k + (n + 1)), UpTo(items, k))
    OBVIOUS
  <2> DEFINE m == k + n
  <2>1. m \in 1..Len(items) /\ m < Len(items) /\ k + (n + 1) = m + 1
    BY <1>0
  <2>2. Begins(UpTo(items, m), UpTo(items, k))
    BY <1>2, <2>1
  <2> HIDE DEF m
  <2>3. UpTo(items, m + 1) \in Seq(Nat) /\ Begins(UpTo(items, m + 1), UpTo(items, m))
    BY <2>1, UpToNext
  <2>4. Begins(UpTo(items, m + 1), UpTo(items, k))
    BY <1>0, <2>1, <2>2, <2>3, BeginsTrans
  <2> QED BY <2>1, <2>4
<1>3. \A n \in Nat : n \in S
  <2> HIDE DEF S
  <2> QED BY <1>1, <1>2, Induction
<1>4. j - k \in Nat /\ k + (j - k) = j /\ j <= Len(items)
  BY <1>0
<1>5. Begins(UpTo(items, j), UpTo(items, k))
  BY <1>3, <1>4
<1> QED BY <1>0, <1>5

LEMMA ListedBegins ==
    ASSUME NEW items, Items(items), NEW k \in 1..Len(items)
    PROVE  Begins(listed(items), before(items)[k] \o items[k])
<1>1. Len(items) \in 1..Len(items) /\ k <= Len(items)
  BY ItemsType
<1>2. Begins(UpTo(items, Len(items)), UpTo(items, k))
  BY <1>1, UpToLater
<1> QED BY <1>2 DEF listed, UpTo

\* Two lists whose items are alike are alike.
LEMMA BeforeAlike ==
    ASSUME NEW q \in BOOLEAN, NEW a, Items(a), NEW b, Items(b), Len(a) = Len(b),
           \A k \in 1..Len(a) : Alike(q, a[k], b[k]), NEW k \in 1..Len(a)
    PROVE  Alike(q, before(a)[k], before(b)[k])
<1> DEFINE S == {n \in Nat : n + 1 <= Len(a) => Alike(q, before(a)[n + 1], before(b)[n + 1])}
<1>0. Len(a) \in Nat
  BY ItemsType
<1>1. 0 \in S
  <2>1. Alike(q, before(a)[1], before(b)[1])
    BY BeforeFirst, Punctuation, AlikeSelf
  <2> QED BY <2>1
<1>2. ASSUME NEW n \in Nat, n \in S
      PROVE  n + 1 \in S
  <2> SUFFICES ASSUME (n + 1) + 1 <= Len(a)
               PROVE  Alike(q, before(a)[(n + 1) + 1], before(b)[(n + 1) + 1])
    OBVIOUS
  <2> DEFINE m == n + 1
  <2>1. m \in 1..Len(a) /\ m < Len(a) /\ m \in 1..Len(b) /\ m < Len(b)
    BY <1>0
  <2>2. Alike(q, before(a)[m], before(b)[m])
    BY <1>2, <2>1
  <2> HIDE DEF m
  <2> DEFINE x == before(a)[m]  y == before(b)[m]  c == a[m]  d == b[m]
  <2>3. /\ x \in Seq(Nat) /\ y \in Seq(Nat) /\ c \in Seq(Nat) /\ d \in Seq(Nat)
        /\ Alike(q, x, y) /\ Alike(q, c, d)
    BY <2>1, <2>2, ItemsType, BeforeType
  <2>4. before(a)[m + 1] = Followed(x, c) /\ before(b)[m + 1] = Followed(y, d)
    BY <2>1, BeforeNext
  <2> HIDE DEF x, y, c, d
  <2> DEFINE s == x \o c  t == y \o d
  <2>5. s \in Seq(Nat) /\ t \in Seq(Nat) /\ Alike(q, s, t)
    BY <2>3, Joined, AlikeJoined
  <2> HIDE DEF s, t
  <2>6. Alike(q, s \o <<Comma>>, t \o <<Comma>>)
    BY <2>5, Punctuation, AlikeSelf, AlikeJoined
  <2>7. Alike(q, Followed(x, c), Followed(y, d))
    BY <2>6 DEF Followed, s, t
  <2> QED BY <2>4, <2>7 DEF m
<1>3. \A n \in Nat : n \in S
  <2> HIDE DEF S
  <2> QED BY <1>1, <1>2, Induction
<1>4. k - 1 \in Nat /\ (k - 1) + 1 = k /\ k <= Len(a)
  BY <1>0
<1> QED BY <1>3, <1>4

LEMMA ListedAlike ==
    ASSUME NEW q \in BOOLEAN, NEW a, Items(a), NEW b, Items(b), Len(a) = Len(b),
           \A k \in 1..Len(a) : Alike(q, a[k], b[k])
    PROVE  Alike(q, listed(a), listed(b))
<1> DEFINE n == Len(a)
<1>1. n \in 1..Len(a) /\ n \in 1..Len(b)
  BY ItemsType
<1>2. Alike(q, before(a)[n], before(b)[n]) /\ Alike(q, a[n], b[n])
  BY <1>1, BeforeAlike
<1>3. /\ before(a)[n] \in Seq(Nat) /\ before(b)[n] \in Seq(Nat)
      /\ a[n] \in Seq(Nat) /\ b[n] \in Seq(Nat)
  BY <1>1, ItemsType, BeforeType
<1> HIDE DEF n
<1>4. Alike(q, before(a)[n] \o a[n], before(b)[n] \o b[n])
  BY <1>2, <1>3, AlikeJoined
<1> QED BY <1>4 DEF listed, n

\* Later items stand behind the earlier ones.
LEMMA BeforeLater ==
    ASSUME NEW items, Items(items), NEW k \in 1..Len(items), NEW j \in 1..Len(items), k < j
    PROVE  Len(before(items)[k]) + Len(items[k]) < Len(before(items)[j])
<1>0. Len(items) \in Nat
  BY ItemsType
<1>1. j - 1 \in 1..Len(items) /\ k <= j - 1 /\ (j - 1) + 1 = j /\ j - 1 < Len(items)
  BY <1>0
<1> DEFINE m == j - 1
<1> HIDE DEF m
<1>2. m \in 1..Len(items) /\ k <= m /\ m + 1 = j /\ m < Len(items)
  BY <1>1 DEF m
<1>3. /\ Len(UpTo(items, k)) <= Len(UpTo(items, m))
      /\ UpTo(items, k) \in Seq(Nat) /\ UpTo(items, m) \in Seq(Nat)
  BY <1>2, UpToLater DEF Begins
<1>4. /\ before(items)[k] \in Seq(Nat) /\ items[k] \in Seq(Nat)
      /\ before(items)[m] \in Seq(Nat) /\ items[m] \in Seq(Nat)
  BY <1>2, ItemsType, BeforeType
<1>5. /\ Len(UpTo(items, k)) = Len(before(items)[k]) + Len(items[k])
      /\ Len(UpTo(items, m)) = Len(before(items)[m]) + Len(items[m])
  BY <1>4, Joined DEF UpTo
<1>6. Len(before(items)[j]) = Len(before(items)[m]) + Len(items[m]) + 1
  <2>1. before(items)[m + 1] = Followed(before(items)[m], items[m])
    BY <1>2, BeforeNext
  <2>2. Len(Followed(before(items)[m], items[m])) = Len(before(items)[m]) + Len(items[m]) + 1
    BY <1>4, FollowedType
  <2> QED BY <1>2, <2>1, <2>2
<1>7. /\ Len(before(items)[k]) \in Nat /\ Len(items[k]) \in Nat
      /\ Len(before(items)[m]) \in Nat /\ Len(items[m]) \in Nat
  BY <1>4
<1>8. Len(before(items)[k]) + Len(items[k]) <= Len(before(items)[m]) + Len(items[m])
  BY ONLY <1>3, <1>5
<1> DEFINE a == Len(before(items)[k])  b == Len(items[k])  c == Len(before(items)[m])  d == Len(items[m])
           e == Len(before(items)[j])
<1>9. a \in Nat /\ b \in Nat /\ c \in Nat /\ d \in Nat /\ a + b <= c + d /\ e = c + d + 1
  BY ONLY <1>6, <1>7, <1>8
<1> HIDE DEF a, b, c, d, e
<1>10. a + b < e
  BY ONLY <1>9
<1> QED BY ONLY <1>10 DEF a, b, e

\* Items of one length stand at equal distances.
LEMMA BeforeEqual ==
    ASSUME NEW items, Items(items), NEW w \in Nat, \A k \in 1..Len(items) : Len(items[k]) = w,
           NEW k \in 1..Len(items)
    PROVE  Len(before(items)[k]) = (k - 1) * (w + 1)
<1> DEFINE S == {n \in Nat : n + 1 <= Len(items) => Len(before(items)[n + 1]) = n * (w + 1)}
<1>0. Len(items) \in Nat
  BY ItemsType
<1>1. 0 \in S
  <2>1. Len(before(items)[1]) = 0
    BY BeforeFirst, Punctuation
  <2> QED BY <2>1
<1>2. ASSUME NEW n \in Nat, n \in S
      PROVE  n + 1 \in S
  <2> SUFFICES ASSUME (n + 1) + 1 <= Len(items)
               PROVE  Len(before(items)[(n + 1) + 1]) = (n + 1) * (w + 1)
    OBVIOUS
  <2> DEFINE m == n + 1
  <2>1. m \in 1..Len(items) /\ m < Len(items)
    BY <1>0
  <2>2. Len(before(items)[m]) = n * (w + 1)
    BY <1>2, <2>1
  <2> HIDE DEF m
  <2>3. before(items)[m] \in Seq(Nat) /\ items[m] \in Seq(Nat) /\ Len(items[m]) = w
    BY <2>1, ItemsType, BeforeType
  <2>4. before(items)[m + 1] = Followed(before(items)[m], items[m])
    BY <2>1, BeforeNext
  <2>5. Len(Followed(before(items)[m], items[m])) = Len(before(items)[m]) + Len(items[m]) + 1
    BY <2>3, FollowedType
  <2>6. Len(before(items)[m + 1]) = n * (w + 1) + w + 1
    BY <2>2, <2>3, <2>4, <2>5
  <2>7. n * (w + 1) + w + 1 = (n + 1) * (w + 1)
    OBVIOUS
  <2> QED BY <2>6, <2>7 DEF m
<1>3. \A n \in Nat : n \in S
  <2> HIDE DEF S
  <2> QED BY <1>1, <1>2, Induction
<1>4. k - 1 \in Nat /\ (k - 1) + 1 = k /\ k <= Len(items)
  BY <1>0
<1> QED BY <1>3, <1>4

\* A symbol that one item has, at one place, the list has at one place.
LEMMA BeforeOnlyAt ==
    ASSUME NEW items, Items(items), NEW x, NEW f \in 1..Len(items), NEW p \in Int,
           OnlyAt(items[f], x, p),
           \A k \in 1..Len(items) : k # f => \A n \in Int : OnlyAt(items[k], x, n),
           x # Comma, NEW k \in 1..Len(items)
    PROVE  OnlyAt(before(items)[k], x, Len(before(items)[f]) + p)
<1> DEFINE at == Len(before(items)[f]) + p
           S == {n \in Nat : n + 1 <= Len(items) => OnlyAt(before(items)[n + 1], x, at)}
<1>0. Len(items) \in Nat /\ at \in Int
  BY ItemsType, BeforeType
<1>1. 0 \in S
  <2>1. OnlyAt(before(items)[1], x, at)
    BY BeforeFirst, Punctuation DEF OnlyAt
  <2> QED BY <2>1
<1>2. ASSUME NEW n \in Nat, n \in S
      PROVE  n + 1 \in S
  <2> SUFFICES ASSUME (n + 1) + 1 <= Len(items)
               PROVE  OnlyAt(before(items)[(n + 1) + 1], x, at)
    OBVIOUS
  <2> DEFINE m == n + 1
  <2>1. m \in 1..Len(items) /\ m < Len(items)
    BY <1>0
  <2>2. OnlyAt(before(items)[m], x, at)
    BY <1>2, <2>1
  <2> HIDE DEF m
  <2> DEFINE y == before(items)[m]  c == items[m]
  <2>3. y \in Seq(Nat) /\ c \in Seq(Nat) /\ OnlyAt(y, x, at)
    BY <2>1, <2>2, ItemsType, BeforeType
  <2>4. before(items)[m + 1] = Followed(y, c)
    BY <2>1, BeforeNext
  <2>5. OnlyAt(c, x, at - Len(y))
    <3>0. at - Len(y) \in Int
      BY <1>0, <2>3
    <3>1. CASE m = f
      <4>1. at - Len(y) = p
        BY <2>3, <3>1
      <4> QED BY <3>1, <4>1
    <3>2. CASE m # f
      BY <2>1, <3>0, <3>2
    <3> QED BY <3>1, <3>2
  <2> HIDE DEF y, c, at
  <2> DEFINE s == y \o c
  <2>6. s \in Seq(Nat) /\ OnlyAt(s, x, at)
    BY <1>0, <2>3, <2>5, Joined, OnlyAtJoined
  <2> HIDE DEF s
  <2>7. OnlyAt(<<Comma>>, x, at - Len(s))
    BY DEF OnlyAt
  <2>8. OnlyAt(s \o <<Comma>>, x, at)
    BY <1>0, <2>6, <2>7, Punctuation, OnlyAtJoined
  <2> QED BY <2>4, <2>8 DEF Followed, s, m
<1>3. \A n \in Nat : n \in S
  <2> HIDE DEF S
  <2> QED BY <1>1, <1>2, Induction
<1>4. k - 1 \in Nat /\ (k - 1) + 1 = k /\ k <= Len(items)
  BY <1>0
<1> QED BY <1>3, <1>4

LEMMA ListedOnlyAt ==
    ASSUME NEW items, Items(items), NEW x, NEW f \in 1..Len(items), NEW p \in Int,
           OnlyAt(items[f], x, p),
           \A k \in 1..Len(items) : k # f => \A n \in Int : OnlyAt(items[k], x, n),
           x # Comma
    PROVE  OnlyAt(listed(items), x, Len(before(items)[f]) + p)
<1> DEFINE at == Len(before(items)[f]) + p  m == Len(items)
           y == before(items)[m]  c == items[m]
<1>1. m \in 1..Len(items) /\ at \in Int
  BY ItemsType, BeforeType
<1>2. y \in Seq(Nat) /\ c \in Seq(Nat) /\ OnlyAt(y, x, at)
  BY <1>1, ItemsType, BeforeType, BeforeOnlyAt
<1>3. OnlyAt(c, x, at - Len(y))
  <2>0. at - Len(y) \in Int
    BY <1>1, <1>2
  <2>1. CASE m = f
    <3>1. at - Len(y) = p
      BY <1>2, <2>1
    <3> QED BY <2>1, <3>1
  <2>2. CASE m # f
    BY <1>1, <2>0, <2>2
  <2> QED BY <2>1, <2>2
<1> HIDE DEF at, y, c
<1>4. OnlyAt(y \o c, x, at)
  BY <1>1, <1>2, <1>3, OnlyAtJoined
<1> QED BY <1>4 DEF listed, at, y, c

-----------------------------------------------------------------------------
(* Writing and reading pieces.                                             *)

\* A piece stands in a text behind n symbols.
At(s, n, p) == n + Len(p) <= Len(s) /\ \A i \in 1..Len(p) : s[n + i] = p[i]

\* What is written, a piece, and a mark.
Then(w, p, c) == w \o p \o c

Behind(s, w, p, n) ==
    /\ s \in Seq(Nat) /\ w \in Seq(Nat) /\ p \in Seq(Nat)
    /\ Len(s) = Len(w) + Len(p) + n /\ At(s, 0, w) /\ At(s, Len(w), p)

LEMMA AtTrans ==
    ASSUME NEW s \in Seq(Nat), NEW p \in Seq(Nat), NEW r \in Seq(Nat), NEW n \in Nat, NEW m \in Nat,
           At(s, n, p), At(p, m, r)
    PROVE  At(s, n + m, r)
<1>1. (n + m) + Len(r) <= Len(s)
  BY DEF At
<1>2. ASSUME NEW i \in 1..Len(r) PROVE s[(n + m) + i] = r[i]
  <2>4. p[m + i] = r[i] /\ m + Len(r) <= Len(p)
    BY ONLY At(p, m, r), i \in 1..Len(r) DEF At
  <2>5. Len(r) \in Nat /\ Len(p) \in Nat
    BY ONLY r \in Seq(Nat), p \in Seq(Nat)
  <2>0. p[m + i] = r[i] /\ m + Len(r) <= Len(p) /\ Len(r) \in Nat /\ Len(p) \in Nat
    BY ONLY <2>4, <2>5
  <2>3. m + i \in 1..Len(p)
    <3> DEFINE a == Len(r)  b == Len(p)
    <3>1. m + a <= b /\ a \in Nat /\ b \in Nat /\ i \in 1..a
      BY ONLY <2>0, i \in 1..Len(r)
    <3> HIDE DEF a, b
    <3>2. m + i \in 1..b
      BY ONLY <3>1, m \in Nat
    <3> QED BY ONLY <3>2 DEF b
  <2>1. m + i \in 1..Len(p) /\ p[m + i] = r[i]
    BY ONLY <2>0, <2>3
  <2>2. s[n + (m + i)] = p[m + i]
    BY <2>1 DEF At
  <2> QED BY <2>1, <2>2
<1> QED BY <1>1, <1>2 DEF At

LEMMA AtStart ==
    ASSUME NEW s \in Seq(Nat), NEW p \in Seq(Nat), NEW r \in Seq(Nat), NEW m \in Nat,
           At(s, 0, p), At(p, m, r)
    PROVE  At(s, m, r)
<1>1. At(s, 0 + m, r) /\ 0 + m = m
  BY AtTrans
<1> QED BY <1>1

LEMMA AtSelf ==
    ASSUME NEW s \in Seq(Nat)
    PROVE  At(s, 0, s)
  BY DEF At

LEMMA AtReads ==
    ASSUME NEW s \in Seq(Nat), NEW p \in Seq(Nat), NEW n \in Nat, At(s, n, p)
    PROVE  SubSeq(s, n + 1, n + Len(p)) = p
  BY Slice DEF At

LEMMA BeginsAt ==
    ASSUME NEW s \in Seq(Nat), NEW w \in Seq(Nat), NEW p \in Seq(Nat), Begins(s, w \o p)
    PROVE  At(s, 0, w) /\ At(s, Len(w), p)
<1> DEFINE t == w \o p
<1>1. /\ t \in Seq(Nat) /\ Len(t) = Len(w) + Len(p) /\ Len(w) \in Nat /\ Len(p) \in Nat
      /\ \A i \in 1..Len(w) : t[i] = w[i]
      /\ \A i \in 1..Len(p) : t[Len(w) + i] = p[i]
      /\ Begins(s, t)
  BY Joined
<1> HIDE DEF t
<1>2. Len(t) <= Len(s) /\ \A i \in 1..Len(t) : s[i] = t[i]
  BY <1>1 DEF Begins
<1>3. ASSUME NEW i \in 1..Len(w) PROVE s[0 + i] = w[i]
  <2>1. 0 + i = i /\ i \in 1..Len(t)
    BY <1>1
  <2> QED BY <1>1, <1>2, <2>1
<1>4. ASSUME NEW i \in 1..Len(p) PROVE s[Len(w) + i] = p[i]
  <2>1. Len(w) + i \in 1..Len(t)
    BY <1>1
  <2> QED BY <1>1, <1>2, <2>1
<1> QED BY <1>1, <1>2, <1>3, <1>4 DEF At

LEMMA JoinedAt ==
    ASSUME NEW w \in Seq(Nat), NEW p \in Seq(Nat)
    PROVE  Behind(w \o p, w, p, 0)
<1> DEFINE t == w \o p
<1>1. t \in Seq(Nat) /\ Len(t) = Len(w) + Len(p) /\ Len(w) \in Nat /\ Len(p) \in Nat
  BY Joined
<1>2. Begins(t, t)
  BY <1>1, BeginsSelf
<1>3. At(t, 0, w) /\ At(t, Len(w), p)
  BY <1>1, <1>2, BeginsAt
<1> HIDE DEF t
<1>4. Behind(t, w, p, 0)
  BY <1>1, <1>3 DEF Behind
<1> QED BY <1>4 DEF t

LEMMA ThenBehind ==
    ASSUME NEW w \in Seq(Nat), NEW p \in Seq(Nat), NEW c \in Seq(Nat)
    PROVE  Behind(Then(w, p, c), w, p, Len(c))
<1> DEFINE t == w \o p
<1>1. t \in Seq(Nat) /\ Len(t) = Len(w) + Len(p) /\ At(t, 0, w) /\ At(t, Len(w), p)
      /\ Len(w) \in Nat /\ Len(p) \in Nat
  BY JoinedAt DEF Behind
<1> HIDE DEF t
<1> DEFINE s == t \o c
<1>0. Behind(s, t, c, 0)
  BY ONLY <1>1, c \in Seq(Nat), JoinedAt
<1>2. s \in Seq(Nat) /\ Len(s) = Len(t) + Len(c) + 0 /\ At(s, 0, t)
  BY ONLY <1>0 DEF Behind
<1>3. Then(w, p, c) = s
  BY DEF Then, s, t
<1> HIDE DEF s
<1>4. At(s, 0, w) /\ At(s, Len(w), p)
  BY <1>1, <1>2, AtStart
<1>5. Len(s) = Len(w) + Len(p) + Len(c)
  <2>1. Len(c) \in Nat
    OBVIOUS
  <2> QED BY ONLY <1>1, <1>2, <2>1
<1>6. Behind(s, w, p, Len(c))
  BY <1>1, <1>2, <1>4, <1>5 DEF Behind
<1> QED BY <1>3, <1>6

LEMMA ThenAlike ==
    ASSUME NEW q \in BOOLEAN, NEW w \in Seq(Nat), NEW x \in Seq(Nat), NEW p \in Seq(Nat), NEW r \in Seq(Nat),
           NEW c \in Seq(Nat), Alike(q, w, x), Alike(q, p, r)
    PROVE  Alike(q, Then(w, p, c), Then(x, r, c))
<1> DEFINE s == w \o p  t == x \o r
<1>1. s \in Seq(Nat) /\ t \in Seq(Nat) /\ Alike(q, s, t)
  BY Joined, AlikeJoined
<1> HIDE DEF s, t
<1>2. Alike(q, s \o c, t \o c)
  BY <1>1, AlikeSelf, AlikeJoined
<1> QED BY <1>2 DEF Then, s, t

LEMMA ThenOnlyAt ==
    ASSUME NEW w \in Seq(Nat), NEW p \in Seq(Nat), NEW c \in Seq(Nat), NEW x, NEW n \in Int,
           OnlyAt(w, x, n), OnlyAt(p, x, n - Len(w)), \A i \in 1..Len(c) : c[i] # x
    PROVE  OnlyAt(Then(w, p, c), x, n)
<1> DEFINE s == w \o p
<1>1. s \in Seq(Nat) /\ OnlyAt(s, x, n)
  BY Joined, OnlyAtJoined
<1> HIDE DEF s
<1>2. OnlyAt(c, x, n - Len(s))
  BY DEF OnlyAt
<1>3. OnlyAt(s \o c, x, n)
  BY <1>1, <1>2, OnlyAtJoined
<1> QED BY <1>3 DEF Then, s

\* Each item of a list stands behind what was written before it.
LEMMA ListedAt ==
    ASSUME NEW items, Items(items), NEW k \in 1..Len(items)
    PROVE  At(listed(items), Len(before(items)[k]), items[k])
<1>1. before(items)[k] \in Seq(Nat) /\ items[k] \in Seq(Nat) /\ listed(items) \in Seq(Nat)
  BY BeforeType, ItemsType, ListedType
<1>2. Begins(listed(items), before(items)[k] \o items[k])
  BY ListedBegins
<1> QED BY <1>1, <1>2, BeginsAt

-----------------------------------------------------------------------------
(* The pieces of a template.                                               *)

comma == <<Comma>>

open == <<Open>>

quote == <<Quote>>

listOpen == <<ListOpen>>

listClose == <<ListClose, Comma>>

close == <<Close, Close>>

LEMMA Marks ==
    /\ comma \in Seq(Nat) /\ Len(comma) = 1 /\ open \in Seq(Nat) /\ Len(open) = 1
    /\ quote \in Seq(Nat) /\ Len(quote) = 1 /\ listOpen \in Seq(Nat) /\ Len(listOpen) = 1
    /\ listClose \in Seq(Nat) /\ Len(listClose) = 2 /\ close \in Seq(Nat) /\ Len(close) = 2
  BY DEF comma, open, quote, listOpen, listClose, close, Comma, Open, Quote, ListOpen, ListClose, Close

LEMMA ByteSymbols ==
    ASSUME NEW s \in Seq(Byte)
    PROVE  s \in Seq(Nat)
<1>1. Byte \subseteq Nat
  BY DEF Byte
<1> QED BY <1>1, SeqMonotonic

LEMMA KeyType ==
    ASSUME NEW name \in Nat
    PROVE  /\ key(name) \in Seq(Nat) /\ Len(key(name)) = 4
           /\ key(name)[1] = Quote /\ key(name)[2] = name /\ key(name)[3] = Quote /\ key(name)[4] = Colon
  BY DEF key, Quote, Colon

LEMMA StringType ==
    ASSUME NEW value \in Seq(Nat)
    PROVE  /\ string(value) \in Seq(Nat) /\ Len(string(value)) = Len(value) + 2
           /\ At(string(value), 0, quote) /\ At(string(value), 1, value)
           /\ string(value) = Then(quote, value, quote)
<1>1. string(value) = Then(quote, value, quote)
  BY DEF string, Then, quote
<1>2. Behind(Then(quote, value, quote), quote, value, Len(quote))
  BY Marks, ThenBehind
<1>3. Len(quote) = 1 /\ Len(value) \in Nat
  BY Marks
<1> QED BY <1>1, <1>2, <1>3 DEF Behind

LEMMA MemberType ==
    ASSUME NEW name \in Nat, NEW value \in Seq(Nat)
    PROVE  /\ member(name, value) \in Seq(Nat) /\ Len(member(name, value)) = Len(value) + 6
           /\ At(member(name, value), 0, key(name)) /\ At(member(name, value), 4, quote)
           /\ At(member(name, value), 5, value)
<1>0. string(value) \in Seq(Nat) /\ Len(string(value)) = Len(value) + 2
  BY StringType
<1>1. /\ key(name) \in Seq(Nat) /\ string(value) \in Seq(Nat) /\ quote \in Seq(Nat)
      /\ Len(key(name)) = 4 /\ Len(string(value)) = Len(value) + 2 /\ Len(value) \in Nat
  <2>1. key(name) \in Seq(Nat) /\ Len(key(name)) = 4
    BY KeyType
  <2>2. quote \in Seq(Nat)
    BY Marks
  <2>3. Len(value) \in Nat
    OBVIOUS
  <2> QED BY ONLY <1>0, <2>1, <2>2, <2>3
<1> DEFINE m == member(name, value)
<1>2. Behind(m, key(name), string(value), 0)
  BY <1>1, JoinedAt DEF member
<1> HIDE DEF m
<1>3. m \in Seq(Nat) /\ At(m, 0, key(name)) /\ At(m, 4, string(value)) /\ Len(m) = Len(value) + 6
  BY <1>1, <1>2 DEF Behind
<1>4. At(m, 4 + 1, value) /\ At(m, 4 + 0, quote)
  BY <1>1, <1>3, StringType, AtTrans
<1>5. 4 + 1 = 5 /\ 4 + 0 = 4
  OBVIOUS
<1> QED BY <1>3, <1>4, <1>5 DEF m

\* What a value must be to be written: bytes, not too many, and no quote.
Fitting(x, w) == x \in Text /\ Len(x) <= w /\ \A i \in 1..Len(x) : x[i] # Quote

LEMMA PadType ==
    ASSUME NEW l, l.padding \in Text, Len(l.padding) = 1, NEW x, NEW w \in Nat, Fitting(x, w)
    PROVE  /\ pad(l, x, w) \in Seq(Nat) /\ Len(pad(l, x, w)) = w
           /\ \A i \in 1..w : pad(l, x, w)[i] \in Byte
           /\ \A i \in 1..Len(x) : pad(l, x, w)[i] = x[i]
           /\ \A i \in 1..w : i > Len(x) => pad(l, x, w)[i] = l.padding[1]
<1> DEFINE c == l.padding[1]
<1>1. c \in Byte /\ x \in Seq(Byte) /\ Len(x) <= w /\ Len(x) \in Nat
  BY DEF Text, Fitting
<1> HIDE DEF c
<1> DEFINE f == [i \in 1..(w - Len(x)) |-> c]
<1>2. w - Len(x) \in Nat
  BY <1>1
<1>3. f \in Seq(Byte) /\ Len(f) = w - Len(x) /\ \A i \in 1..(w - Len(x)) : f[i] = c
  BY <1>1, <1>2
<1> HIDE DEF f
<1>4. pad(l, x, w) = x \o f
  BY DEF pad, f, c
<1>5. /\ x \o f \in Seq(Byte) /\ Len(x \o f) = Len(x) + Len(f)
      /\ \A i \in 1..(Len(x) + Len(f)) : (x \o f)[i] = IF i <= Len(x) THEN x[i] ELSE f[i - Len(x)]
  BY <1>1, <1>3, ConcatProperties
<1>6. Len(x) + Len(f) = w
  BY <1>1, <1>2, <1>3
<1>7. \A i \in 1..w : i > Len(x) => (x \o f)[i] = c
  BY <1>1, <1>2, <1>3, <1>5, <1>6
<1>8. \A i \in 1..Len(x) : (x \o f)[i] = x[i]
  BY <1>1, <1>5, <1>6
<1> DEFINE y == x \o f
<1>9. y \in Seq(Byte) /\ Len(y) = w
  BY <1>5, <1>6
<1> HIDE DEF y
<1>10. y \in Seq(Nat)
  BY <1>9, ByteSymbols
<1>11. \A i \in 1..w : y[i] \in Byte
  BY <1>9
<1> QED BY <1>4, <1>5, <1>6, <1>7, <1>8, <1>10, <1>11 DEF c, y

\* The padding is no quote: then no padded value has one.
Blankable(l) == l.padding # <<Quote>>

LEMMA PadAlike ==
    ASSUME NEW l, l.padding \in Text, Len(l.padding) = 1, NEW w \in Nat,
           NEW x, Fitting(x, w), NEW y, Fitting(y, w)
    PROVE  Alike(Blankable(l), pad(l, x, w), pad(l, y, w))
<1>1. Blankable(l) => l.padding[1] # Quote
  <2> SUFFICES ASSUME l.padding[1] = Quote
               PROVE  l.padding = <<Quote>>
    BY DEF Blankable
  <2>1. l.padding \in Seq(Nat)
    BY ByteSymbols DEF Text
  <2>2. quote \in Seq(Nat) /\ Len(quote) = 1 /\ quote[1] = Quote
    BY Marks DEF quote
  <2>3. l.padding = quote
    BY <2>1, <2>2, SeqEqual
  <2> QED BY <2>3 DEF quote
<1>2. ASSUME NEW z, Fitting(z, w), Blankable(l), NEW i \in 1..w
      PROVE  pad(l, z, w)[i] # Quote
  <2>1. CASE i <= Len(z)
    <3>1. i \in 1..Len(z)
      BY <1>2, <2>1 DEF Fitting, Text
    <3>2. pad(l, z, w)[i] = z[i]
      BY <1>2, <3>1, PadType
    <3> QED BY <1>2, <3>1, <3>2 DEF Fitting
  <2>2. CASE i > Len(z)
    <3>1. pad(l, z, w)[i] = l.padding[1]
      BY <1>2, <2>2, PadType
    <3> QED BY <1>1, <1>2, <3>1
  <2>3. Len(z) \in Nat
    BY <1>2 DEF Fitting, Text
  <2> QED BY <2>1, <2>2, <2>3
<1>3. Len(pad(l, x, w)) = w /\ Len(pad(l, y, w)) = w
  BY PadType
<1> QED BY <1>2, <1>3 DEF Alike

LEMMA MemberAlike ==
    ASSUME NEW q \in BOOLEAN, NEW name \in Nat, NEW a \in Seq(Nat), NEW b \in Seq(Nat), Alike(q, a, b)
    PROVE  Alike(q, string(a), string(b)) /\ Alike(q, member(name, a), member(name, b))
<1>1. Alike(q, Then(quote, a, quote), Then(quote, b, quote))
  BY Marks, AlikeSelf, ThenAlike
<1>2. Alike(q, string(a), string(b))
  BY <1>1, StringType
<1>3. Alike(q, key(name) \o string(a), key(name) \o string(b))
  BY <1>2, KeyType, StringType, AlikeSelf, AlikeJoined
<1> QED BY <1>2, <1>3 DEF member

-----------------------------------------------------------------------------
(* The head.                                                               *)

oneDigit(i) == <<Zero + i>>

digitMore(x, i) == x \o <<Zero + (i % 10)>>

Decimal(g, n) ==
    g = [i \in 0..n |-> IF i < 10 THEN oneDigit(i) ELSE digitMore(g[i \div 10], i)]

LEMMA DecimalExists ==
    \A n \in Nat : \E g : Decimal(g, n)
<1> DEFINE S == {n \in Nat : \E g : Decimal(g, n)}
<1>1. 0 \in S
  <2>1. Decimal([i \in 0..0 |-> IF i < 10 THEN oneDigit(i) ELSE <<>>], 0)
    BY DEF Decimal
  <2> QED BY <2>1
<1>2. ASSUME NEW n \in Nat, n \in S
      PROVE  n + 1 \in S
  <2>1. PICK g : Decimal(g, n)
    BY <1>2
  <2> DEFINE m == n + 1
             h == [i \in 0..m |->
                    IF i = m THEN (IF m < 10 THEN oneDigit(m) ELSE digitMore(g[m \div 10], m)) ELSE g[i]]
  <2>2. \A i \in 0..n : g[i] = IF i < 10 THEN oneDigit(i) ELSE digitMore(g[i \div 10], i)
    BY <2>1 DEF Decimal
  <2>3. \A i \in 0..m : i >= 10 => i \div 10 \in 0..n
    OBVIOUS
  <2>4. \A i \in 0..n : h[i] = g[i]
    OBVIOUS
  <2>5. \A i \in 0..m : h[i] = IF i < 10 THEN oneDigit(i) ELSE digitMore(h[i \div 10], i)
    <3> TAKE i \in 0..m
    <3>1. CASE i < 10
      BY <2>2, <3>1
    <3>2. CASE i >= 10
      <4>1. i \div 10 \in 0..n /\ h[i \div 10] = g[i \div 10]
        BY <2>3, <2>4, <3>2
      <4>2. CASE i = m
        BY <3>2, <4>1, <4>2
      <4>3. CASE i # m
        <5>1. i \in 0..n
          BY <4>3
        <5> QED BY <2>2, <2>4, <3>2, <4>1, <5>1
      <4> QED BY <4>2, <4>3
    <3> QED BY <3>1, <3>2
  <2>6. Decimal(h, m)
    BY <2>5 DEF Decimal
  <2> QED BY <2>6
<1>3. \A n \in Nat : n \in S
  <2> HIDE DEF S
  <2> QED BY <1>1, <1>2, Induction
<1> QED BY <1>3

\* A length is written in bytes.
LEMMA DigitsType ==
    ASSUME NEW n \in Nat
    PROVE  digits(n) \in Seq(Byte)
<1> DEFINE t == CHOOSE g : g = [i \in 0..n |->
                    IF i < 10 THEN oneDigit(i) ELSE digitMore(g[i \div 10], i)]
<1>1. \E g : g = [i \in 0..n |-> IF i < 10 THEN oneDigit(i) ELSE digitMore(g[i \div 10], i)]
  BY DecimalExists DEF Decimal
<1>2. t = [i \in 0..n |-> IF i < 10 THEN oneDigit(i) ELSE digitMore(t[i \div 10], i)]
  BY <1>1
<1>3. digits(n) = t[n]
  BY DEF digits, oneDigit, digitMore
<1> HIDE DEF t
<1> DEFINE S == {m \in Nat : \A i \in 0..m : i <= n => t[i] \in Seq(Byte)}
<1>4. \A x \in 0..9 : <<Zero + x>> \in Seq(Byte)
  BY DEF Zero, Byte
<1>5. ASSUME NEW i \in 0..n, i < 10
      PROVE  t[i] \in Seq(Byte)
  <2>1. t[i] = oneDigit(i)
    BY <1>2, <1>5
  <2>2. i \in 0..9
    BY <1>5
  <2> QED BY <1>4, <2>1, <2>2 DEF oneDigit
<1>6. 0 \in S
  BY <1>5
<1>7. ASSUME NEW m \in Nat, m \in S
      PROVE  m + 1 \in S
  <2> SUFFICES ASSUME m + 1 <= n, m + 1 >= 10
               PROVE  t[m + 1] \in Seq(Byte)
    BY <1>5, <1>7
  <2> DEFINE d == (m + 1) \div 10
  <2>1. d \in 0..m /\ d <= n /\ (m + 1) % 10 \in 0..9 /\ m + 1 \in 0..n
    OBVIOUS
  <2>2. t[m + 1] = digitMore(t[d], m + 1)
    BY <1>2, <2>1
  <2>3. t[d] \in Seq(Byte)
    BY <1>7, <2>1
  <2>4. <<Zero + ((m + 1) % 10)>> \in Seq(Byte)
    BY <1>4, <2>1
  <2> HIDE DEF d
  <2>5. t[d] \o <<Zero + ((m + 1) % 10)>> \in Seq(Byte)
    BY <2>3, <2>4, ConcatProperties
  <2> QED BY <2>2, <2>5 DEF digitMore
<1>8. \A m \in Nat : m \in S
  <2> HIDE DEF S
  <2> QED BY <1>6, <1>7, Induction
<1>9. t[n] \in Seq(Byte)
  <2>1. n \in S /\ n \in 0..n /\ n <= n
    BY <1>8
  <2> QED BY <2>1
<1> QED BY <1>3, <1>9

\* The head holds the status line and the content type at its start, and no name.
headStart == <<STATUS_LINE, CRLF, CONTENT_TYPE, CRLF, CONTENT_LENGTH>>

LEMMA HeadType ==
    ASSUME NEW n \in Nat
    PROVE  /\ head(n) \in Seq(Nat \ Names) /\ head(n) \in Seq(Nat) /\ Begins(head(n), headStart)
           /\ headStart \in Seq(Nat) /\ Len(headStart) = 5
<1> DEFINE T == Nat \ Names
           d == digits(n)
           b == <<CRLF, CONNECTION, CRLF, CRLF>>
<1>0. /\ 401 \in T /\ 402 \in T /\ 403 \in T /\ 404 \in T /\ 405 \in T
      /\ Byte \subseteq T /\ T \subseteq Nat
  BY DEF Names, Byte
<1> HIDE DEF T
<1>1. headStart \in Seq(T) /\ Len(headStart) = 5
  BY <1>0 DEF headStart, STATUS_LINE, CRLF, CONTENT_TYPE, CONTENT_LENGTH
<1>2. b \in Seq(T)
  BY <1>0 DEF CRLF, CONNECTION
<1>3. d \in Seq(T)
  BY <1>0, DigitsType, SeqMonotonic
<1> HIDE DEF b, d
<1> DEFINE c == headStart \o d
<1>4. c \in Seq(T)
  BY <1>1, <1>3, ConcatProperties
<1>5. headStart \in Seq(Nat) /\ d \in Seq(Nat) /\ b \in Seq(Nat)
  BY <1>0, <1>1, <1>2, <1>3, SeqMonotonic
<1>6. c \in Seq(Nat) /\ Begins(c, headStart)
  BY <1>5, Joined, BeginsWith
<1> HIDE DEF c
<1>7. head(n) = c \o b
  BY DEF head, headStart, b, c, d
<1>8. c \o b \in Seq(T)
  BY <1>2, <1>4, ConcatProperties
<1>9. c \o b \in Seq(Nat) /\ Begins(c \o b, c)
  BY <1>5, <1>6, Joined, BeginsWith
<1> QED BY <1>1, <1>5, <1>6, <1>7, <1>8, <1>9, BeginsTrans DEF T

-----------------------------------------------------------------------------
(* The start of every record.                                              *)

accountOf(l, v) == pad(l, v.account, l.account_width)

\* A layout with one padding character, and an account that fits.
AccountFits(l, v) ==
    /\ l.padding \in Text /\ Len(l.padding) = 1
    /\ l.account_width \in Nat /\ Fitting(v.account, l.account_width)

LEMMA KeyNames ==
    /\ KEY_ACCOUNT \in Names /\ KEY_RECORD \in Names /\ KEY_PROPERTY_ID \in Names /\ KEY_OWNERS \in Names
    /\ KEY_ENCUMBRANCE \in Names /\ KEY_ASSESSED_VALUE \in Names /\ KEY_RECORD_DATE \in Names
    /\ Names \subseteq Nat
    /\ KEY_ACCOUNT \in Nat /\ KEY_RECORD \in Nat /\ KEY_PROPERTY_ID \in Nat /\ KEY_OWNERS \in Nat
    /\ KEY_ENCUMBRANCE \in Nat /\ KEY_ASSESSED_VALUE \in Nat /\ KEY_RECORD_DATE \in Nat
  BY DEF Names, KEY_ACCOUNT, KEY_RECORD, KEY_PROPERTY_ID, KEY_OWNERS, KEY_ENCUMBRANCE,
         KEY_ASSESSED_VALUE, KEY_RECORD_DATE

LEMMA AccountType ==
    ASSUME NEW l, NEW v, AccountFits(l, v)
    PROVE  accountOf(l, v) \in Seq(Nat) /\ Len(accountOf(l, v)) = l.account_width
  BY PadType DEF AccountFits, accountOf

LEMMA AccountAlike ==
    ASSUME NEW l, NEW v, NEW u, AccountFits(l, v), AccountFits(l, u)
    PROVE  Alike(Blankable(l), accountOf(l, v), accountOf(l, u))
  BY PadAlike DEF AccountFits, accountOf

\* A member and a comma behind what is written.
LEMMA MemberBehind ==
    ASSUME NEW w \in Seq(Nat), NEW name \in Nat, NEW value \in Seq(Nat), NEW c \in Seq(Nat)
    PROVE  Behind(Then(w, member(name, value), c), w, member(name, value), Len(c))
<1>1. member(name, value) \in Seq(Nat)
  BY MemberType
<1> QED BY <1>1, ThenBehind

LEMMA ToRecordBehind ==
    ASSUME NEW l, NEW v, AccountFits(l, v)
    PROVE  /\ toAccount = open /\ toRecord(l, v) = Then(toAccount, member(KEY_ACCOUNT, accountOf(l, v)), comma)
           /\ Behind(toRecord(l, v), toAccount, member(KEY_ACCOUNT, accountOf(l, v)), 1)
<1>1. toAccount = open /\ toRecord(l, v) = Then(toAccount, member(KEY_ACCOUNT, accountOf(l, v)), comma)
  BY DEF toRecord, toAccount, open, comma, Then, accountOf
<1>2. accountOf(l, v) \in Seq(Nat) /\ KEY_ACCOUNT \in Nat /\ open \in Seq(Nat) /\ comma \in Seq(Nat) /\ Len(comma) = 1
  BY AccountType, KeyNames, Marks
<1>3. Behind(Then(open, member(KEY_ACCOUNT, accountOf(l, v)), comma), open,
             member(KEY_ACCOUNT, accountOf(l, v)), Len(comma))
  BY ONLY <1>2, MemberBehind
<1> QED BY ONLY <1>1, <1>2, <1>3

LEMMA ToFieldsBehind ==
    ASSUME NEW l, NEW v, AccountFits(l, v)
    PROVE  /\ toFields(l, v) = Then(toRecord(l, v), key(KEY_RECORD), open)
           /\ Behind(toFields(l, v), toRecord(l, v), key(KEY_RECORD), 1)
<1>1. toFields(l, v) = Then(toRecord(l, v), key(KEY_RECORD), open)
  BY DEF toFields, open, Then
<1>2. toRecord(l, v) \in Seq(Nat)
  BY ToRecordBehind DEF Behind
<1>3. key(KEY_RECORD) \in Seq(Nat) /\ open \in Seq(Nat) /\ Len(open) = 1
  BY KeyType, KeyNames, Marks
<1>4. Behind(Then(toRecord(l, v), key(KEY_RECORD), open), toRecord(l, v), key(KEY_RECORD), Len(open))
  BY ONLY <1>2, <1>3, ThenBehind
<1> QED BY ONLY <1>1, <1>3, <1>4

LEMMA ToFieldsAlike ==
    ASSUME NEW l, NEW v, NEW u, AccountFits(l, v), AccountFits(l, u)
    PROVE  /\ Alike(Blankable(l), toRecord(l, v), toRecord(l, u))
           /\ Alike(Blankable(l), toFields(l, v), toFields(l, u))
<1> DEFINE q == Blankable(l)
           a == member(KEY_ACCOUNT, accountOf(l, v))  b == member(KEY_ACCOUNT, accountOf(l, u))
<1>0. q \in BOOLEAN
  BY DEF Blankable
<1>1. /\ accountOf(l, v) \in Seq(Nat) /\ accountOf(l, u) \in Seq(Nat) /\ KEY_ACCOUNT \in Nat
      /\ Alike(q, accountOf(l, v), accountOf(l, u))
  BY AccountType, AccountAlike, KeyNames
<1> HIDE DEF q
<1>2. a \in Seq(Nat) /\ b \in Seq(Nat) /\ Alike(q, a, b)
  BY <1>0, <1>1, MemberType, MemberAlike
<1>3. toRecord(l, v) = Then(open, a, comma) /\ toRecord(l, u) = Then(open, b, comma)
      /\ toRecord(l, v) \in Seq(Nat) /\ toRecord(l, u) \in Seq(Nat)
  BY ToRecordBehind DEF Behind
<1> HIDE DEF a, b
<1>4. open \in Seq(Nat) /\ comma \in Seq(Nat) /\ key(KEY_RECORD) \in Seq(Nat)
  BY Marks, KeyType, KeyNames
<1>5. Alike(q, open, open) /\ Alike(q, key(KEY_RECORD), key(KEY_RECORD))
  BY ONLY <1>0, <1>4, AlikeSelf
<1>6. Alike(q, toRecord(l, v), toRecord(l, u))
  <2>1. Alike(q, Then(open, a, comma), Then(open, b, comma))
    BY ONLY <1>0, <1>2, <1>4, <1>5, ThenAlike
  <2> QED BY ONLY <1>3, <2>1
<1>7. Alike(q, toFields(l, v), toFields(l, u))
  <2>1. Alike(q, Then(toRecord(l, v), key(KEY_RECORD), open), Then(toRecord(l, u), key(KEY_RECORD), open))
    BY ONLY <1>0, <1>3, <1>4, <1>5, <1>6, ThenAlike
  <2> QED BY ToFieldsBehind, <2>1
<1> QED BY <1>6, <1>7 DEF q

-----------------------------------------------------------------------------
(* The title record.                                                       *)

LoadedTitle(l) == l \in TitleLayout /\ validTitle(l)

TitleFits(l, v) ==
    /\ Fitting(v.account, l.account_width) /\ Fitting(v.property_id, l.property_id_width)
    /\ \A k \in 1..l.owner_slots : Fitting(owner(v, k), l.account_width)
    /\ \A k \in 1..3 : Fitting(v.rest[k], l.rest_widths[k])

propertyOf(l, v) == pad(l, v.property_id, l.property_id_width)

restOf(l, v, k) == pad(l, v.rest[k], l.rest_widths[k])

ownerOf(l, v, k) == pad(l, owner(v, k), l.account_width)

LEMMA TitleNumbers ==
    ASSUME NEW l, LoadedTitle(l)
    PROVE  /\ l.padding \in Text /\ Len(l.padding) = 1 /\ l.kind = "title"
           /\ l.account_width \in Nat /\ l.account_width > 0 /\ l.property_id_width \in Nat
           /\ l.property_id_width > 0 /\ l.owner_slots \in Nat /\ l.owner_slots > 0
           /\ 1 \in 1..l.owner_slots /\ l.owner_slots \in 1..l.owner_slots
           /\ \A k \in 1..3 : l.rest_widths[k] \in Nat
  BY DEF LoadedTitle, TitleLayout, validTitle, paddingIsOneAscii

LEMMA TitlePads ==
    ASSUME NEW l, LoadedTitle(l), NEW v, TitleFits(l, v)
    PROVE  /\ AccountFits(l, v)
           /\ propertyOf(l, v) \in Seq(Nat) /\ Len(propertyOf(l, v)) = l.property_id_width
           /\ \A k \in 1..l.owner_slots :
                ownerOf(l, v, k) \in Seq(Nat) /\ Len(ownerOf(l, v, k)) = l.account_width
           /\ \A k \in 1..3 : restOf(l, v, k) \in Seq(Nat) /\ Len(restOf(l, v, k)) = l.rest_widths[k]
<1>1. AccountFits(l, v)
  BY TitleNumbers DEF AccountFits, TitleFits
<1>2. propertyOf(l, v) \in Seq(Nat) /\ Len(propertyOf(l, v)) = l.property_id_width
  BY TitleNumbers, PadType DEF TitleFits, propertyOf
<1>3. ASSUME NEW k \in 1..l.owner_slots
      PROVE  ownerOf(l, v, k) \in Seq(Nat) /\ Len(ownerOf(l, v, k)) = l.account_width
  BY TitleNumbers, PadType DEF TitleFits, ownerOf
<1>4. ASSUME NEW k \in 1..3
      PROVE  restOf(l, v, k) \in Seq(Nat) /\ Len(restOf(l, v, k)) = l.rest_widths[k]
  <2>1. l.padding \in Text /\ Len(l.padding) = 1 /\ l.rest_widths[k] \in Nat
    BY ONLY k \in 1..3, LoadedTitle(l), TitleNumbers
  <2>2. Fitting(v.rest[k], l.rest_widths[k])
    BY ONLY k \in 1..3, TitleFits(l, v) DEF TitleFits
  <2> QED BY ONLY <2>1, <2>2, PadType DEF restOf
<1> QED BY <1>1, <1>2, <1>3, <1>4

LEMMA TitlePadsAlike ==
    ASSUME NEW l, LoadedTitle(l), NEW v, TitleFits(l, v), NEW u, TitleFits(l, u)
    PROVE  /\ Alike(Blankable(l), propertyOf(l, v), propertyOf(l, u))
           /\ \A k \in 1..l.owner_slots : Alike(Blankable(l), ownerOf(l, v, k), ownerOf(l, u, k))
           /\ \A k \in 1..3 : Alike(Blankable(l), restOf(l, v, k), restOf(l, u, k))
<1>1. Alike(Blankable(l), propertyOf(l, v), propertyOf(l, u))
  BY TitleNumbers, PadAlike DEF TitleFits, propertyOf
<1>2. ASSUME NEW k \in 1..l.owner_slots
      PROVE  Alike(Blankable(l), ownerOf(l, v, k), ownerOf(l, u, k))
  BY TitleNumbers, PadAlike DEF TitleFits, ownerOf
<1>3. ASSUME NEW k \in 1..3
      PROVE  Alike(Blankable(l), restOf(l, v, k), restOf(l, u, k))
  BY TitleNumbers, PadAlike DEF TitleFits, restOf
<1> QED BY <1>1, <1>2, <1>3

LEMMA SlotsType ==
    ASSUME NEW l, LoadedTitle(l), NEW v, TitleFits(l, v)
    PROVE  /\ Items(slots(l, v)) /\ Len(slots(l, v)) = l.owner_slots
           /\ \A k \in 1..l.owner_slots : slots(l, v)[k] = string(ownerOf(l, v, k))
           /\ \A k \in 1..l.owner_slots : Len(slots(l, v)[k]) = l.account_width + 2
<1>1. l.owner_slots \in Nat /\ l.owner_slots > 0
  BY TitleNumbers
<1> DEFINE n == l.owner_slots  g == [k \in 1..n |-> string(ownerOf(l, v, k))]
<1>2. slots(l, v) = g
  BY DEF slots, ownerOf
<1>3. ASSUME NEW k \in 1..n
      PROVE  string(ownerOf(l, v, k)) \in Seq(Nat) /\ Len(string(ownerOf(l, v, k))) = l.account_width + 2
  <2>1. ownerOf(l, v, k) \in Seq(Nat) /\ Len(ownerOf(l, v, k)) = l.account_width
    BY TitlePads
  <2> QED BY ONLY <2>1, StringType
<1>4. g \in Seq(Seq(Nat)) /\ Len(g) = n /\ \A k \in 1..n : g[k] = string(ownerOf(l, v, k))
  BY <1>1, <1>3
<1>5. Items(g)
  <2> HIDE DEF g
  <2> QED BY <1>1, <1>4 DEF Items
<1> HIDE DEF g
<1> QED BY <1>2, <1>3, <1>4, <1>5

LEMMA SlotsAlike ==
    ASSUME NEW l, LoadedTitle(l), NEW v, TitleFits(l, v), NEW u, TitleFits(l, u)
    PROVE  /\ Alike(Blankable(l), listed(slots(l, v)), listed(slots(l, u)))
           /\ \A k \in 1..l.owner_slots : Len(before(slots(l, v))[k]) = Len(before(slots(l, u))[k])
<1> DEFINE q == Blankable(l)  a == slots(l, v)  b == slots(l, u)
<1>0. q \in BOOLEAN
  BY DEF Blankable
<1>1. Items(a) /\ Items(b) /\ Len(a) = l.owner_slots /\ Len(b) = l.owner_slots
  BY SlotsType
<1>2. ASSUME NEW k \in 1..l.owner_slots PROVE Alike(q, a[k], b[k])
  <2>1. a[k] = string(ownerOf(l, v, k)) /\ b[k] = string(ownerOf(l, u, k))
    BY SlotsType
  <2>2. /\ ownerOf(l, v, k) \in Seq(Nat) /\ ownerOf(l, u, k) \in Seq(Nat)
        /\ Alike(q, ownerOf(l, v, k), ownerOf(l, u, k))
    BY TitlePads, TitlePadsAlike
  <2>3. Alike(q, string(ownerOf(l, v, k)), string(ownerOf(l, u, k)))
    BY ONLY <1>0, <2>2, MemberAlike, KeyNames
  <2> QED BY ONLY <2>1, <2>3
<1> HIDE DEF q, a, b
<1>3. Alike(q, listed(a), listed(b))
  BY <1>0, <1>1, <1>2, ListedAlike
<1>4. ASSUME NEW k \in 1..l.owner_slots PROVE Alike(q, before(a)[k], before(b)[k])
  BY <1>0, <1>1, <1>2, BeforeAlike
<1>5. ASSUME NEW k \in 1..l.owner_slots PROVE Len(before(a)[k]) = Len(before(b)[k])
  BY <1>4 DEF Alike
<1> QED BY <1>3, <1>5 DEF q, a, b

LEMMA TitleSteps ==
    ASSUME NEW l, LoadedTitle(l), NEW v, TitleFits(l, v)
    PROVE  /\ toOwners(l, v) = Then(toFields(l, v), member(KEY_PROPERTY_ID, propertyOf(l, v)), comma)
           /\ toSlots(l, v) = Then(toOwners(l, v), key(KEY_OWNERS), listOpen)
           /\ toEncumbrance(l, v) = Then(toSlots(l, v), listed(slots(l, v)), listClose)
           /\ toAssessedValue(l, v) = Then(toEncumbrance(l, v), member(KEY_ENCUMBRANCE, restOf(l, v, 1)), comma)
           /\ toRecordDate(l, v) = Then(toAssessedValue(l, v), member(KEY_ASSESSED_VALUE, restOf(l, v, 2)), comma)
           /\ titleBody(l, v) = Then(toRecordDate(l, v), member(KEY_RECORD_DATE, restOf(l, v, 3)), close)
  BY DEF toOwners, toSlots, toEncumbrance, toAssessedValue, toRecordDate, titleBody, propertyOf, restOf,
         Then, comma, listOpen, listClose, close

LEMMA TitleTypes ==
    ASSUME NEW l, LoadedTitle(l), NEW v, TitleFits(l, v)
    PROVE  /\ Behind(toRecord(l, v), toAccount, member(KEY_ACCOUNT, accountOf(l, v)), 1)
           /\ Behind(toFields(l, v), toRecord(l, v), key(KEY_RECORD), 1)
           /\ Behind(toOwners(l, v), toFields(l, v), member(KEY_PROPERTY_ID, propertyOf(l, v)), 1)
           /\ Behind(toSlots(l, v), toOwners(l, v), key(KEY_OWNERS), 1)
           /\ Behind(toEncumbrance(l, v), toSlots(l, v), listed(slots(l, v)), 2)
           /\ Behind(toAssessedValue(l, v), toEncumbrance(l, v), member(KEY_ENCUMBRANCE, restOf(l, v, 1)), 1)
           /\ Behind(toRecordDate(l, v), toAssessedValue(l, v), member(KEY_ASSESSED_VALUE, restOf(l, v, 2)), 1)
           /\ Behind(titleBody(l, v), toRecordDate(l, v), member(KEY_RECORD_DATE, restOf(l, v, 3)), 2)
<1>1. AccountFits(l, v)
  BY TitlePads
<1>2. /\ Behind(toRecord(l, v), toAccount, member(KEY_ACCOUNT, accountOf(l, v)), 1)
      /\ Behind(toFields(l, v), toRecord(l, v), key(KEY_RECORD), 1) /\ toFields(l, v) \in Seq(Nat)
  BY <1>1, ToRecordBehind, ToFieldsBehind DEF Behind
<1>3. /\ comma \in Seq(Nat) /\ Len(comma) = 1 /\ listOpen \in Seq(Nat) /\ Len(listOpen) = 1
      /\ listClose \in Seq(Nat) /\ Len(listClose) = 2 /\ close \in Seq(Nat) /\ Len(close) = 2
  BY Marks
<1>4. /\ KEY_PROPERTY_ID \in Nat /\ KEY_OWNERS \in Nat
      /\ KEY_ENCUMBRANCE \in Nat /\ KEY_ASSESSED_VALUE \in Nat /\ KEY_RECORD_DATE \in Nat
  BY KeyNames
<1>5. /\ propertyOf(l, v) \in Seq(Nat) /\ restOf(l, v, 1) \in Seq(Nat) /\ restOf(l, v, 2) \in Seq(Nat)
      /\ restOf(l, v, 3) \in Seq(Nat)
  BY TitlePads
<1>6. key(KEY_OWNERS) \in Seq(Nat)
  BY <1>4, KeyType
<1>7. listed(slots(l, v)) \in Seq(Nat)
  BY SlotsType, ListedType
<1>8. Behind(toOwners(l, v), toFields(l, v), member(KEY_PROPERTY_ID, propertyOf(l, v)), 1)
  <2>1. Behind(Then(toFields(l, v), member(KEY_PROPERTY_ID, propertyOf(l, v)), comma), toFields(l, v),
               member(KEY_PROPERTY_ID, propertyOf(l, v)), Len(comma))
    BY ONLY <1>2, <1>3, <1>4, <1>5, MemberBehind
  <2> QED BY TitleSteps, <1>3, <2>1
<1>9. toOwners(l, v) \in Seq(Nat)
  BY ONLY <1>8 DEF Behind
<1>10. Behind(toSlots(l, v), toOwners(l, v), key(KEY_OWNERS), 1)
  <2>1. Behind(Then(toOwners(l, v), key(KEY_OWNERS), listOpen), toOwners(l, v), key(KEY_OWNERS), Len(listOpen))
    BY ONLY <1>3, <1>6, <1>9, ThenBehind
  <2> QED BY TitleSteps, <1>3, <2>1
<1>11. toSlots(l, v) \in Seq(Nat)
  BY ONLY <1>10 DEF Behind
<1>12. Behind(toEncumbrance(l, v), toSlots(l, v), listed(slots(l, v)), 2)
  <2>1. Behind(Then(toSlots(l, v), listed(slots(l, v)), listClose), toSlots(l, v), listed(slots(l, v)),
               Len(listClose))
    BY ONLY <1>3, <1>7, <1>11, ThenBehind
  <2> QED BY TitleSteps, <1>3, <2>1
<1>13. toEncumbrance(l, v) \in Seq(Nat)
  BY ONLY <1>12 DEF Behind
<1>14. Behind(toAssessedValue(l, v), toEncumbrance(l, v), member(KEY_ENCUMBRANCE, restOf(l, v, 1)), 1)
  <2>1. Behind(Then(toEncumbrance(l, v), member(KEY_ENCUMBRANCE, restOf(l, v, 1)), comma), toEncumbrance(l, v),
               member(KEY_ENCUMBRANCE, restOf(l, v, 1)), Len(comma))
    BY ONLY <1>3, <1>4, <1>5, <1>13, MemberBehind
  <2> QED BY TitleSteps, <1>3, <2>1
<1>15. toAssessedValue(l, v) \in Seq(Nat)
  BY ONLY <1>14 DEF Behind
<1>16. Behind(toRecordDate(l, v), toAssessedValue(l, v), member(KEY_ASSESSED_VALUE, restOf(l, v, 2)), 1)
  <2>1. Behind(Then(toAssessedValue(l, v), member(KEY_ASSESSED_VALUE, restOf(l, v, 2)), comma),
               toAssessedValue(l, v), member(KEY_ASSESSED_VALUE, restOf(l, v, 2)), Len(comma))
    BY ONLY <1>3, <1>4, <1>5, <1>15, MemberBehind
  <2> QED BY TitleSteps, <1>3, <2>1
<1>17. toRecordDate(l, v) \in Seq(Nat)
  BY ONLY <1>16 DEF Behind
<1>18. Behind(titleBody(l, v), toRecordDate(l, v), member(KEY_RECORD_DATE, restOf(l, v, 3)), 2)
  <2>1. Behind(Then(toRecordDate(l, v), member(KEY_RECORD_DATE, restOf(l, v, 3)), close),
               toRecordDate(l, v), member(KEY_RECORD_DATE, restOf(l, v, 3)), Len(close))
    BY ONLY <1>3, <1>4, <1>5, <1>17, MemberBehind
  <2> QED BY TitleSteps, <1>3, <2>1
<1> QED BY <1>2, <1>8, <1>10, <1>12, <1>14, <1>16, <1>18

\* Two records under one layout are written at the same places.
LEMMA TitleAlike ==
    ASSUME NEW l, LoadedTitle(l), NEW v, TitleFits(l, v), NEW u, TitleFits(l, u)
    PROVE  /\ Alike(Blankable(l), toRecord(l, v), toRecord(l, u))
           /\ Alike(Blankable(l), toFields(l, v), toFields(l, u))
           /\ Alike(Blankable(l), toOwners(l, v), toOwners(l, u))
           /\ Alike(Blankable(l), toSlots(l, v), toSlots(l, u))
           /\ Alike(Blankable(l), toEncumbrance(l, v), toEncumbrance(l, u))
           /\ Alike(Blankable(l), toAssessedValue(l, v), toAssessedValue(l, u))
           /\ Alike(Blankable(l), toRecordDate(l, v), toRecordDate(l, u))
           /\ Alike(Blankable(l), titleBody(l, v), titleBody(l, u))
<1> DEFINE q == Blankable(l)
<1>0. q \in BOOLEAN
  BY DEF Blankable
<1>1. Alike(q, toRecord(l, v), toRecord(l, u)) /\ Alike(q, toFields(l, v), toFields(l, u))
  BY TitlePads, ToFieldsAlike
<1>2. /\ comma \in Seq(Nat) /\ listOpen \in Seq(Nat) /\ listClose \in Seq(Nat) /\ close \in Seq(Nat)
      /\ KEY_PROPERTY_ID \in Nat /\ KEY_OWNERS \in Nat
      /\ KEY_ENCUMBRANCE \in Nat /\ KEY_ASSESSED_VALUE \in Nat /\ KEY_RECORD_DATE \in Nat
  BY KeyNames, Marks
<1>3. ASSUME NEW k \in 1..3
      PROVE  /\ restOf(l, v, k) \in Seq(Nat) /\ restOf(l, u, k) \in Seq(Nat)
             /\ Alike(q, restOf(l, v, k), restOf(l, u, k))
  BY TitlePads, TitlePadsAlike
<1>31. 1 \in 1..3 /\ 2 \in 1..3 /\ 3 \in 1..3
  OBVIOUS
<1>32. /\ restOf(l, v, 1) \in Seq(Nat) /\ restOf(l, u, 1) \in Seq(Nat)
       /\ Alike(q, restOf(l, v, 1), restOf(l, u, 1))
       /\ restOf(l, v, 2) \in Seq(Nat) /\ restOf(l, u, 2) \in Seq(Nat)
       /\ Alike(q, restOf(l, v, 2), restOf(l, u, 2))
       /\ restOf(l, v, 3) \in Seq(Nat) /\ restOf(l, u, 3) \in Seq(Nat)
       /\ Alike(q, restOf(l, v, 3), restOf(l, u, 3))
  BY ONLY <1>3, <1>31
<1>4. /\ propertyOf(l, v) \in Seq(Nat) /\ propertyOf(l, u) \in Seq(Nat)
      /\ Alike(q, propertyOf(l, v), propertyOf(l, u))
  BY TitlePads, TitlePadsAlike
<1>5. /\ listed(slots(l, v)) \in Seq(Nat) /\ listed(slots(l, u)) \in Seq(Nat)
      /\ Alike(q, listed(slots(l, v)), listed(slots(l, u)))
  BY SlotsType, ListedType, SlotsAlike
<1>6. /\ toFields(l, v) \in Seq(Nat) /\ toFields(l, u) \in Seq(Nat)
      /\ toOwners(l, v) \in Seq(Nat) /\ toOwners(l, u) \in Seq(Nat)
      /\ toSlots(l, v) \in Seq(Nat) /\ toSlots(l, u) \in Seq(Nat)
      /\ toEncumbrance(l, v) \in Seq(Nat) /\ toEncumbrance(l, u) \in Seq(Nat)
      /\ toAssessedValue(l, v) \in Seq(Nat) /\ toAssessedValue(l, u) \in Seq(Nat)
      /\ toRecordDate(l, v) \in Seq(Nat) /\ toRecordDate(l, u) \in Seq(Nat)
  BY TitleTypes DEF Behind
<1> HIDE DEF q
\* Behind alike texts, alike values under one name.
<1>7. ASSUME NEW x \in Seq(Nat), NEW y \in Seq(Nat), NEW a \in Seq(Nat), NEW b \in Seq(Nat),
             NEW name \in Nat, NEW c \in Seq(Nat), Alike(q, x, y), Alike(q, a, b)
      PROVE  Alike(q, Then(x, member(name, a), c), Then(y, member(name, b), c))
  <2>1. member(name, a) \in Seq(Nat) /\ member(name, b) \in Seq(Nat)
    BY MemberType
  <2>2. Alike(q, member(name, a), member(name, b))
    BY <1>0, <1>7, MemberAlike
  <2> QED BY <1>0, <1>7, <2>1, <2>2, ThenAlike
<1>8. Alike(q, toOwners(l, v), toOwners(l, u))
  <2>1. Alike(q, Then(toFields(l, v), member(KEY_PROPERTY_ID, propertyOf(l, v)), comma),
                 Then(toFields(l, u), member(KEY_PROPERTY_ID, propertyOf(l, u)), comma))
    BY ONLY <1>1, <1>2, <1>4, <1>6, <1>7
  <2> QED BY <2>1, TitleSteps
<1>9. Alike(q, toSlots(l, v), toSlots(l, u))
  <2>1. key(KEY_OWNERS) \in Seq(Nat)
    BY <1>2, KeyType
  <2>2. Alike(q, key(KEY_OWNERS), key(KEY_OWNERS))
    BY ONLY <1>0, <2>1, AlikeSelf
  <2>3. Alike(q, Then(toOwners(l, v), key(KEY_OWNERS), listOpen), Then(toOwners(l, u), key(KEY_OWNERS), listOpen))
    BY ONLY <1>0, <1>2, <1>6, <1>8, <2>1, <2>2, ThenAlike
  <2> QED BY <2>3, TitleSteps
<1>10. Alike(q, toEncumbrance(l, v), toEncumbrance(l, u))
  <2>1. Alike(q, Then(toSlots(l, v), listed(slots(l, v)), listClose),
                 Then(toSlots(l, u), listed(slots(l, u)), listClose))
    BY ONLY <1>0, <1>2, <1>5, <1>6, <1>9, ThenAlike
  <2> QED BY <2>1, TitleSteps
<1>11. Alike(q, toAssessedValue(l, v), toAssessedValue(l, u))
  <2>1. Alike(q, Then(toEncumbrance(l, v), member(KEY_ENCUMBRANCE, restOf(l, v, 1)), comma),
                 Then(toEncumbrance(l, u), member(KEY_ENCUMBRANCE, restOf(l, u, 1)), comma))
    BY ONLY <1>2, <1>32, <1>6, <1>7, <1>10
  <2> QED BY <2>1, TitleSteps
<1>12. Alike(q, toRecordDate(l, v), toRecordDate(l, u))
  <2>1. Alike(q, Then(toAssessedValue(l, v), member(KEY_ASSESSED_VALUE, restOf(l, v, 2)), comma),
                 Then(toAssessedValue(l, u), member(KEY_ASSESSED_VALUE, restOf(l, u, 2)), comma))
    BY ONLY <1>2, <1>32, <1>6, <1>7, <1>11
  <2> QED BY <2>1, TitleSteps
<1>13. Alike(q, titleBody(l, v), titleBody(l, u))
  <2>1. Alike(q, Then(toRecordDate(l, v), member(KEY_RECORD_DATE, restOf(l, v, 3)), close),
                 Then(toRecordDate(l, u), member(KEY_RECORD_DATE, restOf(l, u, 3)), close))
    BY ONLY <1>2, <1>32, <1>6, <1>7, <1>12
  <2> QED BY <2>1, TitleSteps
<1> QED BY <1>1, <1>8, <1>9, <1>10, <1>11, <1>12, <1>13 DEF q

LEMMA BehindAt ==
    ASSUME NEW b \in Seq(Nat), NEW s, NEW w, NEW p, NEW n \in Nat, Behind(s, w, p, n), At(b, 0, s)
    PROVE  At(b, 0, w) /\ At(b, Len(w), p) /\ Len(w) \in Nat /\ Len(p) \in Nat
<1>1. /\ s \in Seq(Nat) /\ w \in Seq(Nat) /\ p \in Seq(Nat) /\ At(s, 0, w) /\ At(s, Len(w), p)
      /\ Len(w) \in Nat /\ Len(p) \in Nat
  BY DEF Behind
<1>2. At(b, 0, w)
  BY <1>1, AtStart
<1>3. At(b, Len(w), p)
  BY <1>1, AtStart
<1> QED BY <1>1, <1>2, <1>3

\* Where the pieces of a title record stand.
LEMMA TitleAt ==
    ASSUME NEW l, LoadedTitle(l), NEW v, TitleFits(l, v)
    PROVE  /\ titleBody(l, v) \in Seq(Nat)
           /\ At(titleBody(l, v), Len(toAccount), member(KEY_ACCOUNT, accountOf(l, v)))
           /\ At(titleBody(l, v), Len(toRecord(l, v)), key(KEY_RECORD))
           /\ At(titleBody(l, v), Len(toFields(l, v)), member(KEY_PROPERTY_ID, propertyOf(l, v)))
           /\ At(titleBody(l, v), Len(toOwners(l, v)), key(KEY_OWNERS))
           /\ At(titleBody(l, v), Len(toSlots(l, v)), listed(slots(l, v)))
           /\ At(titleBody(l, v), Len(toEncumbrance(l, v)), member(KEY_ENCUMBRANCE, restOf(l, v, 1)))
           /\ At(titleBody(l, v), Len(toAssessedValue(l, v)), member(KEY_ASSESSED_VALUE, restOf(l, v, 2)))
           /\ At(titleBody(l, v), Len(toRecordDate(l, v)), member(KEY_RECORD_DATE, restOf(l, v, 3)))
<1> DEFINE b == titleBody(l, v)
<1>1. b \in Seq(Nat)
  BY TitleTypes DEF Behind
<1>2. At(b, 0, b)
  BY <1>1, AtSelf
<1> HIDE DEF b
<1>3. At(b, 0, toRecordDate(l, v)) /\ At(b, Len(toRecordDate(l, v)), member(KEY_RECORD_DATE, restOf(l, v, 3)))
  <2>1. Behind(b, toRecordDate(l, v), member(KEY_RECORD_DATE, restOf(l, v, 3)), 2)
    BY TitleTypes DEF b
  <2> QED BY ONLY <1>1, <1>2, <2>1, BehindAt, 2 \in Nat
<1>4. At(b, 0, toAssessedValue(l, v)) /\ At(b, Len(toAssessedValue(l, v)), member(KEY_ASSESSED_VALUE, restOf(l, v, 2)))
  <2>1. Behind(toRecordDate(l, v), toAssessedValue(l, v), member(KEY_ASSESSED_VALUE, restOf(l, v, 2)), 1)
    BY TitleTypes
  <2> QED BY ONLY <1>1, <1>3, <2>1, BehindAt, 1 \in Nat
<1>5. At(b, 0, toEncumbrance(l, v)) /\ At(b, Len(toEncumbrance(l, v)), member(KEY_ENCUMBRANCE, restOf(l, v, 1)))
  <2>1. Behind(toAssessedValue(l, v), toEncumbrance(l, v), member(KEY_ENCUMBRANCE, restOf(l, v, 1)), 1)
    BY TitleTypes
  <2> QED BY ONLY <1>1, <1>4, <2>1, BehindAt, 1 \in Nat
<1>6. At(b, 0, toSlots(l, v)) /\ At(b, Len(toSlots(l, v)), listed(slots(l, v)))
  <2>1. Behind(toEncumbrance(l, v), toSlots(l, v), listed(slots(l, v)), 2)
    BY TitleTypes
  <2> QED BY ONLY <1>1, <1>5, <2>1, BehindAt, 2 \in Nat
<1>7. At(b, 0, toOwners(l, v)) /\ At(b, Len(toOwners(l, v)), key(KEY_OWNERS))
  <2>1. Behind(toSlots(l, v), toOwners(l, v), key(KEY_OWNERS), 1)
    BY TitleTypes
  <2> QED BY ONLY <1>1, <1>6, <2>1, BehindAt, 1 \in Nat
<1>8. At(b, 0, toFields(l, v)) /\ At(b, Len(toFields(l, v)), member(KEY_PROPERTY_ID, propertyOf(l, v)))
  <2>1. Behind(toOwners(l, v), toFields(l, v), member(KEY_PROPERTY_ID, propertyOf(l, v)), 1)
    BY TitleTypes
  <2> QED BY ONLY <1>1, <1>7, <2>1, BehindAt, 1 \in Nat
<1>9. At(b, 0, toRecord(l, v)) /\ At(b, Len(toRecord(l, v)), key(KEY_RECORD))
  <2>1. Behind(toFields(l, v), toRecord(l, v), key(KEY_RECORD), 1)
    BY TitleTypes
  <2> QED BY ONLY <1>1, <1>8, <2>1, BehindAt, 1 \in Nat
<1>10. At(b, Len(toAccount), member(KEY_ACCOUNT, accountOf(l, v)))
  <2>1. Behind(toRecord(l, v), toAccount, member(KEY_ACCOUNT, accountOf(l, v)), 1)
    BY TitleTypes
  <2> QED BY ONLY <1>1, <1>9, <2>1, BehindAt, 1 \in Nat
<1> QED BY <1>1, <1>3, <1>4, <1>5, <1>6, <1>7, <1>8, <1>9, <1>10 DEF b

\* How long what is written is, in terms of the widths.
LEMMA TitleLengths ==
    ASSUME NEW l, LoadedTitle(l), NEW v, TitleFits(l, v)
    PROVE  /\ Len(toAccount) = 1
           /\ Len(toRecord(l, v)) = l.account_width + 8
           /\ Len(toFields(l, v)) = l.account_width + 13
           /\ Len(toOwners(l, v)) = l.account_width + l.property_id_width + 20
           /\ Len(toSlots(l, v)) = l.account_width + l.property_id_width + 25
           /\ Len(listed(slots(l, v))) = (l.owner_slots - 1) * (l.account_width + 3) + l.account_width + 2
           /\ Len(toEncumbrance(l, v)) = Len(toSlots(l, v)) + Len(listed(slots(l, v))) + 2
           /\ Len(toAssessedValue(l, v)) = Len(toEncumbrance(l, v)) + l.rest_widths[1] + 7
           /\ Len(toRecordDate(l, v)) = Len(toAssessedValue(l, v)) + l.rest_widths[2] + 7
           /\ Len(titleBody(l, v)) = Len(toRecordDate(l, v)) + l.rest_widths[3] + 8
           /\ \A k \in 1..l.owner_slots : Len(before(slots(l, v))[k]) = (k - 1) * (l.account_width + 3)
<1>0. /\ l.account_width \in Nat /\ l.property_id_width \in Nat /\ l.owner_slots \in Nat /\ l.owner_slots > 0
      /\ l.rest_widths[1] \in Nat /\ l.rest_widths[2] \in Nat /\ l.rest_widths[3] \in Nat
  BY TitleNumbers
<1>1. /\ accountOf(l, v) \in Seq(Nat) /\ Len(accountOf(l, v)) = l.account_width
      /\ propertyOf(l, v) \in Seq(Nat) /\ Len(propertyOf(l, v)) = l.property_id_width
      /\ restOf(l, v, 1) \in Seq(Nat) /\ Len(restOf(l, v, 1)) = l.rest_widths[1]
      /\ restOf(l, v, 2) \in Seq(Nat) /\ Len(restOf(l, v, 2)) = l.rest_widths[2]
      /\ restOf(l, v, 3) \in Seq(Nat) /\ Len(restOf(l, v, 3)) = l.rest_widths[3]
  <2>1. AccountFits(l, v)
    BY TitlePads
  <2>2. accountOf(l, v) \in Seq(Nat) /\ Len(accountOf(l, v)) = l.account_width
    BY <2>1, AccountType
  <2>3. 1 \in 1..3 /\ 2 \in 1..3 /\ 3 \in 1..3
    OBVIOUS
  <2>4. \A k \in 1..3 : restOf(l, v, k) \in Seq(Nat) /\ Len(restOf(l, v, k)) = l.rest_widths[k]
    BY TitlePads
  <2>5. propertyOf(l, v) \in Seq(Nat) /\ Len(propertyOf(l, v)) = l.property_id_width
    BY TitlePads
  <2> QED BY ONLY <2>2, <2>3, <2>4, <2>5
<1>2. /\ Len(member(KEY_ACCOUNT, accountOf(l, v))) = l.account_width + 6
      /\ Len(member(KEY_PROPERTY_ID, propertyOf(l, v))) = l.property_id_width + 6
      /\ Len(member(KEY_ENCUMBRANCE, restOf(l, v, 1))) = l.rest_widths[1] + 6
      /\ Len(member(KEY_ASSESSED_VALUE, restOf(l, v, 2))) = l.rest_widths[2] + 6
      /\ Len(member(KEY_RECORD_DATE, restOf(l, v, 3))) = l.rest_widths[3] + 6
  <2>1. /\ KEY_ACCOUNT \in Nat /\ KEY_PROPERTY_ID \in Nat
        /\ KEY_ENCUMBRANCE \in Nat /\ KEY_ASSESSED_VALUE \in Nat /\ KEY_RECORD_DATE \in Nat
    BY KeyNames
  <2>0. \A name \in Nat, value \in Seq(Nat) : Len(member(name, value)) = Len(value) + 6
    BY ONLY MemberType
  <2>2. Len(member(KEY_ACCOUNT, accountOf(l, v))) = l.account_width + 6
    BY ONLY <1>1, <2>1, <2>0
  <2>3. Len(member(KEY_PROPERTY_ID, propertyOf(l, v))) = l.property_id_width + 6
    BY ONLY <1>1, <2>1, <2>0
  <2>4. Len(member(KEY_ENCUMBRANCE, restOf(l, v, 1))) = l.rest_widths[1] + 6
    BY ONLY <1>1, <2>1, <2>0
  <2>5. Len(member(KEY_ASSESSED_VALUE, restOf(l, v, 2))) = l.rest_widths[2] + 6
    BY ONLY <1>1, <2>1, <2>0
  <2>6. Len(member(KEY_RECORD_DATE, restOf(l, v, 3))) = l.rest_widths[3] + 6
    BY ONLY <1>1, <2>1, <2>0
  <2> QED BY ONLY <2>2, <2>3, <2>4, <2>5, <2>6
<1>3. Len(key(KEY_RECORD)) = 4 /\ Len(key(KEY_OWNERS)) = 4 /\ Len(open) = 1
  BY KeyType, KeyNames, Marks
<1>4. Len(toAccount) = 1
  BY <1>3 DEF toAccount, open
<1>5. /\ Len(toRecord(l, v)) = Len(toAccount) + Len(member(KEY_ACCOUNT, accountOf(l, v))) + 1
      /\ Len(toFields(l, v)) = Len(toRecord(l, v)) + Len(key(KEY_RECORD)) + 1
      /\ Len(toOwners(l, v)) = Len(toFields(l, v)) + Len(member(KEY_PROPERTY_ID, propertyOf(l, v))) + 1
      /\ Len(toSlots(l, v)) = Len(toOwners(l, v)) + Len(key(KEY_OWNERS)) + 1
      /\ Len(toEncumbrance(l, v)) = Len(toSlots(l, v)) + Len(listed(slots(l, v))) + 2
      /\ Len(toAssessedValue(l, v)) = Len(toEncumbrance(l, v)) + Len(member(KEY_ENCUMBRANCE, restOf(l, v, 1))) + 1
      /\ Len(toRecordDate(l, v)) = Len(toAssessedValue(l, v)) + Len(member(KEY_ASSESSED_VALUE, restOf(l, v, 2))) + 1
      /\ Len(titleBody(l, v)) = Len(toRecordDate(l, v)) + Len(member(KEY_RECORD_DATE, restOf(l, v, 3))) + 2
  BY TitleTypes DEF Behind
<1> DEFINE a == l.account_width  d == l.property_id_width
           c1 == Len(toRecord(l, v))  c2 == Len(toFields(l, v))  c3 == Len(toOwners(l, v))
           c4 == Len(toSlots(l, v))  c5 == Len(toEncumbrance(l, v))  c6 == Len(toAssessedValue(l, v))
           c7 == Len(toRecordDate(l, v))  c8 == Len(titleBody(l, v))
           r1 == l.rest_widths[1]  r2 == l.rest_widths[2]  r3 == l.rest_widths[3]
<1>6. /\ c1 = 1 + (a + 6) + 1 /\ c2 = c1 + 4 + 1 /\ c3 = c2 + (d + 6) + 1 /\ c4 = c3 + 4 + 1
      /\ c6 = c5 + (r1 + 6) + 1 /\ c7 = c6 + (r2 + 6) + 1 /\ c8 = c7 + (r3 + 6) + 2
  BY ONLY <1>2, <1>3, <1>4, <1>5
<1>7. a \in Nat /\ d \in Nat /\ r1 \in Nat /\ r2 \in Nat /\ r3 \in Nat /\ c5 \in Nat /\ c6 \in Nat /\ c7 \in Nat
  <2>2. toEncumbrance(l, v) \in Seq(Nat) /\ toAssessedValue(l, v) \in Seq(Nat) /\ toRecordDate(l, v) \in Seq(Nat)
    BY TitleTypes DEF Behind
  <2>1. c5 \in Nat /\ c6 \in Nat /\ c7 \in Nat
    BY ONLY <2>2
  <2> QED BY ONLY <1>0, <2>1
<1>8. /\ c1 = a + 8 /\ c2 = a + 13 /\ c3 = a + d + 20 /\ c4 = a + d + 25
      /\ c6 = c5 + r1 + 7 /\ c7 = c6 + r2 + 7 /\ c8 = c7 + r3 + 8
  <2> HIDE DEF a, d, c1, c2, c3, c4, c5, c6, c7, c8, r1, r2, r3
  <2> QED BY ONLY <1>6, <1>7
<1>10. ASSUME NEW k \in 1..l.owner_slots
       PROVE  Len(before(slots(l, v))[k]) = (k - 1) * (l.account_width + 3)
  <2>1. /\ Items(slots(l, v)) /\ k \in 1..Len(slots(l, v)) /\ l.account_width + 2 \in Nat
        /\ \A i \in 1..Len(slots(l, v)) : Len(slots(l, v)[i]) = l.account_width + 2
    <3>1. /\ Items(slots(l, v)) /\ Len(slots(l, v)) = l.owner_slots
          /\ \A i \in 1..l.owner_slots : Len(slots(l, v)[i]) = l.account_width + 2
      BY SlotsType
    <3>2. l.account_width + 2 \in Nat
      BY ONLY <1>0
    <3> QED BY ONLY <3>1, <3>2, k \in 1..l.owner_slots
  <2> DEFINE w == l.account_width + 2  items == slots(l, v)
  <2>4. Items(items) /\ k \in 1..Len(items) /\ w \in Nat /\ \A i \in 1..Len(items) : Len(items[i]) = w
    BY <2>1
  <2> HIDE DEF w, items
  <2>5. Len(before(items)[k]) = (k - 1) * (w + 1)
    BY ONLY <2>4, BeforeEqual
  <2>2. Len(before(slots(l, v))[k]) = (k - 1) * ((l.account_width + 2) + 1)
    BY ONLY <2>5 DEF w, items
  <2>3. (l.account_width + 2) + 1 = l.account_width + 3
    BY <1>0
  <2> QED BY ONLY <2>2, <2>3
<1>11. Len(listed(slots(l, v))) = (l.owner_slots - 1) * (l.account_width + 3) + l.account_width + 2
  <2> DEFINE n == l.owner_slots  x == (n - 1) * (l.account_width + 3)
  <2>1. n \in 1..n
    BY <1>0
  <2>2. Len(before(slots(l, v))[n]) = x /\ Len(slots(l, v)[n]) = l.account_width + 2
    BY <1>10, <2>1, SlotsType
  <2>3. Len(listed(slots(l, v))) = Len(before(slots(l, v))[n]) + Len(slots(l, v)[n])
    <3>1. Items(slots(l, v)) /\ Len(slots(l, v)) = n
      BY SlotsType
    <3> QED BY ONLY <3>1, ListedType
  <2>4. x \in Int
    BY <1>0
  <2> DEFINE y == Len(listed(slots(l, v)))
  <2>5. y = x + (a + 2)
    BY ONLY <2>2, <2>3
  <2> HIDE DEF a, x, y
  <2>6. y = x + a + 2
    BY ONLY <1>7, <2>4, <2>5
  <2> QED BY <2>6 DEF a, x, y
<1> QED BY ONLY <1>4, <1>5, <1>8, <1>10, <1>11

-----------------------------------------------------------------------------
(* Ranges.                                                                 *)

Ranges == [start : Nat, end : Nat]

\* A range holds a piece.
Spot(r, range, p) ==
    range \in Ranges /\ range.end = range.start + Len(p) /\ At(r, range.start, p)

LEMMA SpotReads ==
    ASSUME NEW r \in Seq(Nat), NEW range, NEW p \in Seq(Nat), Spot(r, range, p)
    PROVE  SubSeq(r, range.start + 1, range.end) = p
<1>1. range.start \in Nat /\ range.end = range.start + Len(p) /\ At(r, range.start, p)
  BY DEF Spot, Ranges
<1>2. SubSeq(r, range.start + 1, range.start + Len(p)) = p
  BY <1>1, AtReads
<1> QED BY ONLY <1>1, <1>2

LEMMA LandingType ==
    ASSUME NEW shift \in Nat, NEW w \in Seq(Nat), NEW p \in Seq(Nat)
    PROVE  /\ landing(shift, w, p) \in Ranges
           /\ landing(shift, w, p).start = shift + Len(w)
           /\ landing(shift, w, p).end = shift + Len(w) + Len(p)
  BY DEF landing, Ranges

\* A range derived from one text finds in another what stands at the same place.
LEMMA LandingSpot ==
    ASSUME NEW h \in Seq(Nat), NEW s \in Seq(Nat), NEW w \in Seq(Nat), NEW p \in Seq(Nat), NEW q \in Seq(Nat),
           Len(p) = Len(q), At(s, Len(w), q)
    PROVE  Spot(h \o s, landing(Len(h), w, p), q)
<1> DEFINE r == h \o s  g == landing(Len(h), w, p)
<1>1. r \in Seq(Nat) /\ At(r, Len(h), s) /\ Len(h) \in Nat /\ Len(w) \in Nat
  <2>1. Behind(h \o s, h, s, 0)
    BY JoinedAt
  <2> QED BY <2>1 DEF Behind
<1>2. At(r, Len(h) + Len(w), q)
  <2> HIDE DEF r
  <2> QED BY <1>1, AtTrans
<1>3. g \in Ranges /\ g.start = Len(h) + Len(w) /\ g.end = Len(h) + Len(w) + Len(p)
  <2>1. /\ landing(Len(h), w, p) \in Ranges /\ landing(Len(h), w, p).start = Len(h) + Len(w)
        /\ landing(Len(h), w, p).end = Len(h) + Len(w) + Len(p)
    BY ONLY <1>1, w \in Seq(Nat), p \in Seq(Nat), LandingType
  <2> QED BY ONLY <2>1
<1> HIDE DEF r, g
<1>4. Spot(r, g, q)
  BY <1>2, <1>3 DEF Spot
<1> QED BY <1>4 DEF r, g

LEMMA KeySpot ==
    ASSUME NEW h \in Seq(Nat), NEW s \in Seq(Nat), NEW w \in Seq(Nat), NEW name \in Nat,
           At(s, Len(w), key(name))
    PROVE  Spot(h \o s, keyAt(Len(h), w, name), key(name))
<1>1. key(name) \in Seq(Nat)
  BY KeyType
<1> QED BY <1>1, LandingSpot DEF keyAt

LEMMA MemberKeyAt ==
    ASSUME NEW s \in Seq(Nat), NEW n \in Nat, NEW name \in Nat, NEW value \in Seq(Nat),
           At(s, n, member(name, value))
    PROVE  At(s, n, key(name)) /\ At(s, n + 5, value)
<1>1. /\ member(name, value) \in Seq(Nat) /\ At(member(name, value), 0, key(name))
      /\ At(member(name, value), 5, value)
  BY MemberType
<1>2. key(name) \in Seq(Nat)
  BY KeyType
<1>3. At(s, n + 0, key(name)) /\ At(s, n + 5, value)
  BY <1>1, <1>2, AtTrans
<1>4. n + 0 = n
  OBVIOUS
<1> QED BY <1>3, <1>4

\* What valueAt measures up to the value.
LEMMA OpeningType ==
    ASSUME NEW w \in Seq(Nat), NEW name \in Nat
    PROVE  w \o key(name) \o <<Quote>> \in Seq(Nat) /\ Len(w \o key(name) \o <<Quote>>) = Len(w) + 5
<1>1. key(name) \in Seq(Nat) /\ Len(key(name)) = 4 /\ quote \in Seq(Nat) /\ Len(quote) = 1
  BY KeyType, Marks
<1>2. Behind(Then(w, key(name), quote), w, key(name), Len(quote))
  BY <1>1, ThenBehind
<1>3. Then(w, key(name), quote) = w \o key(name) \o <<Quote>>
  BY DEF Then, quote
<1> DEFINE t == Then(w, key(name), quote)
<1>4. t \in Seq(Nat) /\ Len(t) = Len(w) + 4 + 1 /\ Len(w) \in Nat
  BY <1>1, <1>2 DEF Behind
<1> HIDE DEF t
<1>5. t \in Seq(Nat) /\ Len(t) = Len(w) + 5
  BY <1>4
<1> QED BY <1>3, <1>5 DEF t

LEMMA ValueSpot ==
    ASSUME NEW h \in Seq(Nat), NEW s \in Seq(Nat), NEW w \in Seq(Nat), NEW name \in Nat,
           NEW p \in Seq(Nat), NEW q \in Seq(Nat), Len(p) = Len(q), At(s, Len(w), member(name, q))
    PROVE  Spot(h \o s, valueAt(Len(h), w, name, p), q)
<1> DEFINE o == w \o key(name) \o <<Quote>>
<1>1. o \in Seq(Nat) /\ Len(o) = Len(w) + 5
  BY OpeningType
<1>2. valueAt(Len(h), w, name, p) = landing(Len(h), o, p)
  BY DEF valueAt
<1> HIDE DEF o
<1>3. At(s, Len(w) + 5, q)
  BY MemberKeyAt
<1>4. Spot(h \o s, landing(Len(h), o, p), q)
  BY <1>1, <1>3, LandingSpot
<1> QED BY <1>2, <1>4

LEMMA KeyAtType ==
    ASSUME NEW shift \in Nat, NEW w \in Seq(Nat), NEW name \in Nat
    PROVE  /\ keyAt(shift, w, name) \in Ranges /\ keyAt(shift, w, name).start = shift + Len(w)
           /\ keyAt(shift, w, name).end = shift + Len(w) + 4
<1>1. key(name) \in Seq(Nat) /\ Len(key(name)) = 4
  BY KeyType
<1> DEFINE g == landing(shift, w, key(name))
<1>2. g \in Ranges /\ g.start = shift + Len(w) /\ g.end = shift + Len(w) + Len(key(name))
  BY <1>1, LandingType
<1>3. keyAt(shift, w, name) = g
  BY DEF keyAt
<1> HIDE DEF g
<1> QED BY ONLY <1>1, <1>2, <1>3

LEMMA ValueAtType ==
    ASSUME NEW shift \in Nat, NEW w \in Seq(Nat), NEW name \in Nat, NEW p \in Seq(Nat)
    PROVE  /\ valueAt(shift, w, name, p) \in Ranges /\ valueAt(shift, w, name, p).start = shift + Len(w) + 5
           /\ valueAt(shift, w, name, p).end = shift + Len(w) + 5 + Len(p)
<1> DEFINE o == w \o key(name) \o <<Quote>>
<1>1. o \in Seq(Nat) /\ Len(o) = Len(w) + 5
  BY OpeningType
<1>2. valueAt(shift, w, name, p) = landing(shift, o, p)
  BY DEF valueAt
<1> HIDE DEF o
<1> DEFINE g == landing(shift, o, p)
<1>3. g \in Ranges /\ g.start = shift + Len(o) /\ g.end = shift + Len(o) + Len(p)
  BY <1>1, LandingType
<1> HIDE DEF g
<1>4. g \in Ranges /\ g.start = shift + Len(w) + 5 /\ g.end = shift + Len(w) + 5 + Len(p)
  BY <1>1, <1>3
<1> QED BY <1>2, <1>4 DEF g

-----------------------------------------------------------------------------
(* The revealed lines of the head.                                         *)

statusPiece == <<STATUS_LINE>>

contentTypePiece == <<CONTENT_TYPE>>

LEMMA HeadSpots ==
    ASSUME NEW n \in Nat, NEW s \in Seq(Nat)
    PROVE  /\ statusPiece \in Seq(Nat) /\ contentTypePiece \in Seq(Nat)
           /\ Spot(head(n) \o s, statusLine, statusPiece)
           /\ Spot(head(n) \o s, contentTypeLine, contentTypePiece)
           /\ statusLine \in Ranges /\ contentTypeLine \in Ranges
           /\ statusLine.start = 0 /\ statusLine.end = 1 /\ contentTypeLine.start = 2 /\ contentTypeLine.end = 3
           /\ Len(head(n)) >= 5 /\ Len(head(n)) \in Nat
<1>1. /\ statusPiece \in Seq(Nat) /\ contentTypePiece \in Seq(Nat)
      /\ Len(statusPiece) = 1 /\ Len(contentTypePiece) = 1
  BY DEF statusPiece, contentTypePiece, STATUS_LINE, CONTENT_TYPE
<1>2. /\ statusLine.start = 0 /\ statusLine.end = 1 /\ contentTypeLine.start = 2 /\ contentTypeLine.end = 3
      /\ statusLine \in Ranges /\ contentTypeLine \in Ranges
  BY DEF statusLine, contentTypeLine, landing, Ranges
<1> DEFINE h == head(n)  r == h \o s
<1>3. h \in Seq(Nat) /\ headStart \in Seq(Nat) /\ Len(headStart) = 5 /\ Begins(h, headStart)
  BY HeadType
<1> HIDE DEF h
<1>4. r \in Seq(Nat) /\ Len(h) \in Nat /\ Len(h) >= 5 /\ At(r, 0, h)
  <2>1. Behind(r, h, s, 0)
    BY <1>3, JoinedAt
  <2>2. r \in Seq(Nat) /\ At(r, 0, h)
    BY ONLY <2>1 DEF Behind
  <2>3. Len(h) \in Nat /\ Len(h) >= 5
    BY ONLY <1>3 DEF Begins
  <2> QED BY ONLY <2>2, <2>3
<1> HIDE DEF r
<1>5. At(h, 0, statusPiece) /\ At(h, 2, contentTypePiece)
  <2>1. \A i \in 1..5 : h[i] = headStart[i]
    BY <1>3 DEF Begins
  <2>2. headStart[1] = STATUS_LINE /\ headStart[3] = CONTENT_TYPE
    BY DEF headStart
  <2>3. statusPiece[1] = STATUS_LINE /\ contentTypePiece[1] = CONTENT_TYPE
    BY DEF statusPiece, contentTypePiece
  <2>4. h[1] = STATUS_LINE /\ h[3] = CONTENT_TYPE
    BY <2>1, <2>2
  <2> QED BY <1>1, <1>4, <2>3, <2>4 DEF At
<1>6. At(r, 0, statusPiece) /\ At(r, 2, contentTypePiece)
  BY <1>1, <1>3, <1>4, <1>5, AtStart
<1>7. Spot(r, statusLine, statusPiece) /\ Spot(r, contentTypeLine, contentTypePiece)
  BY <1>1, <1>2, <1>6 DEF Spot
<1> QED BY <1>1, <1>2, <1>4, <1>7 DEF r, h

LEMMA RevealedType ==
    ASSUME NEW a \in Ranges, NEW b \in Ranges, NEW keys \in Seq(Ranges)
    PROVE  /\ revealed(a, b, keys) \in Seq(Ranges) /\ Len(revealed(a, b, keys)) = 2 + Len(keys)
           /\ revealed(a, b, keys)[1] = a /\ revealed(a, b, keys)[2] = b
           /\ \A i \in 1..Len(keys) : revealed(a, b, keys)[2 + i] = keys[i]
<1> DEFINE two == <<a, b>>
<1>1. two \in Seq(Ranges) /\ Len(two) = 2 /\ two[1] = a /\ two[2] = b
  OBVIOUS
<1>2. revealed(a, b, keys) = two \o keys
  BY DEF revealed
<1> HIDE DEF two
<1>3. /\ two \o keys \in Seq(Ranges) /\ Len(two \o keys) = Len(two) + Len(keys)
      /\ \A i \in 1..(Len(two) + Len(keys)) :
            (two \o keys)[i] = IF i <= Len(two) THEN two[i] ELSE keys[i - Len(two)]
  BY <1>1, ConcatProperties
<1>4. Len(keys) \in Nat
  OBVIOUS
<1>5. (two \o keys)[1] = a /\ (two \o keys)[2] = b
  BY <1>1, <1>3, <1>4
<1>6. ASSUME NEW i \in 1..Len(keys) PROVE (two \o keys)[2 + i] = keys[i]
  BY <1>1, <1>3, <1>4
<1> QED BY <1>1, <1>2, <1>3, <1>5, <1>6

-----------------------------------------------------------------------------
(* What the readers of a title derive from its layout.                     *)

\* The template is a record that fits.
LEMMA BlankTitleFits ==
    ASSUME NEW l, LoadedTitle(l)
    PROVE  TitleFits(l, blank(l))
<1>1. l.kind = "title"
  BY TitleNumbers
<1>2. ASSUME NEW w \in Nat PROVE Fitting(<<>>, w)
  BY DEF Fitting, Text
<1>3. /\ blank(l).account = <<>> /\ blank(l).property_id = <<>> /\ blank(l).owners = <<>>
      /\ blank(l).rest[1] = <<>> /\ blank(l).rest[2] = <<>> /\ blank(l).rest[3] = <<>>
  BY <1>1 DEF blank
<1>4. ASSUME NEW k \in Nat PROVE owner(blank(l), k) = <<>>
  <2>1. DOMAIN <<>> = {}
    OBVIOUS
  <2> QED BY <1>3, <2>1 DEF owner
<1>5. \A k \in 1..l.owner_slots : owner(blank(l), k) = <<>>
  BY <1>4, TitleNumbers
<1>6. \A k \in 1..3 : blank(l).rest[k] = <<>>
  BY <1>3
<1> QED BY <1>2, <1>3, <1>5, <1>6, TitleNumbers DEF TitleFits

LEMMA FitsFitting ==
    ASSUME NEW x \in Text, NEW w \in Nat, fits(x, w)
    PROVE  Fitting(x, w)
  BY DEF fits, Fitting, Text, Quote

LEMMA RenderedTitleFits ==
    ASSUME NEW l, LoadedTitle(l), NEW v \in TitleView, titleRenders(l, v)
    PROVE  TitleFits(l, v)
<1>1. /\ v.account \in Text /\ v.property_id \in Text /\ v.owners \in Seq(Text)
      /\ \A k \in 1..3 : v.rest[k] \in Text
  BY DEF TitleView
<1>2. Fitting(v.account, l.account_width) /\ Fitting(v.property_id, l.property_id_width)
  BY <1>1, TitleNumbers, FitsFitting DEF titleRenders
<1>3. ASSUME NEW k \in 1..3 PROVE Fitting(v.rest[k], l.rest_widths[k])
  BY <1>1, TitleNumbers, FitsFitting DEF titleRenders
<1>4. ASSUME NEW k \in 1..l.owner_slots PROVE Fitting(owner(v, k), l.account_width)
  <2>1. CASE k \in DOMAIN v.owners
    <3>1. owner(v, k) = v.owners[k] /\ v.owners[k] \in Text /\ fits(v.owners[k], l.account_width)
      BY <1>1, <2>1 DEF owner, titleRenders
    <3> QED BY <3>1, TitleNumbers, FitsFitting
  <2>2. CASE k \notin DOMAIN v.owners
    <3>1. owner(v, k) = <<>>
      BY <2>2 DEF owner
    <3> QED BY <3>1, TitleNumbers DEF Fitting, Text
  <2> QED BY <2>1, <2>2
<1> QED BY <1>2, <1>3, <1>4 DEF TitleFits

\* The head of every response is that of the template.
titleHead(l) == head(Len(titleBody(l, blank(l))))

LEMMA TitleRendered ==
    ASSUME NEW l, LoadedTitle(l), NEW v, TitleFits(l, v)
    PROVE  /\ render_response(l, v) = titleHead(l) \o titleBody(l, v)
           /\ titleHead(l) \in Seq(Nat) /\ titleBody(l, v) \in Seq(Nat)
           /\ Len(titleBody(l, v)) = Len(titleBody(l, blank(l))) /\ Len(titleBody(l, v)) \in Nat
<1>1. l.kind = "title"
  BY TitleNumbers
<1>2. TitleFits(l, blank(l))
  BY BlankTitleFits
<1>3. titleBody(l, v) \in Seq(Nat) /\ titleBody(l, blank(l)) \in Seq(Nat)
  BY <1>2, TitleAt
<1>4. Len(titleBody(l, v)) = Len(titleBody(l, blank(l)))
  BY <1>2, TitleAlike DEF Alike
<1>5. Len(titleBody(l, v)) \in Nat
  BY <1>3
<1>6. titleHead(l) \in Seq(Nat)
  BY <1>4, <1>5, HeadType DEF titleHead
<1>7. render_response(l, v) = head(Len(titleBody(l, v))) \o titleBody(l, v)
  BY <1>1 DEF render_response, body
<1>8. render_response(l, v) = titleHead(l) \o titleBody(l, v)
  BY ONLY <1>4, <1>7 DEF titleHead
<1> QED BY ONLY <1>3, <1>4, <1>5, <1>6, <1>8

titlePieces ==
    <<statusPiece, contentTypePiece, key(KEY_ACCOUNT), key(KEY_RECORD), key(KEY_PROPERTY_ID), key(KEY_OWNERS),
      key(KEY_ENCUMBRANCE), key(KEY_ASSESSED_VALUE), key(KEY_RECORD_DATE)>>

TitleShape(l, u, shift) ==
    /\ shapeOf(l).template = render_response(l, u)
    /\ shapeOf(l).len = shift + Len(titleBody(l, u))
    /\ shapeOf(l).revealed = revealed(statusLine, contentTypeLine, titleKeys(l, u, shift))
    /\ shapeOf(l).hidden = titleHidden(l, u, shift)
    /\ shapeOf(l).slot_offsets
       = [k \in 1..l.owner_slots |-> slotAt(l, u, shift, k).start - slotAt(l, u, shift, 1).start]

LEMMA TitleShapeIs ==
    ASSUME NEW l, LoadedTitle(l)
    PROVE  TitleShape(l, blank(l), Len(titleHead(l)))
<1>1. l.kind = "title"
  BY TitleNumbers
<1> QED BY <1>1 DEF TitleShape, shapeOf, titleHead, body

\* The keys a reader reveals.
LEMMA TitleKeysType ==
    ASSUME NEW l, LoadedTitle(l), NEW u, TitleFits(l, u), NEW shift \in Nat
    PROVE  /\ titleKeys(l, u, shift) \in Seq(Ranges) /\ Len(titleKeys(l, u, shift)) = 7
           /\ titleKeys(l, u, shift)[1] = keyAt(shift, toAccount, KEY_ACCOUNT)
           /\ titleKeys(l, u, shift)[2] = keyAt(shift, toRecord(l, u), KEY_RECORD)
           /\ titleKeys(l, u, shift)[3] = keyAt(shift, toFields(l, u), KEY_PROPERTY_ID)
           /\ titleKeys(l, u, shift)[4] = keyAt(shift, toOwners(l, u), KEY_OWNERS)
           /\ titleKeys(l, u, shift)[5] = keyAt(shift, toEncumbrance(l, u), KEY_ENCUMBRANCE)
           /\ titleKeys(l, u, shift)[6] = keyAt(shift, toAssessedValue(l, u), KEY_ASSESSED_VALUE)
           /\ titleKeys(l, u, shift)[7] = keyAt(shift, toRecordDate(l, u), KEY_RECORD_DATE)
<1>1. /\ toAccount \in Seq(Nat) /\ toRecord(l, u) \in Seq(Nat) /\ toFields(l, u) \in Seq(Nat)
      /\ toOwners(l, u) \in Seq(Nat) /\ toEncumbrance(l, u) \in Seq(Nat) /\ toAssessedValue(l, u) \in Seq(Nat)
      /\ toRecordDate(l, u) \in Seq(Nat)
  BY TitleTypes DEF Behind
<1> DEFINE k1 == keyAt(shift, toAccount, KEY_ACCOUNT)
           k2 == keyAt(shift, toRecord(l, u), KEY_RECORD)
           k3 == keyAt(shift, toFields(l, u), KEY_PROPERTY_ID)
           k4 == keyAt(shift, toOwners(l, u), KEY_OWNERS)
           k5 == keyAt(shift, toEncumbrance(l, u), KEY_ENCUMBRANCE)
           k6 == keyAt(shift, toAssessedValue(l, u), KEY_ASSESSED_VALUE)
           k7 == keyAt(shift, toRecordDate(l, u), KEY_RECORD_DATE)
<1>2. /\ k1 \in Ranges /\ k2 \in Ranges /\ k3 \in Ranges /\ k4 \in Ranges /\ k5 \in Ranges /\ k6 \in Ranges
      /\ k7 \in Ranges
  <2>1. /\ KEY_ACCOUNT \in Nat /\ KEY_RECORD \in Nat /\ KEY_PROPERTY_ID \in Nat /\ KEY_OWNERS \in Nat
        /\ KEY_ENCUMBRANCE \in Nat /\ KEY_ASSESSED_VALUE \in Nat /\ KEY_RECORD_DATE \in Nat
    BY KeyNames
  <2>2. \A w \in Seq(Nat), name \in Nat : keyAt(shift, w, name) \in Ranges
    BY KeyAtType
  <2> QED BY ONLY <1>1, <2>1, <2>2
<1>3. titleKeys(l, u, shift) = <<k1, k2, k3, k4, k5, k6, k7>>
  BY DEF titleKeys
<1> HIDE DEF k1, k2, k3, k4, k5, k6, k7
<1> DEFINE ks == <<k1, k2, k3, k4, k5, k6, k7>>
<1>4. /\ ks \in Seq(Ranges) /\ Len(ks) = 7 /\ ks[1] = k1 /\ ks[2] = k2 /\ ks[3] = k3 /\ ks[4] = k4
      /\ ks[5] = k5 /\ ks[6] = k6 /\ ks[7] = k7
  BY ONLY <1>2
<1> HIDE DEF ks
<1>5. titleKeys(l, u, shift) = ks
  BY <1>3 DEF ks
<1> QED BY ONLY <1>4, <1>5 DEF k1, k2, k3, k4, k5, k6, k7

\* A reader finds every key where the template has it.
LEMMA TitleKeySpots ==
    ASSUME NEW l, LoadedTitle(l), NEW u, TitleFits(l, u), NEW v, TitleFits(l, v), NEW h \in Seq(Nat)
    PROVE  /\ Spot(h \o titleBody(l, v), keyAt(Len(h), toAccount, KEY_ACCOUNT), key(KEY_ACCOUNT))
           /\ Spot(h \o titleBody(l, v), keyAt(Len(h), toRecord(l, u), KEY_RECORD), key(KEY_RECORD))
           /\ Spot(h \o titleBody(l, v), keyAt(Len(h), toFields(l, u), KEY_PROPERTY_ID), key(KEY_PROPERTY_ID))
           /\ Spot(h \o titleBody(l, v), keyAt(Len(h), toOwners(l, u), KEY_OWNERS), key(KEY_OWNERS))
           /\ Spot(h \o titleBody(l, v), keyAt(Len(h), toEncumbrance(l, u), KEY_ENCUMBRANCE), key(KEY_ENCUMBRANCE))
           /\ Spot(h \o titleBody(l, v), keyAt(Len(h), toAssessedValue(l, u), KEY_ASSESSED_VALUE),
                   key(KEY_ASSESSED_VALUE))
           /\ Spot(h \o titleBody(l, v), keyAt(Len(h), toRecordDate(l, u), KEY_RECORD_DATE), key(KEY_RECORD_DATE))
<1> DEFINE s == titleBody(l, v)
<1>0. s \in Seq(Nat)
  BY TitleAt
<1>1. /\ toAccount \in Seq(Nat) /\ toRecord(l, u) \in Seq(Nat) /\ toFields(l, u) \in Seq(Nat)
      /\ toOwners(l, u) \in Seq(Nat) /\ toEncumbrance(l, u) \in Seq(Nat) /\ toAssessedValue(l, u) \in Seq(Nat)
      /\ toRecordDate(l, u) \in Seq(Nat)
  BY TitleTypes DEF Behind
<1>2. /\ KEY_ACCOUNT \in Nat /\ KEY_RECORD \in Nat /\ KEY_PROPERTY_ID \in Nat /\ KEY_OWNERS \in Nat
      /\ KEY_ENCUMBRANCE \in Nat /\ KEY_ASSESSED_VALUE \in Nat /\ KEY_RECORD_DATE \in Nat
  BY KeyNames
<1>3. /\ Len(toRecord(l, u)) = Len(toRecord(l, v)) /\ Len(toFields(l, u)) = Len(toFields(l, v))
      /\ Len(toOwners(l, u)) = Len(toOwners(l, v)) /\ Len(toEncumbrance(l, u)) = Len(toEncumbrance(l, v))
      /\ Len(toAssessedValue(l, u)) = Len(toAssessedValue(l, v))
      /\ Len(toRecordDate(l, u)) = Len(toRecordDate(l, v))
  BY TitleAlike DEF Alike
<1>4. /\ At(s, Len(toAccount), member(KEY_ACCOUNT, accountOf(l, v)))
      /\ At(s, Len(toRecord(l, u)), key(KEY_RECORD))
      /\ At(s, Len(toFields(l, u)), member(KEY_PROPERTY_ID, propertyOf(l, v)))
      /\ At(s, Len(toOwners(l, u)), key(KEY_OWNERS))
      /\ At(s, Len(toEncumbrance(l, u)), member(KEY_ENCUMBRANCE, restOf(l, v, 1)))
      /\ At(s, Len(toAssessedValue(l, u)), member(KEY_ASSESSED_VALUE, restOf(l, v, 2)))
      /\ At(s, Len(toRecordDate(l, u)), member(KEY_RECORD_DATE, restOf(l, v, 3)))
  BY <1>3, TitleAt
<1>5. /\ accountOf(l, v) \in Seq(Nat) /\ propertyOf(l, v) \in Seq(Nat) /\ restOf(l, v, 1) \in Seq(Nat)
      /\ restOf(l, v, 2) \in Seq(Nat) /\ restOf(l, v, 3) \in Seq(Nat)
  BY TitlePads, AccountType
<1> HIDE DEF s
<1>6. ASSUME NEW w \in Seq(Nat), NEW name \in Nat, NEW x \in Seq(Nat), At(s, Len(w), member(name, x))
      PROVE  Spot(h \o s, keyAt(Len(h), w, name), key(name))
  <2>1. Len(w) \in Nat
    OBVIOUS
  <2>2. At(s, Len(w), key(name))
    BY ONLY <1>0, <1>6, <2>1, MemberKeyAt
  <2> QED BY ONLY <1>0, <1>6, <2>2, h \in Seq(Nat), KeySpot
<1>7. ASSUME NEW w \in Seq(Nat), NEW name \in Nat, At(s, Len(w), key(name))
      PROVE  Spot(h \o s, keyAt(Len(h), w, name), key(name))
  BY <1>0, <1>7, KeySpot
<1>8. Spot(h \o s, keyAt(Len(h), toAccount, KEY_ACCOUNT), key(KEY_ACCOUNT))
  BY ONLY <1>1, <1>2, <1>4, <1>5, <1>6
<1>9. Spot(h \o s, keyAt(Len(h), toRecord(l, u), KEY_RECORD), key(KEY_RECORD))
  BY ONLY <1>1, <1>2, <1>4, <1>7
<1>10. Spot(h \o s, keyAt(Len(h), toFields(l, u), KEY_PROPERTY_ID), key(KEY_PROPERTY_ID))
  BY ONLY <1>1, <1>2, <1>4, <1>5, <1>6
<1>11. Spot(h \o s, keyAt(Len(h), toOwners(l, u), KEY_OWNERS), key(KEY_OWNERS))
  BY ONLY <1>1, <1>2, <1>4, <1>7
<1>12. Spot(h \o s, keyAt(Len(h), toEncumbrance(l, u), KEY_ENCUMBRANCE), key(KEY_ENCUMBRANCE))
  BY ONLY <1>1, <1>2, <1>4, <1>5, <1>6
<1>13. Spot(h \o s, keyAt(Len(h), toAssessedValue(l, u), KEY_ASSESSED_VALUE), key(KEY_ASSESSED_VALUE))
  BY ONLY <1>1, <1>2, <1>4, <1>5, <1>6
<1>14. Spot(h \o s, keyAt(Len(h), toRecordDate(l, u), KEY_RECORD_DATE), key(KEY_RECORD_DATE))
  BY ONLY <1>1, <1>2, <1>4, <1>5, <1>6
<1> QED BY <1>8, <1>9, <1>10, <1>11, <1>12, <1>13, <1>14 DEF s

LEMMA ThenMark ==
    ASSUME NEW w \in Seq(Nat), NEW p \in Seq(Nat), NEW c \in Seq(Nat)
    PROVE  At(Then(w, p, c), Len(w) + Len(p), c)
<1> DEFINE t == w \o p
<1>1. t \in Seq(Nat) /\ Len(t) = Len(w) + Len(p)
  BY Joined
<1> HIDE DEF t
<1>2. Behind(t \o c, t, c, 0)
  BY <1>1, JoinedAt
<1>3. At(t \o c, Len(t), c)
  BY <1>2 DEF Behind
<1> QED BY <1>1, <1>3 DEF Then, t

\* What the circuit expects between two owners.
separator == <<Quote, Comma, Quote>>

LEMMA SeparatorAt ==
    ASSUME NEW items, Items(items), NEW k \in 1..Len(items), k < Len(items),
           NEW x \in Seq(Nat), items[k] = string(x), NEW y \in Seq(Nat), items[k + 1] = string(y)
    PROVE  At(listed(items), Len(before(items)[k]) + Len(x) + 1, separator)
<1>0. /\ k + 1 \in 1..Len(items) /\ listed(items) \in Seq(Nat)
      /\ before(items)[k] \in Seq(Nat) /\ items[k] \in Seq(Nat)
  <2>1. k + 1 \in 1..Len(items) /\ items[k] \in Seq(Nat)
    BY ItemsType
  <2>2. listed(items) \in Seq(Nat)
    BY ListedType
  <2>3. before(items)[k] \in Seq(Nat)
    BY BeforeType
  <2> QED BY ONLY <2>1, <2>2, <2>3
<1>1. before(items)[k + 1] \in Seq(Nat) /\ items[k + 1] \in Seq(Nat)
  BY <1>0, ItemsType, BeforeType
<1> DEFINE s == listed(items)  b == before(items)[k]  c == before(items)[k + 1]  m == Len(b)  n == Len(x)
           p == items[k]  q == items[k + 1]
<1>2. c = Then(b, p, comma)
  BY BeforeNext DEF Followed, Then, comma
<1>3. /\ p \in Seq(Nat) /\ Len(p) = n + 2 /\ p = Then(quote, x, quote)
      /\ At(q, 0, quote) /\ q \in Seq(Nat) /\ m \in Nat /\ n \in Nat
  <2>1. p \in Seq(Nat) /\ Len(p) = n + 2 /\ p = Then(quote, x, quote)
    BY StringType
  <2>2. At(q, 0, quote) /\ q \in Seq(Nat)
    BY StringType
  <2>3. m \in Nat /\ n \in Nat
    BY <1>0
  <2> QED BY ONLY <2>1, <2>2, <2>3
<1>4. At(p, n + 1, quote)
  <2>1. At(Then(quote, x, quote), Len(quote) + Len(x), quote)
    BY Marks, ThenMark
  <2>2. Len(quote) + Len(x) = n + 1
    BY Marks, <1>3
  <2> QED BY ONLY <1>3, <2>1, <2>2
<1>5. At(s, m, p) /\ At(s, Len(c), q) /\ At(s, 0, c)
  <2>1. Begins(s, c \o q)
    BY <1>0, ListedBegins
  <2>2. At(s, Len(c), q) /\ At(s, 0, c)
    BY <1>0, <1>1, <2>1, BeginsAt
  <2>3. At(s, m, p)
    BY ListedAt
  <2> QED BY <2>2, <2>3
<1>6. s \in Seq(Nat) /\ b \in Seq(Nat) /\ c \in Seq(Nat) /\ q \in Seq(Nat)
  BY <1>0, <1>1
<1>7. quote \in Seq(Nat) /\ Len(quote) = 1 /\ comma \in Seq(Nat) /\ Len(comma) = 1
  BY Marks
<1> HIDE DEF s, b, c, m, n, p, q
<1>8. Len(c) = m + n + 3 /\ At(c, m + n + 2, comma)
  <2>1. Behind(Then(b, p, comma), b, p, Len(comma)) /\ At(Then(b, p, comma), Len(b) + Len(p), comma)
    BY <1>3, <1>6, <1>7, ThenBehind, ThenMark
  <2>2. Len(c) = Len(b) + Len(p) + 1
    BY ONLY <1>2, <1>7, <2>1 DEF Behind
  <2>3. Len(b) + Len(p) = m + n + 2 /\ Len(b) + Len(p) + 1 = m + n + 3
    BY <1>3 DEF m
  <2> QED BY ONLY <1>2, <2>1, <2>2, <2>3
<1>15. n + 1 \in Nat /\ m + n + 2 \in Nat /\ m + n + 3 \in Nat /\ 0 \in Nat
  BY ONLY <1>3
<1>9. At(s, m + (n + 1), quote)
  BY ONLY <1>3, <1>4, <1>5, <1>6, <1>7, <1>15, AtTrans
<1>10. At(s, 0 + (m + n + 2), comma)
  BY ONLY <1>5, <1>6, <1>7, <1>8, <1>15, AtTrans
<1>11. At(s, (m + n + 3) + 0, quote)
  <2>1. At(s, m + n + 3, q)
    BY ONLY <1>5, <1>8
  <2> QED BY ONLY <1>3, <1>6, <1>7, <1>15, <2>1, AtTrans
<1>12. s[m + n + 1 + 1] = Quote /\ s[m + n + 1 + 2] = Comma /\ s[m + n + 1 + 3] = Quote /\ m + n + 1 + 3 <= Len(s)
  <2>1. quote[1] = Quote /\ comma[1] = Comma
    BY DEF quote, comma
  <2>2. s[m + (n + 1) + 1] = Quote
    BY <1>7, <1>9, <2>1 DEF At
  <2>3. s[0 + (m + n + 2) + 1] = Comma
    BY <1>7, <1>10, <2>1 DEF At
  <2>4. s[(m + n + 3) + 0 + 1] = Quote /\ (m + n + 3) + 0 + 1 <= Len(s)
    BY <1>7, <1>11, <2>1 DEF At
  <2> QED BY <1>3, <2>2, <2>3, <2>4
<1>13. Len(separator) = 3 /\ separator[1] = Quote /\ separator[2] = Comma /\ separator[3] = Quote
  BY DEF separator
<1>14. At(s, m + n + 1, separator)
  BY <1>12, <1>13 DEF At
<1> QED BY <1>14 DEF s, m, n, b

LEMMA SlotAtType ==
    ASSUME NEW l, LoadedTitle(l), NEW u, TitleFits(l, u), NEW shift \in Nat, NEW k \in 1..l.owner_slots
    PROVE  /\ slotAt(l, u, shift, k) \in Ranges
           /\ slotAt(l, u, shift, k).start
              = shift + l.account_width + l.property_id_width + 26 + (k - 1) * (l.account_width + 3)
           /\ slotAt(l, u, shift, k).end = slotAt(l, u, shift, k).start + l.account_width
<1> DEFINE w == toSlots(l, u)  b == before(slots(l, u))[k]  o == ownerOf(l, u, k)
           y == (k - 1) * (l.account_width + 3)
           g == landing(shift, Then(w, b, quote), o)
<1>1. slotAt(l, u, shift, k) = g
  BY DEF slotAt, Then, quote, ownerOf
<1>2. /\ w \in Seq(Nat) /\ Len(w) = l.account_width + l.property_id_width + 25
      /\ o \in Seq(Nat) /\ Len(o) = l.account_width
      /\ Len(b) = y
  <2>1. w \in Seq(Nat)
    BY TitleTypes DEF Behind
  <2>2. Len(w) = l.account_width + l.property_id_width + 25 /\ Len(b) = y
    BY TitleLengths
  <2>3. o \in Seq(Nat) /\ Len(o) = l.account_width
    BY TitlePads
  <2> QED BY ONLY <2>1, <2>2, <2>3
<1>3. b \in Seq(Nat) /\ quote \in Seq(Nat) /\ Len(quote) = 1
  <2>1. Items(slots(l, u)) /\ k \in 1..Len(slots(l, u))
    BY SlotsType
  <2> QED BY ONLY <2>1, BeforeType, Marks
<1>4. l.account_width \in Nat /\ l.property_id_width \in Nat /\ y \in Int
  BY TitleNumbers
<1> HIDE DEF w, b, o, y
<1>5. Then(w, b, quote) \in Seq(Nat) /\ Len(Then(w, b, quote)) = Len(w) + Len(b) + 1
  <2>1. Behind(Then(w, b, quote), w, b, Len(quote))
    BY <1>2, <1>3, ThenBehind
  <2> QED BY ONLY <1>3, <2>1 DEF Behind
<1>6. g \in Ranges /\ g.start = shift + (Len(w) + Len(b) + 1) /\ g.end = shift + (Len(w) + Len(b) + 1) + Len(o)
  <2> DEFINE t == Then(w, b, quote)
  <2>1. t \in Seq(Nat) /\ Len(t) = Len(w) + Len(b) + 1
    BY ONLY <1>5
  <2> HIDE DEF t
  <2>2. /\ landing(shift, t, o) \in Ranges /\ landing(shift, t, o).start = shift + Len(t)
        /\ landing(shift, t, o).end = shift + Len(t) + Len(o)
    BY ONLY <1>2, <2>1, shift \in Nat, LandingType
  <2> QED BY ONLY <2>1, <2>2 DEF t
<1> HIDE DEF g
<1>7. /\ g.start = shift + l.account_width + l.property_id_width + 26 + y
      /\ g.end = g.start + l.account_width
  <2> DEFINE a == l.account_width  d == l.property_id_width
  <2>1. a \in Nat /\ d \in Nat
    BY <1>4
  <2> HIDE DEF a, d
  <2>2. Len(w) = a + d + 25 /\ Len(o) = a /\ Len(b) = y
    BY ONLY <1>2 DEF a, d
  <2>3. g.start = shift + (a + d + 25 + y + 1) /\ g.end = shift + (a + d + 25 + y + 1) + a
    BY ONLY <1>6, <2>2
  <2>4. g.start = shift + a + d + 26 + y /\ g.end = (shift + a + d + 26 + y) + a
    BY ONLY <1>4, <2>1, <2>3, shift \in Nat
  <2> QED BY ONLY <2>4 DEF a, d
<1> QED BY ONLY <1>1, <1>6, <1>7 DEF y

\* An owner stands in its slot.
LEMMA SlotSpot ==
    ASSUME NEW l, LoadedTitle(l), NEW u, TitleFits(l, u), NEW v, TitleFits(l, v), NEW h \in Seq(Nat),
           NEW k \in 1..l.owner_slots
    PROVE  Spot(h \o titleBody(l, v), slotAt(l, u, Len(h), k), ownerOf(l, v, k))
<1> DEFINE s == titleBody(l, v)  w == toSlots(l, u)  b == before(slots(l, u))[k]
           o == ownerOf(l, u, k)  p == ownerOf(l, v, k)  t == Then(w, b, quote)
<1>1. slotAt(l, u, Len(h), k) = landing(Len(h), t, o)
  BY DEF slotAt, Then, quote, ownerOf
<1>2. /\ s \in Seq(Nat) /\ At(s, Len(toSlots(l, v)), listed(slots(l, v)))
      /\ Len(toSlots(l, v)) = Len(w) /\ Len(before(slots(l, v))[k]) = Len(b)
      /\ w \in Seq(Nat)
  <2>1. Len(toSlots(l, v)) = Len(w)
    BY TitleAlike DEF Alike
  <2>2. Len(before(slots(l, v))[k]) = Len(b)
    BY SlotsAlike
  <2>3. w \in Seq(Nat)
    BY TitleTypes DEF Behind
  <2> QED BY ONLY <2>1, <2>2, <2>3, TitleAt, LoadedTitle(l), TitleFits(l, v)
<1>3. /\ o \in Seq(Nat) /\ p \in Seq(Nat) /\ Len(o) = l.account_width /\ Len(p) = l.account_width
  BY TitlePads
<1>4. b \in Seq(Nat) /\ quote \in Seq(Nat) /\ Len(quote) = 1
  <2>1. Items(slots(l, u)) /\ k \in 1..Len(slots(l, u))
    BY SlotsType
  <2> QED BY ONLY <2>1, BeforeType, Marks
<1>5. t \in Seq(Nat) /\ Len(t) = Len(w) + Len(b) + 1
  <2> HIDE DEF w, b
  <2>1. Behind(t, w, b, Len(quote))
    BY <1>2, <1>4, ThenBehind
  <2> QED BY ONLY <1>4, <2>1 DEF Behind
<1> DEFINE list == listed(slots(l, v))
<1>6. At(list, Len(b), string(p)) /\ list \in Seq(Nat) /\ string(p) \in Seq(Nat) /\ At(string(p), 1, p)
  <2>1. Items(slots(l, v)) /\ k \in 1..Len(slots(l, v)) /\ slots(l, v)[k] = string(p)
    BY SlotsType
  <2>2. At(list, Len(before(slots(l, v))[k]), string(p)) /\ list \in Seq(Nat)
    BY <2>1, ListedAt, ListedType
  <2>3. string(p) \in Seq(Nat) /\ At(string(p), 1, p)
    BY ONLY <1>3, StringType
  <2> QED BY ONLY <1>2, <2>2, <2>3
<1>7. At(s, Len(w), list)
  BY ONLY <1>2
<1>8. Len(w) \in Nat /\ Len(b) \in Nat
  BY ONLY <1>2, <1>4
<1> HIDE DEF s, w, b, o, p, t, list
<1>9. At(s, Len(w) + Len(b), string(p))
  BY ONLY <1>2, <1>6, <1>7, <1>8, AtTrans
<1>10. At(s, (Len(w) + Len(b)) + 1, p)
  <2>1. Len(w) + Len(b) \in Nat
    BY ONLY <1>8
  <2> QED BY ONLY <1>2, <1>3, <1>6, <1>9, <2>1, AtTrans, 1 \in Nat
<1>11. At(s, Len(t), p)
  BY ONLY <1>5, <1>10
<1>12. Spot(h \o s, landing(Len(h), t, o), p)
  BY ONLY <1>2, <1>3, <1>5, <1>11, h \in Seq(Nat), LandingSpot
<1> QED BY <1>1, <1>12 DEF s, p

\* From the first owner to the last.
ownersSpan(l) == (l.owner_slots - 1) * (l.account_width + 3)

LEMMA TitleHiddenType ==
    ASSUME NEW l, LoadedTitle(l), NEW u, TitleFits(l, u), NEW shift \in Nat
    PROVE  /\ Len(titleHidden(l, u, shift)) = 3 /\ DOMAIN titleHidden(l, u, shift) = 1..3
           /\ titleHidden(l, u, shift)[1] = valueAt(shift, toAccount, KEY_ACCOUNT, accountOf(l, u))
           /\ titleHidden(l, u, shift)[1] \in Ranges
           /\ titleHidden(l, u, shift)[1].start = shift + 6 /\ titleHidden(l, u, shift)[1].end = shift + 6 + l.account_width
           /\ titleHidden(l, u, shift)[2] \in Ranges
           /\ titleHidden(l, u, shift)[2].start = slotAt(l, u, shift, 1).start
           /\ titleHidden(l, u, shift)[2].start = shift + l.account_width + l.property_id_width + 26
           /\ titleHidden(l, u, shift)[2].end = shift + l.account_width + l.property_id_width + 26 + ownersSpan(l) + l.account_width
           /\ titleHidden(l, u, shift)[3] = valueAt(shift, toFields(l, u), KEY_PROPERTY_ID, propertyOf(l, u))
           /\ titleHidden(l, u, shift)[3] \in Ranges
           /\ titleHidden(l, u, shift)[3].start = shift + l.account_width + 18 /\ titleHidden(l, u, shift)[3].end = shift + l.account_width + 18 + l.property_id_width
           /\ l.account_width \in Nat /\ l.account_width > 0 /\ l.property_id_width \in Nat /\ ownersSpan(l) \in Nat
<1> DEFINE n == l.owner_slots  a == l.account_width  d == l.property_id_width  y == ownersSpan(l)
           x1 == valueAt(shift, toAccount, KEY_ACCOUNT, accountOf(l, u))
           x2 == [start |-> slotAt(l, u, shift, 1).start, end |-> slotAt(l, u, shift, n).end]
           x3 == valueAt(shift, toFields(l, u), KEY_PROPERTY_ID, propertyOf(l, u))
<1>1. titleHidden(l, u, shift) = <<x1, x2, x3>>
  BY DEF titleHidden, accountAt, accountOf, propertyOf
<1>2. a \in Nat /\ a > 0 /\ d \in Nat /\ n \in Nat /\ n > 0
  BY TitleNumbers
<1>3. y \in Nat
  <2>1. n - 1 \in Nat /\ a + 3 \in Nat /\ y = (n - 1) * (a + 3)
    BY <1>2 DEF ownersSpan
  <2> HIDE DEF n, a, y
  <2> QED BY <2>1
<1>4. x1 \in Ranges /\ x1.start = shift + 1 + 5 /\ x1.end = shift + 1 + 5 + a
  <2>1. toAccount \in Seq(Nat) /\ KEY_ACCOUNT \in Nat
    BY TitleTypes, KeyNames DEF Behind
  <2>2. Len(toAccount) = 1
    BY TitleLengths
  <2>3. accountOf(l, u) \in Seq(Nat) /\ Len(accountOf(l, u)) = a
    BY TitlePads, AccountType
  <2>4. x1 \in Ranges /\ x1.start = shift + Len(toAccount) + 5
        /\ x1.end = shift + Len(toAccount) + 5 + Len(accountOf(l, u))
    BY <2>1, <2>3, ValueAtType
  <2> HIDE DEF x1
  <2> QED BY ONLY <2>2, <2>3, <2>4
<1>5. x3 \in Ranges /\ x3.start = shift + (a + 13) + 5 /\ x3.end = shift + (a + 13) + 5 + d
  <2>1. toFields(l, u) \in Seq(Nat) /\ KEY_PROPERTY_ID \in Nat
    BY TitleTypes, KeyNames DEF Behind
  <2>2. Len(toFields(l, u)) = a + 13
    BY TitleLengths
  <2>3. propertyOf(l, u) \in Seq(Nat) /\ Len(propertyOf(l, u)) = d
    BY TitlePads
  <2>4. x3 \in Ranges /\ x3.start = shift + Len(toFields(l, u)) + 5
        /\ x3.end = shift + Len(toFields(l, u)) + 5 + Len(propertyOf(l, u))
    BY <2>1, <2>3, ValueAtType
  <2> HIDE DEF x3
  <2> QED BY ONLY <2>2, <2>3, <2>4
<1>6. /\ slotAt(l, u, shift, 1).start = shift + a + d + 26
      /\ slotAt(l, u, shift, n).end = shift + a + d + 26 + y + a
  <2>1. 1 \in 1..n /\ n \in 1..n
    BY <1>2
  <2>2. slotAt(l, u, shift, 1).start = shift + a + d + 26 + (1 - 1) * (a + 3)
    BY <2>1, SlotAtType
  <2>3. (1 - 1) * (a + 3) = 0
    BY <1>2
  <2>4. slotAt(l, u, shift, n).start = shift + a + d + 26 + y
    BY <2>1, SlotAtType DEF ownersSpan
  <2>5. slotAt(l, u, shift, n).end = slotAt(l, u, shift, n).start + a
    BY <2>1, SlotAtType
  <2>6. shift + a + d + 26 + 0 = shift + a + d + 26
    BY ONLY <1>2, shift \in Nat
  <2> QED BY ONLY <2>2, <2>3, <2>4, <2>5, <2>6
<1>7. x2.start = slotAt(l, u, shift, 1).start /\ x2.end = slotAt(l, u, shift, n).end /\ x2 \in Ranges
  <2>1. slotAt(l, u, shift, 1).start \in Nat /\ slotAt(l, u, shift, n).end \in Nat
    BY ONLY <1>2, <1>3, <1>6, shift \in Nat
  <2> QED BY ONLY <2>1 DEF Ranges
<1> HIDE DEF x1, x2, x3
<1> DEFINE hs == <<x1, x2, x3>>
<1>8. Len(hs) = 3 /\ DOMAIN hs = 1..3 /\ hs[1] = x1 /\ hs[2] = x2 /\ hs[3] = x3
  OBVIOUS
<1> HIDE DEF hs
<1>9. titleHidden(l, u, shift) = hs
  BY <1>1 DEF hs
<1>10. shift + 1 + 5 = shift + 6 /\ shift + (a + 13) + 5 = shift + a + 18
  BY ONLY <1>2, shift \in Nat
<1>11. x1.start = shift + 6 /\ x1.end = shift + 6 + a /\ x3.start = shift + a + 18 /\ x3.end = shift + a + 18 + d
  BY ONLY <1>4, <1>5, <1>10
<1>12. x2.start = shift + a + d + 26 /\ x2.end = shift + a + d + 26 + y + a
  BY ONLY <1>6, <1>7
<1>13. x1 = valueAt(shift, toAccount, KEY_ACCOUNT, accountOf(l, u))
  BY DEF x1
<1>14. x3 = valueAt(shift, toFields(l, u), KEY_PROPERTY_ID, propertyOf(l, u))
  BY DEF x3
<1> QED BY ONLY <1>2, <1>3, <1>4, <1>5, <1>7, <1>8, <1>9, <1>11, <1>12, <1>13, <1>14

Apart(x, y) == x.end <= y.start \/ y.end <= x.start

LEMMA ApartDisjoint ==
    ASSUME NEW x \in Ranges, NEW y \in Ranges, Apart(x, y)
    PROVE  positions(x) \cap positions(y) = {}
  BY DEF Apart, positions, Ranges

titleRevealed(l, u, shift) == revealed(statusLine, contentTypeLine, titleKeys(l, u, shift))

LEMMA TitleRevealedType ==
    ASSUME NEW l, LoadedTitle(l), NEW u, TitleFits(l, u), NEW shift \in Nat
    PROVE  /\ titleRevealed(l, u, shift) \in Seq(Ranges) /\ Len(titleRevealed(l, u, shift)) = 9
           /\ titleRevealed(l, u, shift)[1] = statusLine /\ titleRevealed(l, u, shift)[2] = contentTypeLine
           /\ titleRevealed(l, u, shift)[3] = keyAt(shift, toAccount, KEY_ACCOUNT)
           /\ titleRevealed(l, u, shift)[4] = keyAt(shift, toRecord(l, u), KEY_RECORD)
           /\ titleRevealed(l, u, shift)[5] = keyAt(shift, toFields(l, u), KEY_PROPERTY_ID)
           /\ titleRevealed(l, u, shift)[6] = keyAt(shift, toOwners(l, u), KEY_OWNERS)
           /\ titleRevealed(l, u, shift)[7] = keyAt(shift, toEncumbrance(l, u), KEY_ENCUMBRANCE)
           /\ titleRevealed(l, u, shift)[8] = keyAt(shift, toAssessedValue(l, u), KEY_ASSESSED_VALUE)
           /\ titleRevealed(l, u, shift)[9] = keyAt(shift, toRecordDate(l, u), KEY_RECORD_DATE)
<1> DEFINE ks == titleKeys(l, u, shift)  rv == titleRevealed(l, u, shift)
<1>1. statusLine \in Ranges /\ contentTypeLine \in Ranges
  BY DEF statusLine, contentTypeLine, landing, Ranges
<1>2. /\ ks \in Seq(Ranges) /\ Len(ks) = 7
      /\ ks[1] = keyAt(shift, toAccount, KEY_ACCOUNT)
      /\ ks[2] = keyAt(shift, toRecord(l, u), KEY_RECORD)
      /\ ks[3] = keyAt(shift, toFields(l, u), KEY_PROPERTY_ID)
      /\ ks[4] = keyAt(shift, toOwners(l, u), KEY_OWNERS)
      /\ ks[5] = keyAt(shift, toEncumbrance(l, u), KEY_ENCUMBRANCE)
      /\ ks[6] = keyAt(shift, toAssessedValue(l, u), KEY_ASSESSED_VALUE)
      /\ ks[7] = keyAt(shift, toRecordDate(l, u), KEY_RECORD_DATE)
  BY TitleKeysType
<1>3. /\ rv \in Seq(Ranges) /\ Len(rv) = 2 + Len(ks) /\ rv[1] = statusLine /\ rv[2] = contentTypeLine
      /\ \A i \in 1..Len(ks) : rv[2 + i] = ks[i]
  <2>1. ks \in Seq(Ranges)
    BY ONLY <1>2
  <2>2. rv = revealed(statusLine, contentTypeLine, ks)
    BY DEF titleRevealed
  <2> HIDE DEF ks, rv
  <2> DEFINE x == statusLine  y == contentTypeLine
  <2>3. x \in Ranges /\ y \in Ranges
    BY ONLY <1>1
  <2> HIDE DEF x, y
  <2>4. /\ revealed(x, y, ks) \in Seq(Ranges) /\ Len(revealed(x, y, ks)) = 2 + Len(ks)
        /\ revealed(x, y, ks)[1] = x /\ revealed(x, y, ks)[2] = y
        /\ \A i \in 1..Len(ks) : revealed(x, y, ks)[2 + i] = ks[i]
    <3>1. revealed(x, y, ks) \in Seq(Ranges) /\ Len(revealed(x, y, ks)) = 2 + Len(ks)
      BY ONLY <2>1, <2>3, RevealedType
    <3>2. revealed(x, y, ks)[1] = x /\ revealed(x, y, ks)[2] = y
      BY ONLY <2>1, <2>3, RevealedType
    <3>3. \A i \in 1..Len(ks) : revealed(x, y, ks)[2 + i] = ks[i]
      BY ONLY <2>1, <2>3, RevealedType
    <3> QED BY ONLY <3>1, <3>2, <3>3
  <2> QED BY ONLY <2>2, <2>4 DEF x, y
<1> HIDE DEF ks, rv
<1>4. Len(rv) = 9
  BY ONLY <1>2, <1>3
<1>5. \A i \in 1..7 : rv[2 + i] = ks[i]
  BY ONLY <1>2, <1>3
<1>6. rv[3] = ks[1] /\ rv[4] = ks[2] /\ rv[5] = ks[3] /\ rv[6] = ks[4] /\ rv[7] = ks[5] /\ rv[8] = ks[6]
      /\ rv[9] = ks[7]
  BY ONLY <1>5
<1> QED BY ONLY <1>2, <1>3, <1>4, <1>6 DEF rv

\* No revealed range of a title meets a hidden one, and no two hidden ones meet.
LEMMA TitleApart ==
    ASSUME NEW l, LoadedTitle(l), NEW u, TitleFits(l, u), NEW shift \in Nat, shift >= 5
    PROVE  /\ \A i \in 1..9 : \A j \in 1..3 : Apart(titleRevealed(l, u, shift)[i], titleHidden(l, u, shift)[j])
           /\ \A i, j \in 1..3 : i # j => Apart(titleHidden(l, u, shift)[i], titleHidden(l, u, shift)[j])
           /\ \A j \in 1..3 : titleHidden(l, u, shift)[j] \in Ranges
           /\ \A i \in 1..9 : titleRevealed(l, u, shift)[i] \in Ranges
<1> DEFINE a == l.account_width  d == l.property_id_width  y == ownersSpan(l)
           hs == titleHidden(l, u, shift)  rv == titleRevealed(l, u, shift)
           c5 == Len(toEncumbrance(l, u))  c6 == Len(toAssessedValue(l, u))  c7 == Len(toRecordDate(l, u))
<1>1. /\ hs[1] \in Ranges /\ hs[1].start = shift + 6 /\ hs[1].end = shift + 6 + a
      /\ hs[2] \in Ranges /\ hs[2].start = shift + a + d + 26 /\ hs[2].end = shift + a + d + 26 + y + a
      /\ hs[3] \in Ranges /\ hs[3].start = shift + a + 18 /\ hs[3].end = shift + a + 18 + d
      /\ a \in Nat /\ d \in Nat /\ y \in Nat
  BY TitleHiddenType
<1>2. /\ Len(toAccount) = 1 /\ Len(toRecord(l, u)) = a + 8 /\ Len(toFields(l, u)) = a + 13
      /\ Len(toOwners(l, u)) = a + d + 20
  BY TitleLengths
<1>3. c5 >= a + d + 29 + y + a /\ c6 >= c5 /\ c7 >= c6 /\ c5 \in Nat /\ c6 \in Nat /\ c7 \in Nat
  <2> DEFINE r1 == l.rest_widths[1]  r2 == l.rest_widths[2]  e == Len(listed(slots(l, u)))  f == Len(toSlots(l, u))
  <2>1. f = a + d + 25 /\ e = y + a + 2 /\ c5 = f + e + 2 /\ c6 = c5 + r1 + 7 /\ c7 = c6 + r2 + 7
    BY TitleLengths DEF ownersSpan
  <2>2. r1 \in Nat /\ r2 \in Nat
    BY TitleNumbers
  <2> HIDE DEF a, d, y, c5, c6, c7, r1, r2, e, f
  <2> QED BY ONLY <1>1, <2>1, <2>2
<1>4. /\ toAccount \in Seq(Nat) /\ toRecord(l, u) \in Seq(Nat) /\ toFields(l, u) \in Seq(Nat)
      /\ toOwners(l, u) \in Seq(Nat) /\ toEncumbrance(l, u) \in Seq(Nat) /\ toAssessedValue(l, u) \in Seq(Nat)
      /\ toRecordDate(l, u) \in Seq(Nat)
  BY TitleTypes DEF Behind
<1>5. /\ KEY_ACCOUNT \in Nat /\ KEY_RECORD \in Nat /\ KEY_PROPERTY_ID \in Nat /\ KEY_OWNERS \in Nat
      /\ KEY_ENCUMBRANCE \in Nat /\ KEY_ASSESSED_VALUE \in Nat /\ KEY_RECORD_DATE \in Nat
  BY KeyNames
<1>6. \A w \in Seq(Nat), name \in Nat :
        /\ keyAt(shift, w, name) \in Ranges /\ keyAt(shift, w, name).start = shift + Len(w)
        /\ keyAt(shift, w, name).end = shift + Len(w) + 4
  BY KeyAtType
<1>7. /\ rv[1] = statusLine /\ rv[2] = contentTypeLine
      /\ rv[3] = keyAt(shift, toAccount, KEY_ACCOUNT)
      /\ rv[4] = keyAt(shift, toRecord(l, u), KEY_RECORD)
      /\ rv[5] = keyAt(shift, toFields(l, u), KEY_PROPERTY_ID)
      /\ rv[6] = keyAt(shift, toOwners(l, u), KEY_OWNERS)
      /\ rv[7] = keyAt(shift, toEncumbrance(l, u), KEY_ENCUMBRANCE)
      /\ rv[8] = keyAt(shift, toAssessedValue(l, u), KEY_ASSESSED_VALUE)
      /\ rv[9] = keyAt(shift, toRecordDate(l, u), KEY_RECORD_DATE)
      /\ rv \in Seq(Ranges) /\ Len(rv) = 9
  BY TitleRevealedType
<1> HIDE DEF hs, rv, a, d, y
<1>20. \A w \in Seq(Nat), name \in Nat : \A r : r = keyAt(shift, w, name) => r.start = shift + Len(w) /\ r.end = shift + Len(w) + 4
  BY ONLY <1>6
<1>21. rv[3].start = shift + Len(toAccount) /\ rv[3].end = shift + Len(toAccount) + 4
  <2>1. rv[3] = keyAt(shift, toAccount, KEY_ACCOUNT) /\ toAccount \in Seq(Nat) /\ KEY_ACCOUNT \in Nat
    BY ONLY <1>4, <1>5, <1>7
  <2> QED BY ONLY <2>1, <1>20
<1>22. rv[4].start = shift + Len(toRecord(l, u)) /\ rv[4].end = shift + Len(toRecord(l, u)) + 4
  <2>1. rv[4] = keyAt(shift, toRecord(l, u), KEY_RECORD) /\ toRecord(l, u) \in Seq(Nat) /\ KEY_RECORD \in Nat
    BY ONLY <1>4, <1>5, <1>7
  <2> QED BY ONLY <2>1, <1>20
<1>23. rv[5].start = shift + Len(toFields(l, u)) /\ rv[5].end = shift + Len(toFields(l, u)) + 4
  <2>1. rv[5] = keyAt(shift, toFields(l, u), KEY_PROPERTY_ID) /\ toFields(l, u) \in Seq(Nat) /\ KEY_PROPERTY_ID \in Nat
    BY ONLY <1>4, <1>5, <1>7
  <2> QED BY ONLY <2>1, <1>20
<1>24. rv[6].start = shift + Len(toOwners(l, u)) /\ rv[6].end = shift + Len(toOwners(l, u)) + 4
  <2>1. rv[6] = keyAt(shift, toOwners(l, u), KEY_OWNERS) /\ toOwners(l, u) \in Seq(Nat) /\ KEY_OWNERS \in Nat
    BY ONLY <1>4, <1>5, <1>7
  <2> QED BY ONLY <2>1, <1>20
<1>25. rv[7].start = shift + Len(toEncumbrance(l, u)) /\ rv[7].end = shift + Len(toEncumbrance(l, u)) + 4
  <2>1. rv[7] = keyAt(shift, toEncumbrance(l, u), KEY_ENCUMBRANCE) /\ toEncumbrance(l, u) \in Seq(Nat) /\ KEY_ENCUMBRANCE \in Nat
    BY ONLY <1>4, <1>5, <1>7
  <2> QED BY ONLY <2>1, <1>20
<1>26. rv[8].start = shift + Len(toAssessedValue(l, u)) /\ rv[8].end = shift + Len(toAssessedValue(l, u)) + 4
  <2>1. rv[8] = keyAt(shift, toAssessedValue(l, u), KEY_ASSESSED_VALUE) /\ toAssessedValue(l, u) \in Seq(Nat) /\ KEY_ASSESSED_VALUE \in Nat
    BY ONLY <1>4, <1>5, <1>7
  <2> QED BY ONLY <2>1, <1>20
<1>27. rv[9].start = shift + Len(toRecordDate(l, u)) /\ rv[9].end = shift + Len(toRecordDate(l, u)) + 4
  <2>1. rv[9] = keyAt(shift, toRecordDate(l, u), KEY_RECORD_DATE) /\ toRecordDate(l, u) \in Seq(Nat) /\ KEY_RECORD_DATE \in Nat
    BY ONLY <1>4, <1>5, <1>7
  <2> QED BY ONLY <2>1, <1>20
<1>8. /\ rv[3].start = shift + 1 /\ rv[3].end = shift + 1 + 4
      /\ rv[4].start = shift + (a + 8) /\ rv[4].end = shift + (a + 8) + 4
      /\ rv[5].start = shift + (a + 13) /\ rv[5].end = shift + (a + 13) + 4
      /\ rv[6].start = shift + (a + d + 20) /\ rv[6].end = shift + (a + d + 20) + 4
  <2>3. /\ Len(toAccount) = 1 /\ Len(toRecord(l, u)) = a + 8 /\ Len(toFields(l, u)) = a + 13
        /\ Len(toOwners(l, u)) = a + d + 20
    BY ONLY <1>2
  <2> QED BY ONLY <2>3, <1>21, <1>22, <1>23, <1>24
<1>9. /\ rv[7].start = shift + c5 /\ rv[8].start = shift + c6 /\ rv[9].start = shift + c7
  BY ONLY <1>25, <1>26, <1>27
<1>10. /\ rv[1].start = 0 /\ rv[1].end = 1 /\ rv[2].start = 2 /\ rv[2].end = 3
  BY <1>7 DEF statusLine, contentTypeLine, landing
<1> HIDE DEF c5, c6, c7
<1>11. ASSUME NEW j \in 1..3 PROVE hs[j].start >= shift + 6 /\ hs[j].end <= shift + c5 /\ hs[j] \in Ranges
  <2>1. hs[1].start >= shift + 6 /\ hs[2].start >= shift + 6 /\ hs[3].start >= shift + 6
    BY ONLY <1>1, shift \in Nat
  <2>2. hs[1].end <= shift + c5 /\ hs[2].end <= shift + c5 /\ hs[3].end <= shift + c5
    BY ONLY <1>1, <1>3, shift \in Nat
  <2>3. j = 1 \/ j = 2 \/ j = 3
    OBVIOUS
  <2> QED BY ONLY <1>1, <2>1, <2>2, <2>3
<1>12. ASSUME NEW j \in 1..3
       PROVE /\ Apart(rv[1], hs[j]) /\ Apart(rv[2], hs[j]) /\ Apart(rv[3], hs[j])
             /\ Apart(rv[7], hs[j]) /\ Apart(rv[8], hs[j]) /\ Apart(rv[9], hs[j])
  <2> DEFINE p == hs[j].start  q == hs[j].end
  <2>1. p \in Nat /\ q \in Nat /\ p >= shift + 6 /\ q <= shift + c5
    BY <1>11 DEF Ranges
  <2> HIDE DEF p, q
  <2>2. rv[1].end <= p /\ rv[2].end <= p /\ rv[3].end <= p
    BY ONLY <1>8, <1>10, <2>1, shift \in Nat
  <2>3. q <= rv[7].start /\ q <= rv[8].start /\ q <= rv[9].start
    BY ONLY <1>3, <1>9, <2>1, shift \in Nat
  <2> QED BY ONLY <2>2, <2>3 DEF Apart, p, q
<1>13. /\ hs[1].end <= rv[4].start /\ rv[4].end <= hs[2].start /\ rv[4].end <= hs[3].start
       /\ hs[1].end <= rv[5].start /\ rv[5].end <= hs[2].start /\ rv[5].end <= hs[3].start
       /\ hs[1].end <= rv[6].start /\ rv[6].end <= hs[2].start /\ hs[3].end <= rv[6].start
       /\ hs[1].end <= hs[2].start /\ hs[1].end <= hs[3].start /\ hs[3].end <= hs[2].start
  BY ONLY <1>1, <1>8, shift \in Nat
<1>14. ASSUME NEW i \in 1..9, NEW j \in 1..3 PROVE Apart(rv[i], hs[j])
  <2>1. CASE i \in {1, 2, 3, 7, 8, 9}
    BY <1>12, <2>1
  <2>2. CASE i \in {4, 5, 6}
    <3>1. j = 1 \/ j = 2 \/ j = 3
      OBVIOUS
    <3> QED BY ONLY <1>13, <2>2, <3>1 DEF Apart
  <2> QED BY <2>1, <2>2
<1>15. ASSUME NEW i \in 1..3, NEW j \in 1..3, i # j PROVE Apart(hs[i], hs[j])
  <2>1. (i = 1 \/ i = 2 \/ i = 3) /\ (j = 1 \/ j = 2 \/ j = 3)
    OBVIOUS
  <2> QED BY ONLY <1>13, <1>15, <2>1 DEF Apart
<1>16. \A i \in 1..9 : rv[i] \in Ranges
  <2>1. rv \in Seq(Ranges) /\ Len(rv) = 9
    BY ONLY <1>7
  <2>2. \A i \in 1..Len(rv) : rv[i] \in Ranges
    BY ONLY <2>1, ElementOfSeq
  <2> QED BY ONLY <2>1, <2>2
<1> QED BY ONLY <1>11, <1>14, <1>15, <1>16 DEF hs, rv

\* A title has been rendered under a layout its readers have loaded.
TitleState ==
    /\ LoadedTitle(layout) /\ TitleFits(layout, view)
    /\ shape = shapeOf(layout) /\ response = render_response(layout, view)

LEMMA TitleStateFacts ==
    ASSUME TitleState
    PROVE  /\ TitleFits(layout, blank(layout)) /\ titleHead(layout) \in Seq(Nat)
           /\ Len(titleHead(layout)) \in Nat /\ Len(titleHead(layout)) >= 5
           /\ response = titleHead(layout) \o titleBody(layout, view)
           /\ response \in Seq(Nat)
           /\ shape.template = titleHead(layout) \o titleBody(layout, blank(layout))
           /\ shape.template \in Seq(Nat)
           /\ Len(response) = shape.len
           /\ shape.revealed = titleRevealed(layout, blank(layout), Len(titleHead(layout)))
           /\ shape.hidden = titleHidden(layout, blank(layout), Len(titleHead(layout)))
           /\ shape.slot_offsets
              = [k \in 1..layout.owner_slots |->
                    slotAt(layout, blank(layout), Len(titleHead(layout)), k).start
                    - slotAt(layout, blank(layout), Len(titleHead(layout)), 1).start]
<1> DEFINE u == blank(layout)  h == titleHead(layout)  b == titleBody(layout, view)  c == titleBody(layout, u)
<1>0. LoadedTitle(layout) /\ TitleFits(layout, view) /\ shape = shapeOf(layout) /\ response = render_response(layout, view)
  BY DEF TitleState
<1>1. TitleFits(layout, u)
  BY <1>0, BlankTitleFits
<1>2. /\ response = h \o b /\ h \in Seq(Nat) /\ b \in Seq(Nat) /\ Len(b) = Len(c) /\ Len(b) \in Nat
  BY <1>0, TitleRendered
<1>3. render_response(layout, u) = h \o c /\ c \in Seq(Nat)
  BY <1>0, <1>1, TitleRendered
<1>4. TitleShape(layout, u, Len(h))
  BY <1>0, TitleShapeIs
<1>5. /\ shape.template = render_response(layout, u) /\ shape.len = Len(h) + Len(c)
      /\ shape.revealed = titleRevealed(layout, u, Len(h)) /\ shape.hidden = titleHidden(layout, u, Len(h))
      /\ shape.slot_offsets = [k \in 1..layout.owner_slots |->
                    slotAt(layout, u, Len(h), k).start - slotAt(layout, u, Len(h), 1).start]
  BY <1>0, <1>4 DEF TitleShape, titleRevealed
<1>6. Len(h) \in Nat /\ Len(h) >= 5
  <2>1. h = head(Len(c)) /\ Len(c) \in Nat
    BY <1>2 DEF titleHead
  <2>2. Len(head(Len(c))) >= 5 /\ Len(head(Len(c))) \in Nat
    BY ONLY <1>3, <2>1, HeadSpots
  <2> QED BY ONLY <2>1, <2>2
<1> HIDE DEF h, b, c, u
<1>7. h \o b \in Seq(Nat) /\ Len(h \o b) = Len(h) + Len(b) /\ h \o c \in Seq(Nat)
  BY <1>2, <1>3, Joined
<1>8. response \in Seq(Nat) /\ Len(response) = shape.len
  BY ONLY <1>2, <1>5, <1>7
<1>9. shape.template = h \o c /\ shape.template \in Seq(Nat)
  BY ONLY <1>3, <1>5, <1>7
<1> QED BY ONLY <1>1, <1>2, <1>5, <1>6, <1>8, <1>9 DEF h, u, b, c

\* What a presentation of a title reveals: two lines of the head and the keys.
LEMMA TitleRevealedSpots ==
    ASSUME NEW l, LoadedTitle(l), NEW v, TitleFits(l, v), NEW i \in 1..9
    PROVE  /\ titlePieces[i] \in Seq(Nat)
           /\ Spot(titleHead(l) \o titleBody(l, v), titleRevealed(l, blank(l), Len(titleHead(l)))[i], titlePieces[i])
<1> DEFINE u == blank(l)  h == titleHead(l)  s == titleBody(l, v)  rv == titleRevealed(l, u, Len(h))
<1>1. TitleFits(l, u)
  BY BlankTitleFits
<1>2. h \in Seq(Nat) /\ s \in Seq(Nat) /\ Len(titleBody(l, u)) \in Nat
  BY TitleRendered
<1>3. Len(h) \in Nat
  BY ONLY <1>2
<1>4. /\ statusPiece \in Seq(Nat) /\ contentTypePiece \in Seq(Nat)
      /\ Spot(h \o s, statusLine, statusPiece) /\ Spot(h \o s, contentTypeLine, contentTypePiece)
  BY ONLY <1>2, HeadSpots DEF titleHead
<1> HIDE DEF h
<1>5. /\ Spot(h \o s, keyAt(Len(h), toAccount, KEY_ACCOUNT), key(KEY_ACCOUNT))
      /\ Spot(h \o s, keyAt(Len(h), toRecord(l, u), KEY_RECORD), key(KEY_RECORD))
      /\ Spot(h \o s, keyAt(Len(h), toFields(l, u), KEY_PROPERTY_ID), key(KEY_PROPERTY_ID))
      /\ Spot(h \o s, keyAt(Len(h), toOwners(l, u), KEY_OWNERS), key(KEY_OWNERS))
      /\ Spot(h \o s, keyAt(Len(h), toEncumbrance(l, u), KEY_ENCUMBRANCE), key(KEY_ENCUMBRANCE))
      /\ Spot(h \o s, keyAt(Len(h), toAssessedValue(l, u), KEY_ASSESSED_VALUE), key(KEY_ASSESSED_VALUE))
      /\ Spot(h \o s, keyAt(Len(h), toRecordDate(l, u), KEY_RECORD_DATE), key(KEY_RECORD_DATE))
  BY <1>1, <1>2, TitleKeySpots
<1>6. /\ rv[1] = statusLine /\ rv[2] = contentTypeLine
      /\ rv[3] = keyAt(Len(h), toAccount, KEY_ACCOUNT)
      /\ rv[4] = keyAt(Len(h), toRecord(l, u), KEY_RECORD)
      /\ rv[5] = keyAt(Len(h), toFields(l, u), KEY_PROPERTY_ID)
      /\ rv[6] = keyAt(Len(h), toOwners(l, u), KEY_OWNERS)
      /\ rv[7] = keyAt(Len(h), toEncumbrance(l, u), KEY_ENCUMBRANCE)
      /\ rv[8] = keyAt(Len(h), toAssessedValue(l, u), KEY_ASSESSED_VALUE)
      /\ rv[9] = keyAt(Len(h), toRecordDate(l, u), KEY_RECORD_DATE)
  BY <1>1, <1>3, TitleRevealedType
<1>7. /\ titlePieces[1] = statusPiece /\ titlePieces[2] = contentTypePiece /\ titlePieces[3] = key(KEY_ACCOUNT)
      /\ titlePieces[4] = key(KEY_RECORD) /\ titlePieces[5] = key(KEY_PROPERTY_ID)
      /\ titlePieces[6] = key(KEY_OWNERS) /\ titlePieces[7] = key(KEY_ENCUMBRANCE)
      /\ titlePieces[8] = key(KEY_ASSESSED_VALUE) /\ titlePieces[9] = key(KEY_RECORD_DATE)
  BY DEF titlePieces
<1>8. /\ key(KEY_ACCOUNT) \in Seq(Nat) /\ key(KEY_RECORD) \in Seq(Nat) /\ key(KEY_PROPERTY_ID) \in Seq(Nat)
      /\ key(KEY_OWNERS) \in Seq(Nat) /\ key(KEY_ENCUMBRANCE) \in Seq(Nat) /\ key(KEY_ASSESSED_VALUE) \in Seq(Nat)
      /\ key(KEY_RECORD_DATE) \in Seq(Nat)
  BY KeyNames, KeyType
<1> DEFINE r == h \o s
<1> HIDE DEF rv, s, u, r
<1>9. i = 1 \/ i = 2 \/ i = 3 \/ i = 4 \/ i = 5 \/ i = 6 \/ i = 7 \/ i = 8 \/ i = 9
  OBVIOUS
<1>10. titlePieces[i] \in Seq(Nat)
  BY ONLY <1>4, <1>7, <1>8, <1>9
<1>11. Spot(r, rv[i], titlePieces[i])
  <2>1. /\ Spot(r, rv[1], titlePieces[1]) /\ Spot(r, rv[2], titlePieces[2]) /\ Spot(r, rv[3], titlePieces[3])
        /\ Spot(r, rv[4], titlePieces[4]) /\ Spot(r, rv[5], titlePieces[5]) /\ Spot(r, rv[6], titlePieces[6])
        /\ Spot(r, rv[7], titlePieces[7]) /\ Spot(r, rv[8], titlePieces[8]) /\ Spot(r, rv[9], titlePieces[9])
    BY ONLY <1>4, <1>5, <1>6, <1>7 DEF r
  <2> QED BY ONLY <1>9, <2>1
<1> QED BY <1>10, <1>11 DEF h, s, rv, u, r

LEMMA TitleRevealsNoValue ==
    ASSUME TitleState
    PROVE  RevealsNoValue
<1> DEFINE l == layout  u == blank(l)  h == titleHead(l)  S == Len(h)
           rv == titleRevealed(l, u, S)  hs == titleHidden(l, u, S)  t == shape.template
<1>0. LoadedTitle(l) /\ TitleFits(l, view)
  BY DEF TitleState
<1>1. /\ TitleFits(l, u) /\ S \in Nat /\ S >= 5 /\ response = h \o titleBody(l, view) /\ response \in Seq(Nat)
      /\ t = h \o titleBody(l, u) /\ t \in Seq(Nat)
      /\ shape.revealed = rv /\ shape.hidden = hs
  BY TitleStateFacts
<1>2. DOMAIN rv = 1..9 /\ DOMAIN hs = 1..3
  <2>1. rv \in Seq(Ranges) /\ Len(rv) = 9 /\ DOMAIN hs = 1..3
    BY <1>0, <1>1, TitleRevealedType, TitleHiddenType
  <2> HIDE DEF rv, hs
  <2> QED BY ONLY <2>1
<1>3. /\ \A i \in 1..9 : \A j \in 1..3 : Apart(rv[i], hs[j])
      /\ \A i, j \in 1..3 : i # j => Apart(hs[i], hs[j])
      /\ \A j \in 1..3 : hs[j] \in Ranges
      /\ \A i \in 1..9 : rv[i] \in Ranges
  BY <1>0, <1>1, TitleApart
<1>4. ASSUME NEW i \in 1..9
      PROVE  /\ titlePieces[i] \in Seq(Nat) /\ Spot(response, rv[i], titlePieces[i])
             /\ Spot(t, rv[i], titlePieces[i])
  <2>1. titlePieces[i] \in Seq(Nat) /\ Spot(h \o titleBody(l, view), rv[i], titlePieces[i])
    BY <1>0, TitleRevealedSpots
  <2>2. Spot(h \o titleBody(l, u), rv[i], titlePieces[i])
    BY <1>0, <1>1, TitleRevealedSpots
  <2> QED BY ONLY <1>1, <2>1, <2>2
<1> HIDE DEF l, u, h, S, rv, hs, t
<1>5. ASSUME NEW i \in 1..9
      PROVE  SubSeq(response, rv[i].start + 1, rv[i].end) = SubSeq(t, rv[i].start + 1, rv[i].end)
  <2>1. SubSeq(response, rv[i].start + 1, rv[i].end) = titlePieces[i]
    BY ONLY <1>1, <1>4, SpotReads
  <2>2. SubSeq(t, rv[i].start + 1, rv[i].end) = titlePieces[i]
    BY ONLY <1>1, <1>4, SpotReads
  <2> QED BY ONLY <2>1, <2>2
<1>6. ASSUME NEW i \in 1..9, NEW j \in 1..3
      PROVE  positions(rv[i]) \cap positions(hs[j]) = {}
  BY ONLY <1>3, ApartDisjoint, i \in 1..9, j \in 1..3
<1>7. ASSUME NEW i \in 1..3, NEW j \in 1..3, i # j
      PROVE  positions(hs[i]) \cap positions(hs[j]) = {}
  BY ONLY <1>3, <1>7, ApartDisjoint, i \in 1..3, j \in 1..3
<1>8. /\ \A i \in DOMAIN shape.revealed :
            /\ read(shape.revealed[i])
               = SubSeq(shape.template, shape.revealed[i].start + 1, shape.revealed[i].end)
            /\ \A j \in DOMAIN shape.hidden :
                positions(shape.revealed[i]) \cap positions(shape.hidden[j]) = {}
      /\ \A i, j \in DOMAIN shape.hidden :
            i # j => positions(shape.hidden[i]) \cap positions(shape.hidden[j]) = {}
  BY ONLY <1>1, <1>2, <1>5, <1>6, <1>7 DEF read, t
<1> QED BY <1>8 DEF RevealsNoValue

LEMMA TitleQuotesStay ==
    ASSUME TitleState
    PROVE  QuotesStay
<1> DEFINE l == layout  u == blank(l)  h == titleHead(l)  b == titleBody(l, view)  c == titleBody(l, u)
           q == Blankable(l)
<1>0. LoadedTitle(l) /\ TitleFits(l, view)
  BY DEF TitleState
<1>1. /\ TitleFits(l, u) /\ h \in Seq(Nat) /\ response = h \o b /\ shape.template = h \o c /\ response \in Seq(Nat)
  BY TitleStateFacts
<1>2. Alike(q, b, c) /\ q \in BOOLEAN
  BY <1>0, <1>1, TitleAlike DEF Blankable
<1>3. b \in Seq(Nat) /\ c \in Seq(Nat)
  BY <1>0, <1>1, TitleAt
<1>4. q = (layout.padding # <<Quote>>)
  BY DEF Blankable
<1> HIDE DEF l, u, h, b, c, q
<1>5. Alike(q, h, h)
  BY ONLY <1>1, <1>2, AlikeSelf
<1>6. Alike(q, h \o b, h \o c)
  BY ONLY <1>1, <1>2, <1>3, <1>5, AlikeJoined
<1>7. q => \A i \in 1..Len(response) : response[i] = Quote <=> shape.template[i] = Quote
  BY ONLY <1>1, <1>6 DEF Alike
<1>8. DOMAIN response = 1..Len(response)
  BY ONLY <1>1
<1> QED BY ONLY <1>4, <1>7, <1>8 DEF QuotesStay

\* Where a title's readers find its values.
LEMMA TitleReads ==
    ASSUME TitleState
    PROVE  /\ read(shape.hidden[1]) = accountOf(layout, view)
           /\ read(shape.hidden[3]) = propertyOf(layout, view)
           /\ \A k \in 1..layout.owner_slots :
                Spot(response, slotAt(layout, blank(layout), Len(titleHead(layout)), k), ownerOf(layout, view, k))
<1> DEFINE l == layout  u == blank(l)  h == titleHead(l)  b == titleBody(l, view)  hs == titleHidden(l, u, Len(h))
<1>0. LoadedTitle(l) /\ TitleFits(l, view)
  BY DEF TitleState
<1>1. /\ TitleFits(l, u) /\ h \in Seq(Nat) /\ response = h \o b /\ response \in Seq(Nat) /\ Len(h) \in Nat
      /\ shape.hidden = hs
  BY TitleStateFacts
<1>2. /\ b \in Seq(Nat) /\ At(b, Len(toAccount), member(KEY_ACCOUNT, accountOf(l, view)))
      /\ At(b, Len(toFields(l, view)), member(KEY_PROPERTY_ID, propertyOf(l, view)))
  BY <1>0, TitleAt
<1>3. /\ toAccount \in Seq(Nat) /\ toFields(l, u) \in Seq(Nat)
  BY <1>0, <1>1, TitleTypes DEF Behind
<1>4. Len(toFields(l, view)) = Len(toFields(l, u))
  BY <1>0, <1>1, TitleAlike DEF Alike
<1>5. /\ hs[1] = valueAt(Len(h), toAccount, KEY_ACCOUNT, accountOf(l, u))
      /\ hs[3] = valueAt(Len(h), toFields(l, u), KEY_PROPERTY_ID, propertyOf(l, u))
  BY <1>0, <1>1, TitleHiddenType
<1>6. /\ propertyOf(l, view) \in Seq(Nat) /\ propertyOf(l, u) \in Seq(Nat)
      /\ Len(propertyOf(l, u)) = Len(propertyOf(l, view))
  BY <1>0, <1>1, TitlePads
<1>7. /\ accountOf(l, view) \in Seq(Nat) /\ accountOf(l, u) \in Seq(Nat)
      /\ Len(accountOf(l, u)) = Len(accountOf(l, view))
  <2>1. AccountFits(l, view) /\ AccountFits(l, u)
    BY <1>0, <1>1, TitlePads
  <2> QED BY <2>1, AccountType
<1>8. KEY_ACCOUNT \in Nat /\ KEY_PROPERTY_ID \in Nat
  BY KeyNames
<1>9. ASSUME NEW k \in 1..layout.owner_slots
      PROVE  Spot(response, slotAt(l, u, Len(h), k), ownerOf(l, view, k))
  BY <1>0, <1>1, SlotSpot
<1> HIDE DEF l, u, h, b, hs
<1>10. Spot(h \o b, valueAt(Len(h), toAccount, KEY_ACCOUNT, accountOf(l, u)), accountOf(l, view))
  BY ONLY <1>1, <1>2, <1>3, <1>7, <1>8, ValueSpot
<1>11. At(b, Len(toFields(l, u)), member(KEY_PROPERTY_ID, propertyOf(l, view)))
  BY ONLY <1>2, <1>4
<1>12. Spot(h \o b, valueAt(Len(h), toFields(l, u), KEY_PROPERTY_ID, propertyOf(l, u)), propertyOf(l, view))
  BY ONLY <1>1, <1>2, <1>3, <1>6, <1>8, <1>11, ValueSpot
<1>13. read(hs[1]) = accountOf(l, view)
  <2>1. Spot(response, hs[1], accountOf(l, view))
    BY ONLY <1>1, <1>5, <1>10
  <2> QED BY ONLY <1>1, <1>7, <2>1, SpotReads DEF read
<1>14. read(hs[3]) = propertyOf(l, view)
  <2>1. Spot(response, hs[3], propertyOf(l, view))
    BY ONLY <1>1, <1>5, <1>12
  <2> QED BY ONLY <1>1, <1>6, <2>1, SpotReads DEF read
<1> QED BY ONLY <1>1, <1>9, <1>13, <1>14 DEF l, u, h

\* The slots a title's readers count with.
LEMMA TitleSlots ==
    ASSUME TitleState
    PROVE  /\ DOMAIN shape.slot_offsets = 1..layout.owner_slots /\ Len(shape.slot_offsets) = layout.owner_slots
           /\ \A k \in 1..layout.owner_slots :
                shape.slot_offsets[k] = (k - 1) * (layout.account_width + 3)
           /\ \A k \in 1..layout.owner_slots :
                /\ shape.hidden[2].start + (k - 1) * (layout.account_width + 3) \in Nat
                /\ At(response, shape.hidden[2].start + (k - 1) * (layout.account_width + 3),
                      ownerOf(layout, view, k))
           /\ shape.hidden[2] \in Ranges
           /\ shape.hidden[2].end = shape.hidden[2].start + ownersSpan(layout) + layout.account_width
<1> DEFINE l == layout  u == blank(l)  S == Len(titleHead(l))  hs == titleHidden(l, u, S)
           a == l.account_width  d == l.property_id_width  n == l.owner_slots  f == shape.slot_offsets
           g(k) == slotAt(l, u, S, k)  e(k) == (k - 1) * (a + 3)  st == hs[2].start
<1>0. LoadedTitle(l) /\ TitleFits(l, view)
  BY DEF TitleState
<1>1. /\ TitleFits(l, u) /\ S \in Nat /\ shape.hidden = hs
      /\ f = [k \in 1..n |-> g(k).start - g(1).start]
  BY TitleStateFacts
<1>2. /\ a \in Nat /\ d \in Nat /\ n \in Nat /\ n > 0
  BY <1>0, TitleNumbers
<1>3. ASSUME NEW k \in 1..n PROVE g(k).start = S + a + d + 26 + e(k)
  BY <1>0, <1>1, SlotAtType
<1>4. /\ st = S + a + d + 26 /\ hs[2] \in Ranges /\ hs[2].end = S + a + d + 26 + ownersSpan(l) + a
  BY <1>0, <1>1, TitleHiddenType
<1>5. ASSUME NEW k \in 1..n PROVE Spot(response, g(k), ownerOf(l, view, k))
  BY TitleReads
<1>6. \A k \in 1..n : e(k) \in Nat
  <2> TAKE k \in 1..n
  <2>1. k - 1 \in Nat /\ a + 3 \in Nat
    BY ONLY <1>2, k \in 1..n
  <2> HIDE DEF a
  <2> QED BY ONLY <2>1
<1>7. e(1) = 0 /\ 1 \in 1..n
  BY <1>2
<1> HIDE DEF l, u, S, hs, a, d, n, g, e, f, st
<1>8. ASSUME NEW k \in 1..n PROVE g(k).start - g(1).start = e(k) /\ g(k).start = st + e(k)
  <2>1. g(k).start = S + a + d + 26 + e(k) /\ g(1).start = S + a + d + 26 + 0 /\ e(k) \in Nat
    BY ONLY <1>3, <1>6, <1>7, k \in 1..n
  <2> QED BY ONLY <1>1, <1>2, <1>4, <2>1
<1>9. \A k \in 1..n : f[k] = e(k)
  BY ONLY <1>1, <1>8
<1>10. DOMAIN f = 1..n /\ Len(f) = n
  BY ONLY <1>1, <1>2
<1>11. ASSUME NEW k \in 1..n PROVE st + e(k) \in Nat /\ At(response, st + e(k), ownerOf(l, view, k))
  <2>1. g(k).start \in Nat /\ At(response, g(k).start, ownerOf(l, view, k))
    BY ONLY <1>5, k \in 1..n DEF Spot, Ranges
  <2> QED BY ONLY <1>8, <2>1, k \in 1..n
<1>12. hs[2].end = st + ownersSpan(l) + a
  BY ONLY <1>4
<1> QED BY ONLY <1>1, <1>4, <1>9, <1>10, <1>11, <1>12 DEF l, a, n, e, f, st

LEMMA TitleReadersFindValues ==
    ASSUME TitleState
    PROVE  ReadersFindValues
<1> DEFINE l == layout  a == l.account_width
<1>0. LoadedTitle(l) /\ TitleFits(l, view)
  BY DEF TitleState
<1>1. l.kind = "title"
  BY <1>0, TitleNumbers
<1>2. Len(response) = shape.len /\ response \in Seq(Nat)
  BY TitleStateFacts
<1>3. ASSUME NEW k \in DOMAIN shape.slot_offsets
      PROVE  read([start |-> shape.hidden[2].start + shape.slot_offsets[k],
                   end |-> shape.hidden[2].start + shape.slot_offsets[k] + a]) = ownerOf(l, view, k)
  <2> DEFINE at == shape.hidden[2].start + shape.slot_offsets[k]
  <2>1. k \in 1..l.owner_slots
    BY TitleSlots
  <2>2. at \in Nat /\ At(response, at, ownerOf(l, view, k))
    BY <2>1, TitleSlots
  <2>3. ownerOf(l, view, k) \in Seq(Nat) /\ Len(ownerOf(l, view, k)) = a
    BY <1>0, <2>1, TitlePads
  <2> HIDE DEF at, a
  <2>4. SubSeq(response, at + 1, at + a) = ownerOf(l, view, k)
    BY ONLY <1>2, <2>2, <2>3, AtReads
  <2>5. read([start |-> at, end |-> at + a]) = SubSeq(response, at + 1, at + a)
    BY DEF read
  <2> QED BY ONLY <2>4, <2>5 DEF at
<1>4. read(shape.hidden[1]) = accountOf(l, view) /\ read(shape.hidden[3]) = propertyOf(l, view)
  BY TitleReads
<1> QED BY ONLY <1>1, <1>2, <1>3, <1>4 DEF ReadersFindValues, ofTitle, accountOf, propertyOf, ownerOf

\* A part of a range, read within the range.
LEMMA WithinRange ==
    ASSUME NEW r \in Seq(Nat), NEW range \in Ranges, range.end <= Len(r), NEW p \in Seq(Nat), NEW n \in Nat,
           At(r, range.start + n, p), n + Len(p) <= range.end - range.start
    PROVE  SubSeq(SubSeq(r, range.start + 1, range.end), n + 1, n + Len(p)) = p
<1> DEFINE x == range.start  z == range.end  s == SubSeq(r, x + 1, z)
<1>1. x \in Nat /\ z \in Nat /\ z <= Len(r) /\ n + Len(p) <= z - x /\ Len(p) \in Nat
  BY DEF Ranges
<1> HIDE DEF x, z
<1>2. \A i \in (x + 1)..z : r[i] \in Nat
  BY <1>1
<1>3. /\ s \in Seq(Nat) /\ Len(s) = IF x + 1 <= z THEN z - (x + 1) + 1 ELSE 0
      /\ \A i \in 1..(z - (x + 1) + 1) : s[i] = r[(x + 1) + i - 1]
  BY ONLY <1>1, <1>2, x + 1 \in Int, z \in Int, SubSeqProperties
<1> HIDE DEF s
<1>4. Len(s) = z - x
  BY ONLY <1>1, <1>3
<1>5. ASSUME NEW i \in 1..Len(p) PROVE s[n + i] = p[i]
  <2>1. n + i \in 1..(z - (x + 1) + 1) /\ (x + 1) + (n + i) - 1 = (x + n) + i
    BY ONLY <1>1, n \in Nat, i \in 1..Len(p)
  <2>2. s[n + i] = r[(x + n) + i]
    BY ONLY <1>3, <2>1
  <2>3. r[(x + n) + i] = p[i]
    BY DEF At, x
  <2> QED BY ONLY <2>2, <2>3
<1>6. At(s, n, p)
  BY ONLY <1>1, <1>4, <1>5 DEF At
<1>7. SubSeq(s, n + 1, n + Len(p)) = p
  BY ONLY <1>3, <1>6, AtReads, p \in Seq(Nat), n \in Nat
<1> QED BY ONLY <1>7 DEF s, x, z

LEMMA Multiples ==
    ASSUME NEW a \in Nat, NEW b \in Nat, NEW c \in Nat, a <= b
    PROVE  a * c \in Nat /\ b * c \in Nat /\ a * c <= b * c /\ (a + 1) * c = a * c + c
<1>1. b - a \in Nat /\ (b - a) * c \in Nat
  OBVIOUS
<1>2. b * c = a * c + (b - a) * c
  OBVIOUS
<1>3. a * c \in Nat /\ b * c \in Nat /\ (a + 1) * c = a * c + c
  OBVIOUS
<1> QED BY <1>1, <1>2, <1>3

\* Between two owners stands what the circuit expects there.
LEMMA TitleSeparators ==
    ASSUME TitleState, NEW k \in 1..layout.owner_slots, k < layout.owner_slots
    PROVE  At(response, shape.hidden[2].start + (k - 1) * (layout.account_width + 3) + layout.account_width, separator)
<1> DEFINE l == layout  u == blank(l)  h == titleHead(l)  S == Len(h)  hs == titleHidden(l, u, S)
           a == l.account_width  d == l.property_id_width  n == l.owner_slots  y == (k - 1) * (a + 3)
           b == titleBody(l, view)  list == listed(slots(l, view))  w == Len(toSlots(l, view))  st == hs[2].start
<1>0. LoadedTitle(l) /\ TitleFits(l, view)
  BY DEF TitleState
<1>1. /\ TitleFits(l, u) /\ S \in Nat /\ shape.hidden = hs /\ h \in Seq(Nat) /\ response = h \o b
  BY TitleStateFacts
<1>2. a \in Nat /\ d \in Nat /\ n \in Nat
  BY <1>0, TitleNumbers
<1>3. st = S + a + d + 26
  BY <1>0, <1>1, TitleHiddenType
<1>4. w = a + d + 25 /\ Len(before(slots(l, view))[k]) = y
  BY <1>0, TitleLengths
<1>5. b \in Seq(Nat) /\ At(b, w, list)
  BY <1>0, TitleAt
<1>6. At(list, y + a + 1, separator) /\ list \in Seq(Nat)
  <2> DEFINE items == slots(l, view)  p == ownerOf(l, view, k)  q == ownerOf(l, view, k + 1)
  <2>1. k + 1 \in 1..n
    BY ONLY <1>2, k \in 1..layout.owner_slots, k < layout.owner_slots
  <2>2. /\ Items(items) /\ Len(items) = n /\ items[k] = string(p) /\ items[k + 1] = string(q)
    BY ONLY <1>0, <2>1, SlotsType, k \in 1..layout.owner_slots
  <2>3. p \in Seq(Nat) /\ Len(p) = a /\ q \in Seq(Nat)
    BY ONLY <1>0, <2>1, TitlePads, k \in 1..layout.owner_slots
  <2>4. k \in 1..n /\ k < n /\ Len(before(items)[k]) = y
    BY ONLY <1>4, k \in 1..layout.owner_slots, k < layout.owner_slots
  <2> HIDE DEF items, p, q, a, n, y, l
  <2>5. At(listed(items), Len(before(items)[k]) + Len(p) + 1, separator) /\ listed(items) \in Seq(Nat)
    BY ONLY <2>2, <2>3, <2>4, SeparatorAt, ListedType
  <2>6. At(listed(items), y + a + 1, separator) /\ listed(items) \in Seq(Nat)
    BY ONLY <2>3, <2>4, <2>5
  <2> QED BY ONLY <2>6 DEF items
<1>7. y \in Nat
  <2>1. k - 1 \in Nat /\ a + 3 \in Nat
    BY ONLY <1>2, k \in 1..layout.owner_slots
  <2> HIDE DEF a
  <2> QED BY ONLY <2>1
<1>8. separator \in Seq(Nat)
  BY DEF separator, Quote, Comma
<1> HIDE DEF l, u, h, S, hs, a, d, n, y, b, list, w, st
<1>9. w \in Nat /\ y + a + 1 \in Nat /\ w + (y + a + 1) \in Nat
  BY ONLY <1>2, <1>4, <1>7
<1>10. At(b, w + (y + a + 1), separator)
  BY ONLY <1>5, <1>6, <1>8, <1>9, AtTrans
<1>11. response \in Seq(Nat) /\ At(response, S, b)
  <2>1. Behind(h \o b, h, b, 0)
    BY ONLY <1>1, <1>5, JoinedAt
  <2> QED BY ONLY <1>1, <2>1 DEF Behind, S
<1>12. At(response, S + (w + (y + a + 1)), separator)
  BY ONLY <1>1, <1>5, <1>8, <1>9, <1>10, <1>11, AtTrans
<1>13. S + (w + (y + a + 1)) = st + y + a
  BY ONLY <1>1, <1>2, <1>3, <1>4, <1>7
<1>14. At(response, st + y + a, separator)
  BY ONLY <1>12, <1>13
<1> QED BY ONLY <1>1, <1>14 DEF st, y, a, l

LEMMA TitleCircuit ==
    ASSUME TitleState
    PROVE  CircuitFindsOwners
<1> DEFINE l == layout  a == l.account_width  n == l.owner_slots  c == a + 3
           range == shape.hidden[2]  st == range.start  stride == owner_stride(l, shape)
           owners == read(range)  y == (n - 1) * c
<1>0. LoadedTitle(l) /\ TitleFits(l, view)
  BY DEF TitleState
<1>1. a \in Nat /\ n \in Nat /\ n > 0 /\ c \in Nat
  BY <1>0, TitleNumbers
<1>2. /\ response \in Seq(Nat) /\ range \in Ranges /\ st \in Nat
  BY TitleStateFacts, TitleSlots DEF Ranges
<1>3. range.end = st + y + a
  BY TitleSlots DEF ownersSpan
<1>4. stride = c
  <2>1. CASE Len(shape.slot_offsets) > 1
    <3>1. 1 \in 1..n /\ 2 \in 1..n
      BY ONLY <1>1, <2>1, TitleSlots, TitleState
    <3>2. shape.slot_offsets[1] = (1 - 1) * c /\ shape.slot_offsets[2] = (2 - 1) * c
      BY ONLY <3>1, TitleSlots, TitleState
    <3>3. (2 - 1) * c - (1 - 1) * c = c
      BY ONLY <1>1
    <3> QED BY ONLY <2>1, <3>2, <3>3 DEF owner_stride
  <2>2. CASE ~ (Len(shape.slot_offsets) > 1)
    BY <2>2 DEF owner_stride
  <2> QED BY <2>1, <2>2
<1>5. \A k \in 1..n :
        At(response, st + (k - 1) * c, ownerOf(l, view, k)) /\ ownerOf(l, view, k) \in Seq(Nat)
        /\ Len(ownerOf(l, view, k)) = a
  BY <1>0, TitleSlots, TitlePads
<1>6. \A k \in 1..n : k < n => At(response, st + (k - 1) * c + a, separator)
  BY TitleSeparators
<1>7. separator \in Seq(Nat) /\ Len(separator) = 3
  BY DEF separator, Quote, Comma
<1>8. \A k \in 0..(n - 1) : k * c \in Nat /\ k * c <= y
  <2> TAKE k \in 0..(n - 1)
  <2>1. k \in Nat /\ n - 1 \in Nat /\ k <= n - 1
    BY ONLY <1>1, k \in 0..(n - 1)
  <2> HIDE DEF c, n
  <2> QED BY ONLY <1>1, <2>1, Multiples
<1>9. \A k \in 0..(n - 2) : k * c + c <= y
  <2> TAKE k \in 0..(n - 2)
  <2>1. k \in Nat /\ k + 1 \in Nat /\ n - 1 \in Nat /\ k + 1 <= n - 1 /\ k <= k + 1
    BY ONLY <1>1, k \in 0..(n - 2)
  <2> HIDE DEF c, n
  <2>2. (k + 1) * c <= y
    BY ONLY <1>1, <2>1, Multiples
  <2>3. (k + 1) * c = k * c + c
    BY ONLY <1>1, <2>1, Multiples
  <2> QED BY ONLY <2>2, <2>3
<1>10. y \in Nat
  <2>1. n - 1 \in Nat
    BY ONLY <1>1
  <2> HIDE DEF c, n
  <2> QED BY ONLY <1>1, <2>1
<1>11. c = a + 3
  OBVIOUS
<1>12. owners = SubSeq(response, range.start + 1, range.end)
  BY DEF read
<1> HIDE DEF l, a, n, c, y, owners, stride, range, st
<1>13. range.end - range.start = y + a /\ range.end <= Len(response)
  <2>1. range.end - range.start = y + a
    BY ONLY <1>1, <1>2, <1>3, <1>10 DEF st
  <2>2. n \in 1..n
    BY ONLY <1>1
  <2>3. At(response, st + y, ownerOf(l, view, n)) /\ Len(ownerOf(l, view, n)) = a
    BY ONLY <1>5, <2>2 DEF y
  <2>4. (st + y) + a <= Len(response)
    BY ONLY <2>3 DEF At
  <2> QED BY ONLY <1>1, <1>2, <1>3, <1>10, <2>1, <2>4
<1>14. ASSUME NEW k \in 0..(n - 1)
       PROVE  SubSeq(owners, k * c + 1, k * c + a) = ownerOf(l, view, k + 1)
  <2> DEFINE m == k * c  p == ownerOf(l, view, k + 1)
  <2>1. k + 1 \in 1..n /\ (k + 1) - 1 = k
    BY ONLY <1>1, k \in 0..(n - 1)
  <2>2. At(response, st + m, p) /\ p \in Seq(Nat) /\ Len(p) = a
    BY ONLY <1>5, <2>1
  <2>3. m \in Nat /\ m <= y
    BY ONLY <1>8, k \in 0..(n - 1)
  <2> HIDE DEF m, p
  <2>4. m + Len(p) <= range.end - range.start
    BY ONLY <1>1, <1>10, <1>13, <2>2, <2>3
  <2>5. SubSeq(SubSeq(response, range.start + 1, range.end), m + 1, m + Len(p)) = p
    BY ONLY <1>2, <1>13, <2>2, <2>3, <2>4, WithinRange DEF st
  <2> QED BY ONLY <1>12, <2>2, <2>5 DEF m, p
<1>15. ASSUME NEW k \in 0..(n - 2)
       PROVE  SubSeq(owners, k * c + a + 1, k * c + a + 3) = separator
  <2> DEFINE m == k * c + a
  <2>1. k + 1 \in 1..n /\ (k + 1) - 1 = k /\ k + 1 < n /\ k \in 0..(n - 1)
    BY ONLY <1>1, k \in 0..(n - 2)
  <2>2. k * c \in Nat /\ k * c + c <= y
    BY ONLY <1>8, <1>9, <2>1, k \in 0..(n - 2)
  <2>3. At(response, st + k * c + a, separator)
    BY ONLY <1>6, <2>1
  <2>4. m \in Nat /\ st + k * c + a = st + m
    BY ONLY <1>1, <1>2, <2>2
  <2>5. m + 3 <= y + a
    <3> DEFINE x == k * c
    <3>1. x \in Nat /\ x + c <= y /\ c = a + 3
      BY ONLY <1>11, <2>2
    <3> HIDE DEF x
    <3>2. x + a + 3 <= y + a
      BY ONLY <1>1, <1>10, <3>1
    <3> QED BY ONLY <3>2 DEF x
  <2> HIDE DEF m
  <2>6. At(response, range.start + m, separator)
    BY ONLY <2>3, <2>4 DEF st
  <2>7. m + Len(separator) <= range.end - range.start
    BY ONLY <1>7, <1>13, <2>5
  <2>8. SubSeq(SubSeq(response, range.start + 1, range.end), m + 1, m + Len(separator)) = separator
    BY ONLY <1>2, <1>7, <1>13, <2>4, <2>6, <2>7, WithinRange
  <2> QED BY ONLY <1>7, <1>12, <2>8 DEF m
<1>16. owners_len(shape) = y + a
  BY ONLY <1>13 DEF owners_len, range
<1>17. /\ stride = a + 3 /\ owners_len(shape) = (n - 1) * stride + a
       /\ \A k \in 0..(n - 1) : SubSeq(owners, k * stride + 1, k * stride + a) = ownerOf(l, view, k + 1)
       /\ \A k \in 0..(n - 2) : SubSeq(owners, k * stride + a + 1, k * stride + a + 3) = separator
  BY ONLY <1>4, <1>11, <1>14, <1>15, <1>16 DEF y
<1> QED BY ONLY <1>17 DEF CircuitFindsOwners, stride, owners, range, l, a, n, ownerOf, separator

\* All who read a title agree on it.
LEMMA TitleReadersAgree ==
    ASSUME TitleState
    PROVE  ReadersAgree
<1>1. layout.kind = "title"
  BY TitleNumbers DEF TitleState
<1>2. KeyNamesItsValue
  BY <1>1 DEF KeyNamesItsValue, ofTitle
<1> QED BY <1>2, TitleReadersFindValues, TitleQuotesStay, TitleCircuit DEF ReadersAgree

-----------------------------------------------------------------------------
(* Eligibility and tenancy records.                                        *)

LoadedRecord(l) == l \in RecordLayout /\ validRecord(l)

RecordFits(l, v) ==
    /\ Fitting(v.account, l.account_width)
    /\ \A i \in 1..Len(l.fields) : Fitting(v.values[i], l.fields[i].width)

valueOf(l, v, i) == pad(l, v.values[i], l.fields[i].width)

nameOf(l, i) == l.fields[i].key

LEMMA RecordNumbers ==
    ASSUME NEW l, LoadedRecord(l)
    PROVE  /\ l.padding \in Text /\ Len(l.padding) = 1 /\ l.kind = "record"
           /\ l.account_width \in Nat /\ l.account_width > 0
           /\ Len(l.fields) \in Nat /\ Len(l.fields) > 0 /\ DOMAIN l.fields = 1..Len(l.fields)
           /\ \A i \in 1..Len(l.fields) :
                /\ nameOf(l, i) \in Names /\ nameOf(l, i) \in Nat /\ l.fields[i].width \in Nat
                /\ nameOf(l, i) # KEY_ACCOUNT /\ nameOf(l, i) # KEY_RECORD
<1> DEFINE F == [key : Names, width : Nat]
<1>1. l.padding \in Text /\ l.kind = "record" /\ l.account_width \in Nat /\ l.fields \in Seq(F)
  BY DEF LoadedRecord, RecordLayout
<1>2. Len(l.padding) = 1 /\ l.account_width > 0 /\ l.fields # <<>>
  BY DEF LoadedRecord, validRecord, paddingIsOneAscii
<1>3. Len(l.fields) \in Nat /\ Len(l.fields) > 0 /\ DOMAIN l.fields = 1..Len(l.fields)
  <2> HIDE DEF F
  <2>1. Len(l.fields) \in Nat /\ DOMAIN l.fields = 1..Len(l.fields)
    BY <1>1
  <2>2. Len(l.fields) # 0
    BY <1>1, <1>2, EmptySeq
  <2> QED BY <2>1, <2>2
<1>4. ASSUME NEW i \in 1..Len(l.fields)
      PROVE  /\ nameOf(l, i) \in Names /\ nameOf(l, i) \in Nat /\ l.fields[i].width \in Nat
             /\ nameOf(l, i) # KEY_ACCOUNT /\ nameOf(l, i) # KEY_RECORD
  <2>1. l.fields[i] \in F
    <3> HIDE DEF F
    <3> QED BY <1>1, ElementOfSeq
  <2>2. nameOf(l, i) \in Names /\ l.fields[i].width \in Nat
    BY <2>1 DEF nameOf
  <2>3. nameOf(l, i) # KEY_ACCOUNT /\ nameOf(l, i) # KEY_RECORD
    BY <1>3 DEF LoadedRecord, validRecord, nameOf
  <2> QED BY <2>2, <2>3, KeyNames
<1> QED BY <1>1, <1>2, <1>3, <1>4

\* No two fields have one key.
LEMMA RecordKeysDiffer ==
    ASSUME NEW l, LoadedRecord(l), NEW i \in 1..Len(l.fields), NEW j \in 1..Len(l.fields), i # j
    PROVE  nameOf(l, i) # nameOf(l, j)
<1>1. Len(l.fields) \in Nat /\ DOMAIN l.fields = 1..Len(l.fields)
  BY RecordNumbers
<1>2. \A x \in 1..Len(l.fields) : \A y \in 1..(x - 1) : l.fields[y].key # l.fields[x].key
  BY <1>1 DEF LoadedRecord, validRecord
<1>3. CASE i < j
  BY <1>1, <1>2, <1>3 DEF nameOf
<1>4. CASE j < i
  BY <1>1, <1>2, <1>4 DEF nameOf
<1> QED BY <1>1, <1>3, <1>4

LEMMA IndexOf ==
    ASSUME NEW l, LoadedRecord(l), NEW f \in 1..Len(l.fields)
    PROVE  index_of(l, nameOf(l, f)) = f
<1> DEFINE P(i) == l.fields[i].key = nameOf(l, f) /\ \A j \in 1..(i - 1) : l.fields[j].key # nameOf(l, f)
<1>1. Len(l.fields) \in Nat /\ DOMAIN l.fields = 1..Len(l.fields)
  BY RecordNumbers
<1>2. P(f)
  <2>1. ASSUME NEW j \in 1..(f - 1) PROVE l.fields[j].key # nameOf(l, f)
    <3>1. j \in 1..Len(l.fields) /\ j # f
      BY <1>1
    <3> QED BY <3>1, RecordKeysDiffer DEF nameOf
  <2> QED BY <2>1 DEF nameOf
<1>3. ASSUME NEW i \in 1..Len(l.fields), P(i) PROVE i = f
  BY <1>3, RecordKeysDiffer DEF nameOf
<1>4. index_of(l, nameOf(l, f)) = CHOOSE i \in 1..Len(l.fields) : P(i)
  BY <1>1 DEF index_of
<1> HIDE DEF P
<1> QED BY <1>2, <1>3, <1>4

LEMMA RecordPads ==
    ASSUME NEW l, LoadedRecord(l), NEW v, RecordFits(l, v)
    PROVE  /\ AccountFits(l, v)
           /\ \A i \in 1..Len(l.fields) :
                /\ valueOf(l, v, i) \in Seq(Nat) /\ Len(valueOf(l, v, i)) = l.fields[i].width
                /\ \A n \in 1..Len(valueOf(l, v, i)) : valueOf(l, v, i)[n] \in Byte
<1>1. AccountFits(l, v)
  BY RecordNumbers DEF AccountFits, RecordFits
<1>2. ASSUME NEW i \in 1..Len(l.fields)
      PROVE  /\ valueOf(l, v, i) \in Seq(Nat) /\ Len(valueOf(l, v, i)) = l.fields[i].width
             /\ \A n \in 1..Len(valueOf(l, v, i)) : valueOf(l, v, i)[n] \in Byte
  <2>1. /\ l.padding \in Text /\ Len(l.padding) = 1 /\ l.fields[i].width \in Nat
        /\ Fitting(v.values[i], l.fields[i].width)
    BY RecordNumbers DEF RecordFits
  <2> QED BY <2>1, PadType DEF valueOf
<1> QED BY <1>1, <1>2

LEMMA RecordPadsAlike ==
    ASSUME NEW l, LoadedRecord(l), NEW v, RecordFits(l, v), NEW u, RecordFits(l, u), NEW i \in 1..Len(l.fields)
    PROVE  Alike(Blankable(l), valueOf(l, v, i), valueOf(l, u, i))
  BY RecordNumbers, PadAlike DEF RecordFits, valueOf

LEMMA MembersType ==
    ASSUME NEW l, LoadedRecord(l), NEW v, RecordFits(l, v)
    PROVE  /\ Items(members(l, v)) /\ Len(members(l, v)) = Len(l.fields)
           /\ \A i \in 1..Len(l.fields) : members(l, v)[i] = member(nameOf(l, i), valueOf(l, v, i))
           /\ \A i \in 1..Len(l.fields) : Len(members(l, v)[i]) = l.fields[i].width + 6
<1> DEFINE n == Len(l.fields)  e(i) == member(nameOf(l, i), valueOf(l, v, i))  g == [i \in 1..n |-> e(i)]
<1>1. n \in Nat /\ n > 0
  BY RecordNumbers
<1>2. members(l, v) = g
  BY DEF members, valueOf, nameOf
<1>3. ASSUME NEW i \in 1..n PROVE e(i) \in Seq(Nat) /\ Len(e(i)) = l.fields[i].width + 6
  <2>1. nameOf(l, i) \in Nat
    BY RecordNumbers
  <2>2. valueOf(l, v, i) \in Seq(Nat) /\ Len(valueOf(l, v, i)) = l.fields[i].width
    BY RecordPads
  <2> QED BY ONLY <2>1, <2>2, MemberType
<1> HIDE DEF e, n
<1>4. g \in Seq(Seq(Nat)) /\ Len(g) = n /\ \A i \in 1..n : g[i] = e(i)
  BY ONLY <1>1, <1>3
<1> HIDE DEF g
<1>5. Items(g)
  BY ONLY <1>1, <1>4 DEF Items
<1> QED BY ONLY <1>2, <1>3, <1>4, <1>5 DEF e, n

LEMMA MembersAlike ==
    ASSUME NEW l, LoadedRecord(l), NEW v, RecordFits(l, v), NEW u, RecordFits(l, u)
    PROVE  /\ Alike(Blankable(l), listed(members(l, v)), listed(members(l, u)))
           /\ \A k \in 1..Len(l.fields) : Len(before(members(l, v))[k]) = Len(before(members(l, u))[k])
<1> DEFINE q == Blankable(l)  a == members(l, v)  b == members(l, u)  n == Len(l.fields)
<1>0. q \in BOOLEAN
  BY DEF Blankable
<1>1. Items(a) /\ Items(b) /\ Len(a) = n /\ Len(b) = n
  BY MembersType
<1>2. ASSUME NEW k \in 1..n PROVE Alike(q, a[k], b[k])
  <2>1. a[k] = member(nameOf(l, k), valueOf(l, v, k)) /\ b[k] = member(nameOf(l, k), valueOf(l, u, k))
    BY MembersType
  <2>2. valueOf(l, v, k) \in Seq(Nat) /\ valueOf(l, u, k) \in Seq(Nat) /\ nameOf(l, k) \in Nat
    BY RecordPads, RecordNumbers
  <2>3. Alike(q, valueOf(l, v, k), valueOf(l, u, k))
    BY RecordPadsAlike
  <2> HIDE DEF q
  <2>4. Alike(q, member(nameOf(l, k), valueOf(l, v, k)), member(nameOf(l, k), valueOf(l, u, k)))
    BY ONLY <1>0, <2>2, <2>3, MemberAlike
  <2> QED BY ONLY <2>1, <2>4
<1> HIDE DEF q, a, b, n
<1>3. Alike(q, listed(a), listed(b))
  BY ONLY <1>0, <1>1, <1>2, ListedAlike
<1>4. ASSUME NEW k \in 1..n PROVE Alike(q, before(a)[k], before(b)[k])
  BY ONLY <1>0, <1>1, <1>2, BeforeAlike, k \in 1..n
<1>5. ASSUME NEW k \in 1..n PROVE Len(before(a)[k]) = Len(before(b)[k])
  BY <1>4 DEF Alike
<1> QED BY <1>3, <1>5 DEF q, a, b, n

LEMMA RecordTypes ==
    ASSUME NEW l, LoadedRecord(l), NEW v, RecordFits(l, v)
    PROVE  /\ recordBody(l, v) = Then(toFields(l, v), listed(members(l, v)), close)
           /\ Behind(toRecord(l, v), toAccount, member(KEY_ACCOUNT, accountOf(l, v)), 1)
           /\ Behind(toFields(l, v), toRecord(l, v), key(KEY_RECORD), 1)
           /\ Behind(recordBody(l, v), toFields(l, v), listed(members(l, v)), 2)
<1>1. AccountFits(l, v)
  BY RecordPads
<1>2. /\ Behind(toRecord(l, v), toAccount, member(KEY_ACCOUNT, accountOf(l, v)), 1)
      /\ Behind(toFields(l, v), toRecord(l, v), key(KEY_RECORD), 1) /\ toFields(l, v) \in Seq(Nat)
  BY <1>1, ToRecordBehind, ToFieldsBehind DEF Behind
<1>3. listed(members(l, v)) \in Seq(Nat)
  BY MembersType, ListedType
<1>4. recordBody(l, v) = Then(toFields(l, v), listed(members(l, v)), close)
  BY DEF recordBody, Then, close
<1>5. close \in Seq(Nat) /\ Len(close) = 2
  BY Marks
<1>6. Behind(Then(toFields(l, v), listed(members(l, v)), close), toFields(l, v), listed(members(l, v)), Len(close))
  BY ONLY <1>2, <1>3, <1>5, ThenBehind
<1> QED BY ONLY <1>2, <1>4, <1>5, <1>6

LEMMA RecordLengths ==
    ASSUME NEW l, LoadedRecord(l), NEW v, RecordFits(l, v)
    PROVE  /\ Len(toAccount) = 1 /\ Len(toRecord(l, v)) = l.account_width + 8
           /\ Len(toFields(l, v)) = l.account_width + 13
<1> DEFINE a == l.account_width  c1 == Len(toRecord(l, v))  c2 == Len(toFields(l, v))
<1>1. accountOf(l, v) \in Seq(Nat) /\ Len(accountOf(l, v)) = a /\ a \in Nat
  BY RecordPads, AccountType, RecordNumbers
<1>2. Len(member(KEY_ACCOUNT, accountOf(l, v))) = a + 6
  <2>1. KEY_ACCOUNT \in Nat
    BY KeyNames
  <2> QED BY ONLY <1>1, <2>1, MemberType
<1>3. Len(key(KEY_RECORD)) = 4 /\ Len(toAccount) = 1
  BY KeyType, KeyNames, Marks DEF toAccount, open
<1>4. /\ c1 = Len(toAccount) + Len(member(KEY_ACCOUNT, accountOf(l, v))) + 1
      /\ c2 = c1 + Len(key(KEY_RECORD)) + 1
  BY RecordTypes DEF Behind
<1>5. c1 = 1 + (a + 6) + 1 /\ c2 = c1 + 4 + 1
  BY ONLY <1>2, <1>3, <1>4
<1> HIDE DEF a, c1, c2
<1>6. c1 = a + 8 /\ c2 = a + 13
  BY ONLY <1>1, <1>5
<1> QED BY ONLY <1>3, <1>6 DEF a, c1, c2

LEMMA RecordAlike ==
    ASSUME NEW l, LoadedRecord(l), NEW v, RecordFits(l, v), NEW u, RecordFits(l, u)
    PROVE  Alike(Blankable(l), recordBody(l, v), recordBody(l, u))
<1> DEFINE q == Blankable(l)  x == toFields(l, v)  y == toFields(l, u)
           a == listed(members(l, v))  b == listed(members(l, u))
<1>0. q \in BOOLEAN
  BY DEF Blankable
<1>1. Alike(q, x, y)
  BY RecordPads, ToFieldsAlike
<1>2. Alike(q, a, b)
  BY MembersAlike
<1>3. x \in Seq(Nat) /\ y \in Seq(Nat) /\ a \in Seq(Nat) /\ b \in Seq(Nat)
  BY RecordTypes DEF Behind
<1>4. recordBody(l, v) = Then(x, a, close) /\ recordBody(l, u) = Then(y, b, close)
  BY RecordTypes
<1>5. close \in Seq(Nat)
  BY Marks
<1> HIDE DEF q, x, y, a, b
<1>6. Alike(q, Then(x, a, close), Then(y, b, close))
  BY ONLY <1>0, <1>1, <1>2, <1>3, <1>5, ThenAlike
<1> QED BY ONLY <1>4, <1>6 DEF q

\* How much is written before a field of a record.
toFieldLen(l, v, i) == Len(toFields(l, v)) + Len(before(members(l, v))[i])

LEMMA ToFieldType ==
    ASSUME NEW l, LoadedRecord(l), NEW v, RecordFits(l, v), NEW i \in 1..Len(l.fields)
    PROVE  /\ toField(l, v, i) \in Seq(Nat) /\ Len(toField(l, v, i)) = toFieldLen(l, v, i)
           /\ toFieldLen(l, v, i) \in Nat /\ toFieldLen(l, v, i) >= l.account_width + 13
<1> DEFINE x == toFields(l, v)  b == before(members(l, v))[i]
<1>1. x \in Seq(Nat)
  BY RecordTypes DEF Behind
<1>2. b \in Seq(Nat)
  BY MembersType, BeforeType
<1>3. Len(x) = l.account_width + 13 /\ l.account_width \in Nat
  BY RecordLengths, RecordNumbers
<1>4. toField(l, v, i) = x \o b /\ toFieldLen(l, v, i) = Len(x) + Len(b)
  BY DEF toField, toFieldLen
<1> HIDE DEF x, b
<1>5. x \o b \in Seq(Nat) /\ Len(x \o b) = Len(x) + Len(b) /\ Len(x) \in Nat /\ Len(b) \in Nat
  BY ONLY <1>1, <1>2, Joined
<1>6. Len(x) + Len(b) \in Nat /\ Len(x) + Len(b) >= l.account_width + 13
  BY ONLY <1>3, <1>5
<1> QED BY ONLY <1>4, <1>5, <1>6

LEMMA ToFieldLater ==
    ASSUME NEW l, LoadedRecord(l), NEW v, RecordFits(l, v),
           NEW i \in 1..Len(l.fields), NEW j \in 1..Len(l.fields), i < j
    PROVE  toFieldLen(l, v, i) + l.fields[i].width + 6 < toFieldLen(l, v, j)
<1> DEFINE m == members(l, v)  x == Len(before(m)[i])  y == Len(before(m)[j])  w == l.fields[i].width
           c == Len(toFields(l, v))
<1>1. Items(m) /\ Len(m) = Len(l.fields) /\ Len(m[i]) = w + 6
  BY MembersType
<1>2. x + (w + 6) < y
  <2> HIDE DEF m, w
  <2>1. Len(before(m)[i]) + Len(m[i]) < Len(before(m)[j])
    BY ONLY <1>1, BeforeLater, i \in 1..Len(l.fields), j \in 1..Len(l.fields), i < j
  <2> QED BY ONLY <1>1, <2>1
<1>3. w \in Nat
  BY RecordNumbers
<1>4. x \in Nat /\ y \in Nat /\ c \in Nat
  <2>1. before(m)[i] \in Seq(Nat) /\ before(m)[j] \in Seq(Nat)
    BY <1>1, BeforeType
  <2>2. toFields(l, v) \in Seq(Nat)
    BY RecordTypes DEF Behind
  <2> QED BY ONLY <2>1, <2>2
<1>5. toFieldLen(l, v, i) = c + x /\ toFieldLen(l, v, j) = c + y
  BY DEF toFieldLen
<1> HIDE DEF x, y, w, c
<1>6. (c + x) + w + 6 < c + y
  BY ONLY <1>2, <1>3, <1>4
<1> QED BY ONLY <1>5, <1>6 DEF w

LEMMA ToFieldSame ==
    ASSUME NEW l, LoadedRecord(l), NEW v, RecordFits(l, v), NEW u, RecordFits(l, u), NEW i \in 1..Len(l.fields)
    PROVE  toFieldLen(l, v, i) = toFieldLen(l, u, i)
<1>1. Len(toFields(l, v)) = Len(toFields(l, u))
  BY RecordLengths
<1>2. Len(before(members(l, v))[i]) = Len(before(members(l, u))[i])
  BY MembersAlike
<1> QED BY ONLY <1>1, <1>2 DEF toFieldLen

\* Where the pieces of a record stand.
LEMMA RecordAt ==
    ASSUME NEW l, LoadedRecord(l), NEW v, RecordFits(l, v)
    PROVE  /\ recordBody(l, v) \in Seq(Nat)
           /\ At(recordBody(l, v), Len(toAccount), member(KEY_ACCOUNT, accountOf(l, v)))
           /\ At(recordBody(l, v), Len(toRecord(l, v)), key(KEY_RECORD))
           /\ \A i \in 1..Len(l.fields) :
                At(recordBody(l, v), toFieldLen(l, v, i), member(nameOf(l, i), valueOf(l, v, i)))
<1> DEFINE b == recordBody(l, v)  list == listed(members(l, v))  x == toFields(l, v)
<1>1. b \in Seq(Nat) /\ x \in Seq(Nat) /\ list \in Seq(Nat)
  BY RecordTypes DEF Behind
<1>2. At(b, 0, b)
  BY <1>1, AtSelf
<1>3. Behind(b, x, list, 2)
  BY RecordTypes
<1> HIDE DEF b, x, list
<1>4. At(b, 0, x) /\ At(b, Len(x), list)
  BY ONLY <1>1, <1>2, <1>3, BehindAt, 2 \in Nat
<1>5. At(b, 0, toRecord(l, v)) /\ At(b, Len(toRecord(l, v)), key(KEY_RECORD))
  <2>1. Behind(x, toRecord(l, v), key(KEY_RECORD), 1)
    BY RecordTypes DEF x
  <2> QED BY ONLY <1>1, <1>4, <2>1, BehindAt, 1 \in Nat
<1>6. At(b, Len(toAccount), member(KEY_ACCOUNT, accountOf(l, v)))
  <2>1. Behind(toRecord(l, v), toAccount, member(KEY_ACCOUNT, accountOf(l, v)), 1)
    BY RecordTypes
  <2> QED BY ONLY <1>1, <1>5, <2>1, BehindAt, 1 \in Nat
<1>7. ASSUME NEW i \in 1..Len(l.fields)
      PROVE  At(b, toFieldLen(l, v, i), member(nameOf(l, i), valueOf(l, v, i)))
  <2> DEFINE m == members(l, v)  p == member(nameOf(l, i), valueOf(l, v, i))
  <2>1. Items(m) /\ i \in 1..Len(m) /\ m[i] = p
    BY MembersType
  <2>2. p \in Seq(Nat) /\ before(m)[i] \in Seq(Nat)
    BY ONLY <2>1, ItemsType, BeforeType
  <2> HIDE DEF m, p
  <2>3. At(listed(m), Len(before(m)[i]), p)
    BY ONLY <2>1, ListedAt
  <2>4. Len(x) \in Nat /\ Len(before(m)[i]) \in Nat
    BY ONLY <1>1, <2>2
  <2>5. At(list, Len(before(m)[i]), p)
    BY ONLY <2>3 DEF list, m
  <2>6. At(b, Len(x) + Len(before(m)[i]), p)
    BY ONLY <1>1, <1>4, <2>2, <2>4, <2>5, AtTrans
  <2> QED BY ONLY <2>6 DEF toFieldLen, x, m, p
<1> QED BY ONLY <1>1, <1>5, <1>6, <1>7 DEF b

LEMMA BlankRecordFits ==
    ASSUME NEW l, LoadedRecord(l)
    PROVE  RecordFits(l, blank(l))
<1>1. l.kind # "title" /\ l.account_width \in Nat /\ Len(l.fields) \in Nat
      /\ \A i \in 1..Len(l.fields) : l.fields[i].width \in Nat
  BY RecordNumbers
<1>2. ASSUME NEW w \in Nat PROVE Fitting(<<>>, w)
  BY DEF Fitting, Text
<1>3. blank(l).account = <<>> /\ \A i \in 1..Len(l.fields) : blank(l).values[i] = <<>>
  BY <1>1 DEF blank
<1> QED BY <1>1, <1>2, <1>3 DEF RecordFits

LEMMA RenderedRecordFits ==
    ASSUME NEW l, LoadedRecord(l), NEW v \in RecordView, recordRenders(l, v)
    PROVE  RecordFits(l, v)
<1>1. v.account \in Text /\ v.values \in Seq(Text)
  BY DEF RecordView
<1>2. /\ l.account_width \in Nat /\ \A i \in 1..Len(l.fields) : l.fields[i].width \in Nat
  BY RecordNumbers
<1>3. Fitting(v.account, l.account_width)
  BY <1>1, <1>2, FitsFitting DEF recordRenders
<1>4. ASSUME NEW i \in 1..Len(l.fields) PROVE Fitting(v.values[i], l.fields[i].width)
  <2>1. Len(v.values) = Len(l.fields) /\ DOMAIN v.values = 1..Len(v.values)
    BY <1>1 DEF recordRenders
  <2>2. v.values[i] \in Text
    BY <1>1, <2>1, ElementOfSeq
  <2>3. fits(v.values[i], l.fields[i].width)
    BY <2>1 DEF recordRenders
  <2> QED BY <1>2, <2>2, <2>3, FitsFitting
<1> QED BY <1>3, <1>4 DEF RecordFits

recordHead(l) == head(Len(recordBody(l, blank(l))))

LEMMA RecordRendered ==
    ASSUME NEW l, LoadedRecord(l), NEW v, RecordFits(l, v)
    PROVE  /\ render_response(l, v) = recordHead(l) \o recordBody(l, v)
           /\ recordHead(l) \in Seq(Nat) /\ recordBody(l, v) \in Seq(Nat)
           /\ Len(recordBody(l, v)) = Len(recordBody(l, blank(l))) /\ Len(recordBody(l, v)) \in Nat
<1>1. l.kind # "title"
  BY RecordNumbers
<1>2. RecordFits(l, blank(l))
  BY BlankRecordFits
<1>3. recordBody(l, v) \in Seq(Nat) /\ recordBody(l, blank(l)) \in Seq(Nat)
  BY <1>2, RecordAt
<1>4. Len(recordBody(l, v)) = Len(recordBody(l, blank(l)))
  BY <1>2, RecordAlike DEF Alike
<1>5. Len(recordBody(l, v)) \in Nat
  BY <1>3
<1>6. recordHead(l) \in Seq(Nat)
  BY <1>4, <1>5, HeadType DEF recordHead
<1>7. render_response(l, v) = head(Len(recordBody(l, v))) \o recordBody(l, v)
  BY <1>1 DEF render_response, body
<1>8. render_response(l, v) = recordHead(l) \o recordBody(l, v)
  BY ONLY <1>4, <1>7 DEF recordHead
<1> QED BY ONLY <1>3, <1>4, <1>5, <1>6, <1>8

\* The ranges a record's readers derive.
fieldKeyAt(l, u, shift, i) == keyAt(shift, toField(l, u, i), nameOf(l, i))

fieldAt(l, u, shift, i) == valueAt(shift, toField(l, u, i), nameOf(l, i), valueOf(l, u, i))

LEMMA FieldAtType ==
    ASSUME NEW l, LoadedRecord(l), NEW u, RecordFits(l, u), NEW shift \in Nat, NEW i \in 1..Len(l.fields)
    PROVE  /\ fieldKeyAt(l, u, shift, i) \in Ranges
           /\ fieldKeyAt(l, u, shift, i).start = shift + toFieldLen(l, u, i)
           /\ fieldKeyAt(l, u, shift, i).end = shift + toFieldLen(l, u, i) + 4
           /\ fieldAt(l, u, shift, i) \in Ranges
           /\ fieldAt(l, u, shift, i).start = shift + toFieldLen(l, u, i) + 5
           /\ fieldAt(l, u, shift, i).end = shift + toFieldLen(l, u, i) + 5 + l.fields[i].width
<1> DEFINE x == toField(l, u, i)  name == nameOf(l, i)  p == valueOf(l, u, i)
<1>1. x \in Seq(Nat) /\ Len(x) = toFieldLen(l, u, i)
  BY ToFieldType
<1>2. name \in Nat
  BY RecordNumbers
<1>3. p \in Seq(Nat) /\ Len(p) = l.fields[i].width
  BY RecordPads
<1> HIDE DEF x, name, p
<1>4. keyAt(shift, x, name) \in Ranges /\ keyAt(shift, x, name).start = shift + Len(x)
      /\ keyAt(shift, x, name).end = shift + Len(x) + 4
  BY ONLY <1>1, <1>2, shift \in Nat, KeyAtType
<1>5. valueAt(shift, x, name, p) \in Ranges /\ valueAt(shift, x, name, p).start = shift + Len(x) + 5
      /\ valueAt(shift, x, name, p).end = shift + Len(x) + 5 + Len(p)
  BY ONLY <1>1, <1>2, <1>3, shift \in Nat, ValueAtType
<1> QED BY ONLY <1>1, <1>3, <1>4, <1>5 DEF fieldKeyAt, fieldAt, x, name, p

\* A sequence of ranges in front of one range for each field.
LEMMA RangesJoined ==
    ASSUME NEW s \in Seq(Ranges), NEW n \in Nat, NEW f \in Seq(Ranges), Len(f) = n
    PROVE  /\ s \o f \in Seq(Ranges) /\ Len(s \o f) = Len(s) + n
           /\ \A i \in 1..Len(s) : (s \o f)[i] = s[i]
           /\ \A i \in 1..n : (s \o f)[Len(s) + i] = f[i]
<1>1. /\ s \o f \in Seq(Ranges) /\ Len(s \o f) = Len(s) + Len(f)
      /\ \A i \in 1..(Len(s) + Len(f)) : (s \o f)[i] = IF i <= Len(s) THEN s[i] ELSE f[i - Len(s)]
  BY ConcatProperties
<1>2. Len(s) \in Nat
  OBVIOUS
<1>3. ASSUME NEW i \in 1..Len(s) PROVE (s \o f)[i] = s[i]
  BY ONLY <1>1, <1>2, i \in 1..Len(s), n \in Nat, Len(f) = n
<1>4. ASSUME NEW i \in 1..n PROVE (s \o f)[Len(s) + i] = f[i]
  <2>1. Len(s) + i \in 1..(Len(s) + Len(f)) /\ ~(Len(s) + i <= Len(s)) /\ (Len(s) + i) - Len(s) = i
    BY ONLY <1>2, i \in 1..n, n \in Nat, Len(f) = n
  <2> QED BY ONLY <1>1, <2>1
<1> QED BY <1>1, <1>3, <1>4

LEMMA RecordHiddenType ==
    ASSUME NEW l, LoadedRecord(l), NEW u, RecordFits(l, u), NEW shift \in Nat
    PROVE  /\ recordHidden(l, u, shift) \in Seq(Ranges) /\ Len(recordHidden(l, u, shift)) = 1 + Len(l.fields)
           /\ recordHidden(l, u, shift)[1] = valueAt(shift, toAccount, KEY_ACCOUNT, accountOf(l, u))
           /\ recordHidden(l, u, shift)[1] \in Ranges
           /\ recordHidden(l, u, shift)[1].start = shift + 6
           /\ recordHidden(l, u, shift)[1].end = shift + 6 + l.account_width
           /\ \A i \in 1..Len(l.fields) : recordHidden(l, u, shift)[1 + i] = fieldAt(l, u, shift, i)
<1> DEFINE n == Len(l.fields)  x == valueAt(shift, toAccount, KEY_ACCOUNT, accountOf(l, u))
           f == [i \in 1..n |-> fieldAt(l, u, shift, i)]  s == <<x>>  hs == recordHidden(l, u, shift)
<1>1. hs = s \o f
  BY DEF recordHidden, accountAt, accountOf, fieldAt, nameOf, valueOf
<1>2. n \in Nat /\ l.account_width \in Nat
  BY RecordNumbers
<1>3. x \in Ranges /\ x.start = shift + 6 /\ x.end = shift + 6 + l.account_width
  <2>1. toAccount \in Seq(Nat) /\ KEY_ACCOUNT \in Nat
    BY RecordTypes, KeyNames DEF Behind
  <2>2. Len(toAccount) = 1
    BY RecordLengths
  <2>3. accountOf(l, u) \in Seq(Nat) /\ Len(accountOf(l, u)) = l.account_width
    BY RecordPads, AccountType
  <2>4. x \in Ranges /\ x.start = shift + Len(toAccount) + 5
        /\ x.end = shift + Len(toAccount) + 5 + Len(accountOf(l, u))
    BY <2>1, <2>3, ValueAtType
  <2>5. shift + 1 + 5 = shift + 6
    OBVIOUS
  <2> HIDE DEF x
  <2> QED BY ONLY <2>2, <2>3, <2>4, <2>5
<1>4. ASSUME NEW i \in 1..n PROVE fieldAt(l, u, shift, i) \in Ranges
  BY FieldAtType
<1>5. f \in Seq(Ranges) /\ Len(f) = n /\ \A i \in 1..n : f[i] = fieldAt(l, u, shift, i)
  <2> HIDE DEF n
  <2> QED BY ONLY <1>2, <1>4
<1> HIDE DEF x, f, hs
<1>6. s \in Seq(Ranges) /\ Len(s) = 1 /\ s[1] = x
  BY ONLY <1>3
<1> HIDE DEF s
<1>7. /\ s \o f \in Seq(Ranges) /\ Len(s \o f) = Len(s) + n
      /\ \A i \in 1..Len(s) : (s \o f)[i] = s[i]
      /\ \A i \in 1..n : (s \o f)[Len(s) + i] = f[i]
  <2>1. f \in Seq(Ranges) /\ Len(f) = n /\ s \in Seq(Ranges) /\ n \in Nat
    BY ONLY <1>2, <1>5, <1>6
  <2> HIDE DEF n
  <2> QED BY ONLY <2>1, RangesJoined
<1>8. 1 \in 1..Len(s)
  BY ONLY <1>6
<1>9. hs[1] = x
  BY ONLY <1>1, <1>6, <1>7, <1>8
<1>10. \A i \in 1..n : hs[1 + i] = fieldAt(l, u, shift, i)
  BY ONLY <1>1, <1>5, <1>6, <1>7
<1>11. hs \in Seq(Ranges) /\ Len(hs) = 1 + n
  BY ONLY <1>1, <1>6, <1>7
<1> QED BY ONLY <1>3, <1>9, <1>10, <1>11 DEF hs, x, n

recordRevealed(l, u, shift) == revealed(statusLine, contentTypeLine, recordKeys(l, u, shift))

LEMMA RecordKeysType ==
    ASSUME NEW l, LoadedRecord(l), NEW u, RecordFits(l, u), NEW shift \in Nat
    PROVE  /\ recordKeys(l, u, shift) \in Seq(Ranges) /\ Len(recordKeys(l, u, shift)) = 2 + Len(l.fields)
           /\ recordKeys(l, u, shift)[1] = keyAt(shift, toAccount, KEY_ACCOUNT)
           /\ recordKeys(l, u, shift)[2] = keyAt(shift, toRecord(l, u), KEY_RECORD)
           /\ \A i \in 1..Len(l.fields) : recordKeys(l, u, shift)[2 + i] = fieldKeyAt(l, u, shift, i)
<1> DEFINE n == Len(l.fields)
           x == keyAt(shift, toAccount, KEY_ACCOUNT)  y == keyAt(shift, toRecord(l, u), KEY_RECORD)
           f == [i \in 1..n |-> fieldKeyAt(l, u, shift, i)]  s == <<x, y>>  ks == recordKeys(l, u, shift)
<1>1. ks = s \o f
  BY DEF recordKeys, fieldKeyAt, nameOf
<1>2. n \in Nat
  BY RecordNumbers
<1>3. x \in Ranges /\ y \in Ranges
  <2>1. toAccount \in Seq(Nat) /\ toRecord(l, u) \in Seq(Nat)
    BY RecordTypes DEF Behind
  <2>2. KEY_ACCOUNT \in Nat /\ KEY_RECORD \in Nat
    BY KeyNames
  <2> QED BY ONLY <2>1, <2>2, shift \in Nat, KeyAtType
<1>4. ASSUME NEW i \in 1..n PROVE fieldKeyAt(l, u, shift, i) \in Ranges
  BY FieldAtType
<1>5. f \in Seq(Ranges) /\ Len(f) = n /\ \A i \in 1..n : f[i] = fieldKeyAt(l, u, shift, i)
  <2> HIDE DEF n
  <2> QED BY ONLY <1>2, <1>4
<1> HIDE DEF x, y, f, ks
<1>6. s \in Seq(Ranges) /\ Len(s) = 2 /\ s[1] = x /\ s[2] = y
  BY ONLY <1>3
<1> HIDE DEF s
<1>7. /\ s \o f \in Seq(Ranges) /\ Len(s \o f) = Len(s) + n
      /\ \A i \in 1..Len(s) : (s \o f)[i] = s[i]
      /\ \A i \in 1..n : (s \o f)[Len(s) + i] = f[i]
  <2>1. f \in Seq(Ranges) /\ Len(f) = n /\ s \in Seq(Ranges) /\ n \in Nat
    BY ONLY <1>2, <1>5, <1>6
  <2> HIDE DEF n
  <2> QED BY ONLY <2>1, RangesJoined
<1>8. 1 \in 1..Len(s) /\ 2 \in 1..Len(s)
  BY ONLY <1>6
<1>9. ks[1] = x /\ ks[2] = y
  BY ONLY <1>1, <1>6, <1>7, <1>8
<1>10. \A i \in 1..n : ks[2 + i] = fieldKeyAt(l, u, shift, i)
  BY ONLY <1>1, <1>5, <1>6, <1>7
<1>11. ks \in Seq(Ranges) /\ Len(ks) = 2 + n
  BY ONLY <1>1, <1>6, <1>7
<1> QED BY ONLY <1>9, <1>10, <1>11 DEF ks, x, y, n

LEMMA RecordRevealedType ==
    ASSUME NEW l, LoadedRecord(l), NEW u, RecordFits(l, u), NEW shift \in Nat
    PROVE  /\ recordRevealed(l, u, shift) \in Seq(Ranges) /\ Len(recordRevealed(l, u, shift)) = 4 + Len(l.fields)
           /\ recordRevealed(l, u, shift)[1] = statusLine /\ recordRevealed(l, u, shift)[2] = contentTypeLine
           /\ recordRevealed(l, u, shift)[3] = keyAt(shift, toAccount, KEY_ACCOUNT)
           /\ recordRevealed(l, u, shift)[4] = keyAt(shift, toRecord(l, u), KEY_RECORD)
           /\ \A i \in 1..Len(l.fields) : recordRevealed(l, u, shift)[4 + i] = fieldKeyAt(l, u, shift, i)
<1> DEFINE n == Len(l.fields)  ks == recordKeys(l, u, shift)  rv == recordRevealed(l, u, shift)
           x == statusLine  y == contentTypeLine
<1>1. x \in Ranges /\ y \in Ranges
  BY DEF statusLine, contentTypeLine, landing, Ranges
<1>2. /\ ks \in Seq(Ranges) /\ Len(ks) = 2 + n
      /\ ks[1] = keyAt(shift, toAccount, KEY_ACCOUNT)
      /\ ks[2] = keyAt(shift, toRecord(l, u), KEY_RECORD)
      /\ \A i \in 1..n : ks[2 + i] = fieldKeyAt(l, u, shift, i)
  BY RecordKeysType
<1>3. rv = revealed(x, y, ks) /\ n \in Nat
  BY RecordNumbers DEF recordRevealed
<1> HIDE DEF ks, rv, x, y, n
<1>4. /\ revealed(x, y, ks) \in Seq(Ranges) /\ Len(revealed(x, y, ks)) = 2 + Len(ks)
      /\ revealed(x, y, ks)[1] = x /\ revealed(x, y, ks)[2] = y
      /\ \A i \in 1..Len(ks) : revealed(x, y, ks)[2 + i] = ks[i]
  <2>1. ks \in Seq(Ranges)
    BY ONLY <1>2
  <2> QED BY ONLY <1>1, <2>1, RevealedType
<1>5. rv \in Seq(Ranges) /\ Len(rv) = 4 + n
  BY ONLY <1>2, <1>3, <1>4
<1>6. \A i \in 1..(2 + n) : rv[2 + i] = ks[i]
  BY ONLY <1>2, <1>3, <1>4
<1>7. 1 \in 1..(2 + n) /\ 2 \in 1..(2 + n) /\ 2 + 1 = 3 /\ 2 + 2 = 4
  BY ONLY <1>3
<1>8. rv[3] = ks[1] /\ rv[4] = ks[2]
  BY ONLY <1>6, <1>7
<1>9. ASSUME NEW i \in 1..n PROVE rv[4 + i] = fieldKeyAt(l, u, shift, i)
  <2>1. 2 + i \in 1..(2 + n) /\ 2 + (2 + i) = 4 + i
    BY ONLY <1>3, i \in 1..n
  <2>2. rv[4 + i] = ks[2 + i]
    BY ONLY <1>6, <2>1
  <2> QED BY ONLY <1>2, <2>2, i \in 1..n
<1>10. rv[1] = x /\ rv[2] = y
  BY ONLY <1>3, <1>4
<1> QED BY ONLY <1>2, <1>5, <1>8, <1>9, <1>10 DEF rv, x, y, n

\* No revealed range of a record meets a hidden one, and no two hidden ones meet.
LEMMA RecordApart ==
    ASSUME NEW l, LoadedRecord(l), NEW u, RecordFits(l, u), NEW shift \in Nat, shift >= 5
    PROVE  /\ \A i \in 1..(4 + Len(l.fields)) : \A j \in 1..(1 + Len(l.fields)) :
                Apart(recordRevealed(l, u, shift)[i], recordHidden(l, u, shift)[j])
           /\ \A i, j \in 1..(1 + Len(l.fields)) :
                i # j => Apart(recordHidden(l, u, shift)[i], recordHidden(l, u, shift)[j])
<1> DEFINE n == Len(l.fields)  a == l.account_width  hs == recordHidden(l, u, shift)
           rv == recordRevealed(l, u, shift)  f(i) == toFieldLen(l, u, i)  w(i) == l.fields[i].width
<1>1. n \in Nat /\ a \in Nat
  BY RecordNumbers
<1>2. /\ hs[1].start = shift + 6 /\ hs[1].end = shift + 6 + a
      /\ \A i \in 1..n : hs[1 + i] = fieldAt(l, u, shift, i)
  BY RecordHiddenType
<1>3. ASSUME NEW i \in 1..n
      PROVE  /\ hs[1 + i].start = shift + f(i) + 5 /\ hs[1 + i].end = shift + f(i) + 5 + w(i)
             /\ rv[4 + i].start = shift + f(i) /\ rv[4 + i].end = shift + f(i) + 4
             /\ f(i) \in Nat /\ f(i) >= a + 13 /\ w(i) \in Nat
  <2>1. hs[1 + i] = fieldAt(l, u, shift, i) /\ rv[4 + i] = fieldKeyAt(l, u, shift, i)
    BY <1>2, RecordRevealedType
  <2>2. /\ fieldKeyAt(l, u, shift, i).start = shift + f(i) /\ fieldKeyAt(l, u, shift, i).end = shift + f(i) + 4
        /\ fieldAt(l, u, shift, i).start = shift + f(i) + 5
        /\ fieldAt(l, u, shift, i).end = shift + f(i) + 5 + w(i)
    BY FieldAtType
  <2>3. f(i) \in Nat /\ f(i) >= a + 13
    BY ToFieldType
  <2>4. w(i) \in Nat
    BY RecordNumbers
  <2> QED BY ONLY <2>1, <2>2, <2>3, <2>4
<1>4. ASSUME NEW i \in 1..n, NEW j \in 1..n, i < j PROVE f(i) + w(i) + 6 < f(j)
  BY <1>4, ToFieldLater
<1>5. /\ rv[1].start = 0 /\ rv[1].end = 1 /\ rv[2].start = 2 /\ rv[2].end = 3
      /\ rv[3].start = shift + 1 /\ rv[3].end = shift + 1 + 4
      /\ rv[4].start = shift + (a + 8) /\ rv[4].end = shift + (a + 8) + 4
  <2>1. /\ rv[1] = statusLine /\ rv[2] = contentTypeLine
        /\ rv[3] = keyAt(shift, toAccount, KEY_ACCOUNT) /\ rv[4] = keyAt(shift, toRecord(l, u), KEY_RECORD)
    BY RecordRevealedType
  <2>2. /\ statusLine.start = 0 /\ statusLine.end = 1 /\ contentTypeLine.start = 2 /\ contentTypeLine.end = 3
    BY DEF statusLine, contentTypeLine, landing
  <2>3. toAccount \in Seq(Nat) /\ toRecord(l, u) \in Seq(Nat)
    BY RecordTypes DEF Behind
  <2>4. Len(toAccount) = 1 /\ Len(toRecord(l, u)) = a + 8
    BY RecordLengths
  <2>5. KEY_ACCOUNT \in Nat /\ KEY_RECORD \in Nat
    BY KeyNames
  <2>6. /\ keyAt(shift, toAccount, KEY_ACCOUNT).start = shift + Len(toAccount)
        /\ keyAt(shift, toAccount, KEY_ACCOUNT).end = shift + Len(toAccount) + 4
    BY ONLY <2>3, <2>5, shift \in Nat, KeyAtType
  <2>7. /\ keyAt(shift, toRecord(l, u), KEY_RECORD).start = shift + Len(toRecord(l, u))
        /\ keyAt(shift, toRecord(l, u), KEY_RECORD).end = shift + Len(toRecord(l, u)) + 4
    BY ONLY <2>3, <2>5, shift \in Nat, KeyAtType
  <2> QED BY ONLY <2>1, <2>2, <2>4, <2>6, <2>7
<1> HIDE DEF n, a, hs, rv, f, w
\* An index is the account's or a field's, a revealed one of the head, the two keys or a field.
<1>6. ASSUME NEW j \in 1..(1 + n) PROVE j = 1 \/ \E m \in 1..n : j = 1 + m
  <2>1. j = 1 \/ (j - 1 \in 1..n /\ j = 1 + (j - 1))
    BY ONLY <1>1, j \in 1..(1 + n)
  <2> QED BY ONLY <2>1
<1>7. ASSUME NEW j \in 1..(4 + n) PROVE j \in {1, 2, 3, 4} \/ \E m \in 1..n : j = 4 + m
  <2>1. j \in {1, 2, 3, 4} \/ (j - 4 \in 1..n /\ j = 4 + (j - 4))
    BY ONLY <1>1, j \in 1..(4 + n)
  <2> QED BY ONLY <2>1
<1>8. ASSUME NEW m \in 1..n
      PROVE  /\ Apart(rv[1], hs[1 + m]) /\ Apart(rv[2], hs[1 + m]) /\ Apart(rv[3], hs[1 + m])
             /\ Apart(rv[4], hs[1 + m]) /\ Apart(rv[4 + m], hs[1]) /\ Apart(hs[1], hs[1 + m])
             /\ Apart(hs[1 + m], hs[1])
  <2> DEFINE x == f(m)  z == w(m)  p == hs[1 + m].start  q == hs[1 + m].end  r == rv[4 + m].start
  <2>1. /\ p = shift + x + 5 /\ q = shift + x + 5 + z /\ r = shift + x /\ x \in Nat /\ x >= a + 13 /\ z \in Nat
    BY ONLY <1>3, m \in 1..n
  <2> HIDE DEF x, z, p, q, r
  <2>2. /\ rv[1].end <= p /\ rv[2].end <= p /\ rv[3].end <= p /\ rv[4].end <= p /\ hs[1].end <= r /\ hs[1].end <= p
    BY ONLY <1>1, <1>2, <1>5, <2>1, shift \in Nat
  <2> QED BY ONLY <2>2 DEF Apart, p, r
<1>9. Apart(rv[1], hs[1]) /\ Apart(rv[2], hs[1]) /\ Apart(rv[3], hs[1]) /\ Apart(rv[4], hs[1])
  <2>1. /\ rv[1].end <= hs[1].start /\ rv[2].end <= hs[1].start /\ rv[3].end <= hs[1].start
        /\ hs[1].end <= rv[4].start
    BY ONLY <1>1, <1>2, <1>5, shift \in Nat
  <2> QED BY ONLY <2>1 DEF Apart
<1>10. ASSUME NEW m \in 1..n, NEW k \in 1..n
       PROVE  /\ Apart(rv[4 + m], hs[1 + k]) /\ (m # k => Apart(hs[1 + m], hs[1 + k]))
  <2> DEFINE x == f(m)  z == w(m)  y == f(k)  v == w(k)
             p == hs[1 + m].start  q == hs[1 + m].end  r == rv[4 + m].start  s == rv[4 + m].end
             b == hs[1 + k].start  c == hs[1 + k].end
  <2>1. /\ p = shift + x + 5 /\ q = shift + x + 5 + z /\ r = shift + x /\ s = shift + x + 4 /\ x \in Nat /\ z \in Nat
        /\ b = shift + y + 5 /\ c = shift + y + 5 + v /\ y \in Nat /\ v \in Nat
    BY ONLY <1>3, m \in 1..n, k \in 1..n
  <2>2. (m < k => x + z + 6 < y) /\ (k < m => y + v + 6 < x) /\ (m = k => x = y)
    BY ONLY <1>4, m \in 1..n, k \in 1..n
  <2>3. m < k \/ k < m \/ m = k
    BY ONLY m \in 1..n, k \in 1..n
  <2> HIDE DEF x, z, y, v, p, q, r, s, b, c
  <2>4. s <= b \/ c <= r
    BY ONLY <2>1, <2>2, <2>3, shift \in Nat
  <2>5. m # k => q <= b \/ c <= p
    BY ONLY <2>1, <2>2, <2>3, shift \in Nat
  <2> QED BY ONLY <2>4, <2>5 DEF Apart, p, q, r, s, b, c
<1>11. ASSUME NEW i \in 1..(4 + n), NEW j \in 1..(1 + n) PROVE Apart(rv[i], hs[j])
  <2>1. i \in {1, 2, 3, 4} \/ \E m \in 1..n : i = 4 + m
    BY ONLY <1>7, i \in 1..(4 + n)
  <2>2. j = 1 \/ \E m \in 1..n : j = 1 + m
    BY ONLY <1>6, j \in 1..(1 + n)
  <2> QED BY ONLY <1>8, <1>9, <1>10, <2>1, <2>2
<1>12. ASSUME NEW i \in 1..(1 + n), NEW j \in 1..(1 + n), i # j PROVE Apart(hs[i], hs[j])
  <2>1. i = 1 \/ \E m \in 1..n : i = 1 + m
    BY ONLY <1>6, i \in 1..(1 + n)
  <2>2. j = 1 \/ \E m \in 1..n : j = 1 + m
    BY ONLY <1>6, j \in 1..(1 + n)
  <2> QED BY ONLY <1>8, <1>10, <1>12, <2>1, <2>2
<1> QED BY ONLY <1>11, <1>12 DEF n, hs, rv

RecordShape(l, u, shift) ==
    /\ shapeOf(l).template = render_response(l, u)
    /\ shapeOf(l).len = shift + Len(recordBody(l, u))
    /\ shapeOf(l).revealed = recordRevealed(l, u, shift)
    /\ shapeOf(l).hidden = recordHidden(l, u, shift)

LEMMA RecordShapeIs ==
    ASSUME NEW l, LoadedRecord(l)
    PROVE  RecordShape(l, blank(l), Len(recordHead(l)))
<1>1. l.kind # "title"
  BY RecordNumbers
<1> QED BY <1>1 DEF RecordShape, shapeOf, recordHead, body, recordRevealed

\* A record has been rendered under a layout its readers have loaded.
RecordState ==
    /\ LoadedRecord(layout) /\ RecordFits(layout, view)
    /\ shape = shapeOf(layout) /\ response = render_response(layout, view)

LEMMA RecordStateFacts ==
    ASSUME RecordState
    PROVE  /\ RecordFits(layout, blank(layout)) /\ recordHead(layout) \in Seq(Nat)
           /\ Len(recordHead(layout)) \in Nat /\ Len(recordHead(layout)) >= 5
           /\ response = recordHead(layout) \o recordBody(layout, view)
           /\ response \in Seq(Nat)
           /\ shape.template = recordHead(layout) \o recordBody(layout, blank(layout))
           /\ shape.template \in Seq(Nat)
           /\ Len(response) = shape.len
           /\ shape.revealed = recordRevealed(layout, blank(layout), Len(recordHead(layout)))
           /\ shape.hidden = recordHidden(layout, blank(layout), Len(recordHead(layout)))
<1> DEFINE u == blank(layout)  h == recordHead(layout)  b == recordBody(layout, view)  c == recordBody(layout, u)
<1>0. LoadedRecord(layout) /\ RecordFits(layout, view) /\ shape = shapeOf(layout) /\ response = render_response(layout, view)
  BY DEF RecordState
<1>1. RecordFits(layout, u)
  BY <1>0, BlankRecordFits
<1>2. /\ response = h \o b /\ h \in Seq(Nat) /\ b \in Seq(Nat) /\ Len(b) = Len(c) /\ Len(b) \in Nat
  BY <1>0, RecordRendered
<1>3. render_response(layout, u) = h \o c /\ c \in Seq(Nat)
  BY <1>0, <1>1, RecordRendered
<1>4. RecordShape(layout, u, Len(h))
  BY <1>0, RecordShapeIs
<1>5. /\ shape.template = render_response(layout, u) /\ shape.len = Len(h) + Len(c)
      /\ shape.revealed = recordRevealed(layout, u, Len(h)) /\ shape.hidden = recordHidden(layout, u, Len(h))
  BY <1>0, <1>4 DEF RecordShape
<1>6. Len(h) \in Nat /\ Len(h) >= 5
  <2>1. h = head(Len(c)) /\ Len(c) \in Nat
    BY <1>2 DEF recordHead
  <2>2. Len(head(Len(c))) >= 5 /\ Len(head(Len(c))) \in Nat
    BY ONLY <1>3, <2>1, HeadSpots
  <2> QED BY ONLY <2>1, <2>2
<1> HIDE DEF h, b, c, u
<1>7. h \o b \in Seq(Nat) /\ Len(h \o b) = Len(h) + Len(b) /\ h \o c \in Seq(Nat)
  BY <1>2, <1>3, Joined
<1>8. response \in Seq(Nat) /\ Len(response) = shape.len
  BY ONLY <1>2, <1>5, <1>7
<1>9. shape.template = h \o c /\ shape.template \in Seq(Nat)
  BY ONLY <1>3, <1>5, <1>7
<1> QED BY ONLY <1>1, <1>2, <1>5, <1>6, <1>8, <1>9 DEF h, u, b, c

\* What a presentation of a record reveals: two lines of the head and the keys.
recordPiece(l, i) ==
    CASE i = 1 -> statusPiece
      [] i = 2 -> contentTypePiece
      [] i = 3 -> key(KEY_ACCOUNT)
      [] i = 4 -> key(KEY_RECORD)
      [] OTHER -> key(nameOf(l, i - 4))

LEMMA RecordRevealedSpots ==
    ASSUME NEW l, LoadedRecord(l), NEW v, RecordFits(l, v), NEW i \in 1..(4 + Len(l.fields))
    PROVE  /\ recordPiece(l, i) \in Seq(Nat)
           /\ Spot(recordHead(l) \o recordBody(l, v), recordRevealed(l, blank(l), Len(recordHead(l)))[i], recordPiece(l, i))
<1> DEFINE u == blank(l)  h == recordHead(l)  s == recordBody(l, v)  rv == recordRevealed(l, u, Len(h))  n == Len(l.fields)
<1>1. RecordFits(l, u) /\ n \in Nat
  BY BlankRecordFits, RecordNumbers
<1>2. h \in Seq(Nat) /\ s \in Seq(Nat) /\ Len(recordBody(l, u)) \in Nat
  BY RecordRendered
<1>3. Len(h) \in Nat
  BY ONLY <1>2
<1>4. /\ statusPiece \in Seq(Nat) /\ contentTypePiece \in Seq(Nat)
      /\ Spot(h \o s, statusLine, statusPiece) /\ Spot(h \o s, contentTypeLine, contentTypePiece)
  BY ONLY <1>2, HeadSpots DEF recordHead
<1> HIDE DEF h
<1>5. /\ toAccount \in Seq(Nat) /\ toRecord(l, u) \in Seq(Nat)
      /\ KEY_ACCOUNT \in Nat /\ KEY_RECORD \in Nat /\ key(KEY_ACCOUNT) \in Seq(Nat) /\ key(KEY_RECORD) \in Seq(Nat)
  BY <1>1, RecordTypes, KeyNames, KeyType DEF Behind
<1>6. /\ At(s, Len(toAccount), key(KEY_ACCOUNT)) /\ At(s, Len(toRecord(l, u)), key(KEY_RECORD))
  <2>1. At(s, Len(toAccount), member(KEY_ACCOUNT, accountOf(l, v)))
    BY RecordAt
  <2>2. At(s, Len(toRecord(l, v)), key(KEY_RECORD)) /\ Len(toRecord(l, v)) = Len(toRecord(l, u))
    BY <1>1, RecordAt, RecordLengths
  <2>3. accountOf(l, v) \in Seq(Nat) /\ Len(toAccount) \in Nat
    BY <1>5, RecordPads, AccountType
  <2> HIDE DEF s
  <2>4. At(s, Len(toAccount), key(KEY_ACCOUNT))
    BY ONLY <1>2, <1>5, <2>1, <2>3, MemberKeyAt
  <2> QED BY ONLY <2>2, <2>4
<1>7. /\ rv[1] = statusLine /\ rv[2] = contentTypeLine
      /\ rv[3] = keyAt(Len(h), toAccount, KEY_ACCOUNT)
      /\ rv[4] = keyAt(Len(h), toRecord(l, u), KEY_RECORD)
      /\ \A m \in 1..n : rv[4 + m] = fieldKeyAt(l, u, Len(h), m)
  BY <1>1, <1>3, RecordRevealedType
<1>8. ASSUME NEW m \in 1..n
      PROVE  key(nameOf(l, m)) \in Seq(Nat) /\ Spot(h \o s, fieldKeyAt(l, u, Len(h), m), key(nameOf(l, m)))
  <2> DEFINE x == toField(l, u, m)  name == nameOf(l, m)  p == valueOf(l, v, m)
  <2>1. x \in Seq(Nat) /\ Len(x) = toFieldLen(l, v, m) /\ Len(x) \in Nat
    BY <1>1, ToFieldType, ToFieldSame
  <2>2. name \in Nat /\ key(name) \in Seq(Nat)
    BY RecordNumbers, KeyType
  <2>3. p \in Seq(Nat) /\ At(s, toFieldLen(l, v, m), member(name, p))
    BY RecordPads, RecordAt
  <2> HIDE DEF x, name, p, s
  <2>4. At(s, Len(x), key(name))
    BY ONLY <1>2, <2>1, <2>2, <2>3, MemberKeyAt
  <2>5. Spot(h \o s, keyAt(Len(h), x, name), key(name))
    BY ONLY <1>2, <2>1, <2>2, <2>4, KeySpot
  <2> QED BY ONLY <2>2, <2>5 DEF fieldKeyAt, x, name
<1> HIDE DEF s, rv, u, n
<1>9. /\ Spot(h \o s, keyAt(Len(h), toAccount, KEY_ACCOUNT), key(KEY_ACCOUNT))
      /\ Spot(h \o s, keyAt(Len(h), toRecord(l, u), KEY_RECORD), key(KEY_RECORD))
  BY ONLY <1>2, <1>5, <1>6, KeySpot
<1> DEFINE r == h \o s
<1>10. i \in {1, 2, 3, 4} \/ (i - 4 \in 1..n /\ i = 4 + (i - 4) /\ i \notin {1, 2, 3, 4})
  BY <1>1 DEF n
<1> HIDE DEF r
<1>11. CASE i \in {1, 2, 3, 4}
  <2>1. /\ (i = 1 => recordPiece(l, i) = statusPiece) /\ (i = 2 => recordPiece(l, i) = contentTypePiece)
        /\ (i = 3 => recordPiece(l, i) = key(KEY_ACCOUNT)) /\ (i = 4 => recordPiece(l, i) = key(KEY_RECORD))
    BY DEF recordPiece
  <2>2. recordPiece(l, i) \in Seq(Nat)
    BY ONLY <1>4, <1>5, <1>11, <2>1
  <2>3. Spot(r, rv[i], recordPiece(l, i))
    BY ONLY <1>4, <1>7, <1>9, <1>11, <2>1 DEF r
  <2> QED BY ONLY <2>2, <2>3 DEF r, h, s, rv, u
<1>12. CASE i - 4 \in 1..n /\ i = 4 + (i - 4) /\ i \notin {1, 2, 3, 4}
  <2> DEFINE m == i - 4
  <2>1. m \in 1..n /\ i = 4 + m
    BY <1>12
  <2>2. recordPiece(l, i) = key(nameOf(l, m))
    BY <1>12 DEF recordPiece
  <2> HIDE DEF m
  <2>3. recordPiece(l, i) \in Seq(Nat) /\ Spot(r, rv[i], recordPiece(l, i))
    BY ONLY <1>7, <1>8, <2>1, <2>2 DEF r
  <2> QED BY ONLY <2>3 DEF r, h, s, rv, u
<1> QED BY ONLY <1>10, <1>11, <1>12

LEMMA RecordRevealsNoValue ==
    ASSUME RecordState
    PROVE  RevealsNoValue
<1> DEFINE l == layout  u == blank(l)  h == recordHead(l)  S == Len(h)  n == Len(l.fields)
           I == 1..(4 + n)  J == 1..(1 + n)
           rv == recordRevealed(l, u, S)  hs == recordHidden(l, u, S)  t == shape.template
<1>0. LoadedRecord(l) /\ RecordFits(l, view)
  BY DEF RecordState
<1>1. /\ RecordFits(l, u) /\ S \in Nat /\ S >= 5 /\ response = h \o recordBody(l, view) /\ response \in Seq(Nat)
      /\ t = h \o recordBody(l, u) /\ t \in Seq(Nat)
      /\ shape.revealed = rv /\ shape.hidden = hs
  BY RecordStateFacts
<1>2. DOMAIN rv = I /\ DOMAIN hs = J /\ (\A i \in I : rv[i] \in Ranges) /\ (\A j \in J : hs[j] \in Ranges)
  <2>1. rv \in Seq(Ranges) /\ Len(rv) = 4 + n /\ hs \in Seq(Ranges) /\ Len(hs) = 1 + n
    BY <1>0, <1>1, RecordRevealedType, RecordHiddenType
  <2> HIDE DEF rv, hs, n
  <2>2. DOMAIN rv = I /\ DOMAIN hs = J
    BY ONLY <2>1
  <2> QED BY ONLY <2>1, <2>2, ElementOfSeq
<1>3. /\ \A i \in I : \A j \in J : Apart(rv[i], hs[j])
      /\ \A i, j \in J : i # j => Apart(hs[i], hs[j])
  BY <1>0, <1>1, RecordApart
<1>4. ASSUME NEW i \in I
      PROVE  /\ recordPiece(l, i) \in Seq(Nat) /\ Spot(response, rv[i], recordPiece(l, i))
             /\ Spot(t, rv[i], recordPiece(l, i))
  <2>1. recordPiece(l, i) \in Seq(Nat) /\ Spot(h \o recordBody(l, view), rv[i], recordPiece(l, i))
    BY <1>0, RecordRevealedSpots
  <2>2. Spot(h \o recordBody(l, u), rv[i], recordPiece(l, i))
    BY <1>0, <1>1, RecordRevealedSpots
  <2> QED BY ONLY <1>1, <2>1, <2>2
<1> HIDE DEF l, u, h, S, rv, hs, t, I, J
<1>5. ASSUME NEW i \in I
      PROVE  SubSeq(response, rv[i].start + 1, rv[i].end) = SubSeq(t, rv[i].start + 1, rv[i].end)
  <2>1. SubSeq(response, rv[i].start + 1, rv[i].end) = recordPiece(l, i)
    BY ONLY <1>1, <1>4, SpotReads
  <2>2. SubSeq(t, rv[i].start + 1, rv[i].end) = recordPiece(l, i)
    BY ONLY <1>1, <1>4, SpotReads
  <2> QED BY ONLY <2>1, <2>2
<1>6. ASSUME NEW i \in I, NEW j \in J
      PROVE  positions(rv[i]) \cap positions(hs[j]) = {}
  BY ONLY <1>2, <1>3, ApartDisjoint, i \in I, j \in J
<1>7. ASSUME NEW i \in J, NEW j \in J, i # j
      PROVE  positions(hs[i]) \cap positions(hs[j]) = {}
  BY ONLY <1>2, <1>3, <1>7, ApartDisjoint, i \in J, j \in J
<1>8. /\ \A i \in DOMAIN shape.revealed :
            /\ read(shape.revealed[i])
               = SubSeq(shape.template, shape.revealed[i].start + 1, shape.revealed[i].end)
            /\ \A j \in DOMAIN shape.hidden :
                positions(shape.revealed[i]) \cap positions(shape.hidden[j]) = {}
      /\ \A i, j \in DOMAIN shape.hidden :
            i # j => positions(shape.hidden[i]) \cap positions(shape.hidden[j]) = {}
  BY ONLY <1>1, <1>2, <1>5, <1>6, <1>7 DEF read, t
<1> QED BY <1>8 DEF RevealsNoValue

LEMMA RecordQuotesStay ==
    ASSUME RecordState
    PROVE  QuotesStay
<1> DEFINE l == layout  u == blank(l)  h == recordHead(l)  b == recordBody(l, view)  c == recordBody(l, u)
           q == Blankable(l)
<1>0. LoadedRecord(l) /\ RecordFits(l, view)
  BY DEF RecordState
<1>1. /\ RecordFits(l, u) /\ h \in Seq(Nat) /\ response = h \o b /\ shape.template = h \o c /\ response \in Seq(Nat)
  BY RecordStateFacts
<1>2. Alike(q, b, c) /\ q \in BOOLEAN
  BY <1>0, <1>1, RecordAlike DEF Blankable
<1>3. b \in Seq(Nat) /\ c \in Seq(Nat)
  BY <1>0, <1>1, RecordAt
<1>4. q = (layout.padding # <<Quote>>)
  BY DEF Blankable
<1> HIDE DEF l, u, h, b, c, q
<1>5. Alike(q, h, h)
  BY ONLY <1>1, <1>2, AlikeSelf
<1>6. Alike(q, h \o b, h \o c)
  BY ONLY <1>1, <1>2, <1>3, <1>5, AlikeJoined
<1>7. q => \A i \in 1..Len(response) : response[i] = Quote <=> shape.template[i] = Quote
  BY ONLY <1>1, <1>6 DEF Alike
<1>8. DOMAIN response = 1..Len(response)
  BY ONLY <1>1
<1> QED BY ONLY <1>4, <1>7, <1>8 DEF QuotesStay

\* Where a record's readers find its values.
LEMMA RecordReads ==
    ASSUME RecordState
    PROVE  /\ read(shape.hidden[1]) = accountOf(layout, view)
           /\ \A i \in 1..Len(layout.fields) : read(shape.hidden[i + 1]) = valueOf(layout, view, i)
<1> DEFINE l == layout  u == blank(l)  h == recordHead(l)  b == recordBody(l, view)  hs == recordHidden(l, u, Len(h))
           n == Len(l.fields)
<1>0. LoadedRecord(l) /\ RecordFits(l, view)
  BY DEF RecordState
<1>1. /\ RecordFits(l, u) /\ h \in Seq(Nat) /\ response = h \o b /\ response \in Seq(Nat) /\ Len(h) \in Nat
      /\ shape.hidden = hs
  BY RecordStateFacts
<1>2. /\ b \in Seq(Nat) /\ At(b, Len(toAccount), member(KEY_ACCOUNT, accountOf(l, view))) /\ n \in Nat
  BY <1>0, RecordAt, RecordNumbers
<1>3. toAccount \in Seq(Nat)
  BY <1>0, <1>1, RecordTypes DEF Behind
<1>4. /\ hs[1] = valueAt(Len(h), toAccount, KEY_ACCOUNT, accountOf(l, u))
      /\ \A i \in 1..n : hs[1 + i] = fieldAt(l, u, Len(h), i)
  BY <1>0, <1>1, RecordHiddenType
<1>5. /\ accountOf(l, view) \in Seq(Nat) /\ accountOf(l, u) \in Seq(Nat)
      /\ Len(accountOf(l, u)) = Len(accountOf(l, view))
  <2>1. AccountFits(l, view) /\ AccountFits(l, u)
    BY <1>0, <1>1, RecordPads
  <2> QED BY <2>1, AccountType
<1>6. KEY_ACCOUNT \in Nat
  BY KeyNames
<1>7. ASSUME NEW i \in 1..n PROVE read(hs[i + 1]) = valueOf(l, view, i)
  <2> DEFINE x == toField(l, u, i)  name == nameOf(l, i)  p == valueOf(l, view, i)  q == valueOf(l, u, i)
  <2>1. x \in Seq(Nat) /\ Len(x) = toFieldLen(l, view, i)
    BY <1>0, <1>1, ToFieldType, ToFieldSame
  <2>2. name \in Nat
    BY <1>0, RecordNumbers
  <2>3. p \in Seq(Nat) /\ q \in Seq(Nat) /\ Len(q) = Len(p)
    BY <1>0, <1>1, RecordPads
  <2>4. At(b, toFieldLen(l, view, i), member(name, p))
    BY <1>0, RecordAt
  <2>5. hs[i + 1] = valueAt(Len(h), x, name, q)
    <3>1. i + 1 = 1 + i
      OBVIOUS
    <3> HIDE DEF hs, h, u, l, n
    <3> QED BY ONLY <1>4, <3>1, i \in 1..n DEF fieldAt
  <2> HIDE DEF x, name, p, q, h, b, hs, l, u
  <2>6. At(b, Len(x), member(name, p))
    BY ONLY <2>1, <2>4
  <2>7. Spot(h \o b, valueAt(Len(h), x, name, q), p)
    BY ONLY <1>1, <1>2, <2>1, <2>2, <2>3, <2>6, ValueSpot
  <2>8. Spot(response, hs[i + 1], p)
    BY ONLY <1>1, <2>5, <2>7
  <2>9. read(hs[i + 1]) = p
    BY ONLY <1>1, <2>3, <2>8, SpotReads DEF read
  <2> QED BY ONLY <2>9 DEF p
<1> HIDE DEF l, u, h, b, hs, n
<1>8. Spot(h \o b, valueAt(Len(h), toAccount, KEY_ACCOUNT, accountOf(l, u)), accountOf(l, view))
  BY ONLY <1>1, <1>2, <1>3, <1>5, <1>6, ValueSpot
<1>9. read(hs[1]) = accountOf(l, view)
  <2>1. Spot(response, hs[1], accountOf(l, view))
    BY ONLY <1>1, <1>4, <1>8
  <2> QED BY ONLY <1>1, <1>5, <2>1, SpotReads DEF read
<1> QED BY ONLY <1>1, <1>7, <1>9 DEF l, n

LEMMA RecordReadersFindValues ==
    ASSUME RecordState
    PROVE  ReadersFindValues
<1>1. /\ layout.kind = "record" /\ DOMAIN layout.fields = 1..Len(layout.fields)
  BY RecordNumbers DEF RecordState
<1>2. Len(response) = shape.len
  BY RecordStateFacts
<1>3. /\ read(shape.hidden[1]) = accountOf(layout, view)
      /\ \A i \in 1..Len(layout.fields) : read(shape.hidden[i + 1]) = valueOf(layout, view, i)
  BY RecordReads
<1> QED BY ONLY <1>1, <1>2, <1>3 DEF ReadersFindValues, ofTitle, accountOf, valueOf

\* A symbol stands nowhere.
Lacks(s, x) == \A i \in 1..Len(s) : s[i] # x

LEMMA LacksOnlyAt ==
    ASSUME NEW s, NEW x, Lacks(s, x), NEW n
    PROVE  OnlyAt(s, x, n)
  BY DEF Lacks, OnlyAt

LEMMA LacksJoined ==
    ASSUME NEW p \in Seq(Nat), NEW r \in Seq(Nat), NEW x, Lacks(p, x), Lacks(r, x)
    PROVE  Lacks(p \o r, x)
<1>1. /\ Len(p \o r) = Len(p) + Len(r) /\ Len(p) \in Nat /\ Len(r) \in Nat
      /\ \A i \in 1..Len(p) : (p \o r)[i] = p[i]
      /\ \A i \in 1..(Len(p) + Len(r)) : i > Len(p) => (p \o r)[i] = r[i - Len(p)]
  BY Joined
<1>2. ASSUME NEW i \in 1..(Len(p) + Len(r)) PROVE (p \o r)[i] # x
  <2>1. CASE i <= Len(p)
    <3>1. i \in 1..Len(p)
      BY ONLY <1>1, <2>1, i \in 1..(Len(p) + Len(r))
    <3> QED BY <1>1, <3>1 DEF Lacks
  <2>2. CASE i > Len(p)
    <3>1. i - Len(p) \in 1..Len(r)
      BY ONLY <1>1, <2>2, i \in 1..(Len(p) + Len(r))
    <3>2. (p \o r)[i] = r[i - Len(p)]
      BY ONLY <1>1, <2>2, i \in 1..(Len(p) + Len(r))
    <3> QED BY <3>1, <3>2 DEF Lacks
  <2> QED BY ONLY <1>1, <2>1, <2>2, i \in 1..(Len(p) + Len(r))
<1> QED BY ONLY <1>1, <1>2 DEF Lacks

\* Where a name can stand.
LEMMA NamesAndMarks ==
    ASSUME NEW x \in Names
    PROVE  /\ x \in Nat /\ x # Comma /\ x # Quote
           /\ Lacks(comma, x) /\ Lacks(open, x) /\ Lacks(quote, x) /\ Lacks(close, x)
<1>1. x \in Nat /\ x # Comma /\ x # Open /\ x # Quote /\ x # Close
  BY DEF Names, Comma, Open, Quote, Close
<1>2. /\ Len(comma) = 1 /\ Len(open) = 1 /\ Len(quote) = 1 /\ Len(close) = 2
      /\ comma[1] = Comma /\ open[1] = Open /\ quote[1] = Quote /\ close[1] = Close /\ close[2] = Close
  BY Marks DEF comma, open, quote, close
<1> QED BY ONLY <1>1, <1>2 DEF Lacks

LEMMA KeySymbols ==
    ASSUME NEW name \in Nat, NEW x \in Names
    PROVE  /\ OnlyAt(key(name), x, 2) /\ (name # x => Lacks(key(name), x))
<1> DEFINE k == key(name)
<1>1. Len(k) = 4 /\ k[1] = Quote /\ k[2] = name /\ k[3] = Quote /\ k[4] = Colon
  BY DEF key
<1>2. x # Quote /\ x # Colon
  BY DEF Names, Quote, Colon
<1> HIDE DEF k
<1>3. ASSUME NEW i \in 1..4 PROVE i = 1 \/ i = 2 \/ i = 3 \/ i = 4
  OBVIOUS
<1>4. OnlyAt(k, x, 2)
  BY ONLY <1>1, <1>2, <1>3 DEF OnlyAt
<1>5. name # x => Lacks(k, x)
  BY ONLY <1>1, <1>2, <1>3 DEF Lacks
<1> QED BY ONLY <1>4, <1>5 DEF k

Bytes(s) == \A i \in 1..Len(s) : s[i] \in Byte

LEMMA BytesLack ==
    ASSUME NEW s, Bytes(s), NEW x \in Names
    PROVE  Lacks(s, x)
<1>1. \A b \in Byte : b # x
  <2>1. x \in Nat /\ x > 300
    BY ONLY x \in Names DEF Names
  <2>2. \A b \in Byte : b \in Nat /\ b < 256
    BY ONLY DEF Byte
  <2> QED BY ONLY <2>1, <2>2
<1> QED BY <1>1 DEF Bytes, Lacks

LEMMA MemberSymbols ==
    ASSUME NEW name \in Nat, NEW value \in Seq(Nat), Bytes(value), NEW x \in Names
    PROVE  /\ OnlyAt(member(name, value), x, 2) /\ (name # x => Lacks(member(name, value), x))
<1> DEFINE k == key(name)  s == string(value)
<1>1. k \in Seq(Nat) /\ Len(k) = 4 /\ s \in Seq(Nat) /\ s = (quote \o value) \o quote
  BY KeyType, StringType DEF Then
<1>2. Lacks(value, x) /\ Lacks(quote, x) /\ quote \in Seq(Nat)
  BY BytesLack, NamesAndMarks, Marks
<1>3. Lacks(s, x)
  <2> DEFINE c == quote \o value
  <2>1. c \in Seq(Nat) /\ Lacks(c, x)
    BY ONLY <1>2, value \in Seq(Nat), Joined, LacksJoined
  <2> HIDE DEF c
  <2>2. Lacks(c \o quote, x)
    BY ONLY <1>2, <2>1, LacksJoined
  <2> QED BY ONLY <1>1, <2>2 DEF c
<1>4. OnlyAt(k, x, 2) /\ (name # x => Lacks(k, x))
  BY KeySymbols
<1>5. member(name, value) = k \o s
  BY DEF member
<1> HIDE DEF k, s
<1>6. OnlyAt(s, x, 2 - Len(k))
  BY ONLY <1>3, LacksOnlyAt
<1>7. OnlyAt(k \o s, x, 2)
  BY ONLY <1>1, <1>4, <1>6, 2 \in Int, OnlyAtJoined
<1>8. name # x => Lacks(k \o s, x)
  BY ONLY <1>1, <1>3, <1>4, LacksJoined
<1> QED BY ONLY <1>5, <1>7, <1>8

LEMMA AccountBytes ==
    ASSUME NEW l, NEW v, AccountFits(l, v)
    PROVE  Bytes(accountOf(l, v))
  BY PadType DEF AccountFits, accountOf, Bytes

\* What precedes the fields of a record holds the keys of the account and of the record, and no other.
LEMMA ToFieldsLacks ==
    ASSUME NEW l, NEW v, AccountFits(l, v), NEW x \in Names, x # KEY_ACCOUNT, x # KEY_RECORD
    PROVE  Lacks(toFields(l, v), x)
<1> DEFINE a == member(KEY_ACCOUNT, accountOf(l, v))  k == key(KEY_RECORD)  r == toRecord(l, v)
<1>1. /\ toAccount = open /\ r = Then(toAccount, a, comma) /\ r \in Seq(Nat)
      /\ toFields(l, v) = Then(r, k, open)
  BY ToRecordBehind, ToFieldsBehind DEF Behind
<1>2. KEY_ACCOUNT \in Nat /\ KEY_RECORD \in Nat
  BY KeyNames
<1>3. accountOf(l, v) \in Seq(Nat) /\ Bytes(accountOf(l, v))
  BY AccountType, AccountBytes
<1>4. a \in Seq(Nat) /\ Lacks(a, x)
  BY ONLY <1>2, <1>3, x \in Names, x # KEY_ACCOUNT, MemberType, MemberSymbols
<1>5. k \in Seq(Nat) /\ Lacks(k, x)
  BY ONLY <1>2, x \in Names, x # KEY_RECORD, KeyType, KeySymbols
<1>6. open \in Seq(Nat) /\ comma \in Seq(Nat) /\ Lacks(open, x) /\ Lacks(comma, x)
  BY Marks, NamesAndMarks
<1> HIDE DEF a, k, r
<1>7. ASSUME NEW w \in Seq(Nat), NEW p \in Seq(Nat), NEW c \in Seq(Nat), Lacks(w, x), Lacks(p, x), Lacks(c, x)
      PROVE  Lacks(Then(w, p, c), x)
  <2> DEFINE s == w \o p
  <2>1. s \in Seq(Nat) /\ Lacks(s, x)
    BY ONLY <1>7, Joined, LacksJoined
  <2> HIDE DEF s
  <2>2. Lacks(s \o c, x)
    BY ONLY <1>7, <2>1, LacksJoined
  <2> QED BY ONLY <2>2 DEF Then, s
<1>8. Lacks(r, x)
  BY ONLY <1>1, <1>4, <1>6, <1>7
<1>9. Lacks(Then(r, k, open), x)
  BY ONLY <1>1, <1>5, <1>6, <1>7, <1>8
<1> QED BY ONLY <1>1, <1>9

\* A record holds the name of a field once, in front of its value.
LEMMA RecordNameOnce ==
    ASSUME NEW l, LoadedRecord(l), NEW v, RecordFits(l, v), NEW f \in 1..Len(l.fields)
    PROVE  OnlyAt(recordBody(l, v), nameOf(l, f), toFieldLen(l, v, f) + 2)
<1> DEFINE x == nameOf(l, f)  m == members(l, v)  n == Len(l.fields)  t == toFields(l, v)  b == Len(before(m)[f])
<1>1. x \in Names /\ x # KEY_ACCOUNT /\ x # KEY_RECORD
  BY RecordNumbers
<1>2. Items(m) /\ Len(m) = n
  BY MembersType
<1>3. ASSUME NEW k \in 1..n
      PROVE  /\ nameOf(l, k) \in Nat /\ valueOf(l, v, k) \in Seq(Nat) /\ Bytes(valueOf(l, v, k))
             /\ m[k] = member(nameOf(l, k), valueOf(l, v, k))
  BY RecordNumbers, RecordPads, MembersType DEF Bytes
<1>4. ASSUME NEW k \in 1..n, k # f PROVE nameOf(l, k) # x
  BY <1>4, RecordKeysDiffer
<1>5. t \in Seq(Nat) /\ Lacks(t, x)
  BY <1>1, RecordTypes, RecordPads, ToFieldsLacks DEF Behind
<1>6. recordBody(l, v) = Then(t, listed(m), close) /\ listed(m) \in Seq(Nat)
  BY RecordTypes DEF Behind
<1>7. close \in Seq(Nat) /\ Lacks(close, x) /\ x # Comma
  BY <1>1, Marks, NamesAndMarks
<1>8. b \in Nat
  <2>1. before(m)[f] \in Seq(Nat)
    BY <1>2, BeforeType
  <2> QED BY ONLY <2>1
<1>9. f \in 1..n
  OBVIOUS
<1> HIDE DEF x, m, n, t
<1>10. OnlyAt(m[f], x, 2)
  BY ONLY <1>1, <1>3, <1>9, MemberSymbols
<1>11. ASSUME NEW k \in 1..n, k # f PROVE \A p \in Int : OnlyAt(m[k], x, p)
  <2>1. Lacks(m[k], x)
    BY ONLY <1>1, <1>3, <1>4, <1>11, MemberSymbols
  <2> QED BY ONLY <2>1, LacksOnlyAt
<1>12. OnlyAt(listed(m), x, Len(before(m)[f]) + 2)
  BY ONLY <1>2, <1>7, <1>9, <1>10, <1>11, 2 \in Int, ListedOnlyAt
<1> HIDE DEF b
<1> DEFINE w == Len(t) + b + 2  s == listed(m)
<1>13. w \in Int /\ w - Len(t) = b + 2 /\ Len(t) \in Nat
  BY ONLY <1>5, <1>8
<1>14. OnlyAt(s, x, w - Len(t))
  BY ONLY <1>12, <1>13 DEF b
<1>15. OnlyAt(t, x, w) /\ \A i \in 1..Len(close) : close[i] # x
  BY ONLY <1>5, <1>7, LacksOnlyAt DEF Lacks
<1> HIDE DEF w, s
<1>16. OnlyAt(Then(t, s, close), x, w)
  BY ONLY <1>5, <1>6, <1>7, <1>13, <1>14, <1>15, ThenOnlyAt DEF s
<1>17. w = toFieldLen(l, v, f) + 2
  BY DEF toFieldLen, w, t, b, m
<1> QED BY ONLY <1>6, <1>16, <1>17 DEF x, s

\* A name, its marks and the quote of its value.
opening(name) == <<Quote, name, Quote, Colon, Quote>>

LEMMA MemberOpening ==
    ASSUME NEW name \in Nat, NEW value \in Seq(Nat)
    PROVE  opening(name) \in Seq(Nat) /\ Len(opening(name)) = 5 /\ At(member(name, value), 0, opening(name))
<1> DEFINE m == member(name, value)  k == key(name)  o == opening(name)
<1>1. m \in Seq(Nat) /\ Len(m) = Len(value) + 6 /\ At(m, 0, k) /\ At(m, 4, quote) /\ Len(value) \in Nat
  <2>1. Len(value) \in Nat
    OBVIOUS
  <2>2. /\ member(name, value) \in Seq(Nat) /\ Len(member(name, value)) = Len(value) + 6
        /\ At(member(name, value), 0, key(name)) /\ At(member(name, value), 4, quote)
    BY ONLY name \in Nat, value \in Seq(Nat), MemberType
  <2> QED BY ONLY <2>1, <2>2 DEF m, k
<1>2. Len(k) = 4 /\ k[1] = Quote /\ k[2] = name /\ k[3] = Quote /\ k[4] = Colon
  BY DEF key
<1>3. Len(quote) = 1 /\ quote[1] = Quote
  BY Marks DEF quote
<1>4. o \in Seq(Nat) /\ Len(o) = 5 /\ o[1] = Quote /\ o[2] = name /\ o[3] = Quote /\ o[4] = Colon /\ o[5] = Quote
  <2>1. Quote \in Nat /\ Colon \in Nat
    BY DEF Quote, Colon
  <2> QED BY <2>1 DEF opening
<1> HIDE DEF m, k, o
<1>5. m[0 + 1] = Quote /\ m[0 + 2] = name /\ m[0 + 3] = Quote /\ m[0 + 4] = Colon
  <2>1. \A i \in 1..4 : m[0 + i] = k[i]
    BY ONLY <1>1, <1>2 DEF At
  <2>2. 1 \in 1..4 /\ 2 \in 1..4 /\ 3 \in 1..4 /\ 4 \in 1..4
    OBVIOUS
  <2> QED BY ONLY <1>2, <2>1, <2>2
<1>6. m[0 + 5] = Quote
  <2>1. \A i \in 1..1 : m[4 + i] = quote[i]
    BY ONLY <1>1, <1>3 DEF At
  <2>2. 1 \in 1..1 /\ 4 + 1 = 0 + 5
    OBVIOUS
  <2> QED BY ONLY <1>3, <2>1, <2>2
<1>7. ASSUME NEW i \in 1..5 PROVE m[0 + i] = o[i]
  <2>1. i = 1 \/ i = 2 \/ i = 3 \/ i = 4 \/ i = 5
    OBVIOUS
  <2> QED BY ONLY <1>4, <1>5, <1>6, <2>1
<1>8. At(m, 0, o)
  <2>1. 0 + Len(o) <= Len(m)
    BY ONLY <1>1, <1>4
  <2> QED BY ONLY <1>4, <1>7, <2>1 DEF At
<1> QED BY ONLY <1>4, <1>8 DEF m, o

LEMMA RecordKeyNamesItsValue ==
    ASSUME RecordState
    PROVE  KeyNamesItsValue
<1> DEFINE l == layout  u == blank(l)  h == recordHead(l)  S == Len(h)  b == recordBody(l, view)
           hs == recordHidden(l, u, S)  n == Len(l.fields)
<1>0. LoadedRecord(l) /\ RecordFits(l, view)
  BY DEF RecordState
<1>1. /\ RecordFits(l, u) /\ h \in Seq(Nat) /\ response = h \o b /\ response \in Seq(Nat) /\ S \in Nat
      /\ shape.hidden = hs
  BY RecordStateFacts
<1>2. b \in Seq(Nat) /\ n \in Nat /\ DOMAIN l.fields = 1..n /\ Len(recordBody(l, u)) \in Nat
  BY <1>0, <1>1, RecordAt, RecordNumbers, RecordRendered
<1>3. At(response, S, b)
  <2>1. Behind(h \o b, h, b, 0)
    BY <1>1, <1>2, JoinedAt
  <2> QED BY ONLY <1>1, <2>1 DEF Behind
<1>4. h \in Seq(Nat \ Names)
  BY <1>2, HeadType DEF recordHead
<1>5. ASSUME NEW f \in 1..n
      PROVE  LET name  == nameOf(l, f)
                 at    == hs[1 + index_of(l, name)]
             IN /\ read([start |-> at.start - 5, end |-> at.start]) = opening(name)
                /\ \A i \in DOMAIN response : response[i] = name => i = at.start - 3
  <2> DEFINE x == nameOf(l, f)  at == hs[1 + f].start  p == valueOf(l, view, f)  F == toFieldLen(l, view, f)
             o == opening(x)  mem == member(x, p)
  <2>1. index_of(l, x) = f
    BY <1>0, IndexOf
  <2>2. at = S + F + 5 /\ F \in Nat
    <3>1. hs[1 + f] = fieldAt(l, u, S, f)
      BY <1>0, <1>1, RecordHiddenType
    <3>2. fieldAt(l, u, S, f).start = S + toFieldLen(l, u, f) + 5
      BY <1>0, <1>1, FieldAtType
    <3>3. toFieldLen(l, u, f) = F /\ F \in Nat
      BY <1>0, <1>1, ToFieldSame, ToFieldType
    <3> QED BY ONLY <3>1, <3>2, <3>3
  <2>3. x \in Names /\ x \in Nat
    BY <1>0, RecordNumbers
  <2>4. p \in Seq(Nat) /\ At(b, F, mem)
    BY <1>0, RecordPads, RecordAt
  <2>5. OnlyAt(b, x, F + 2)
    BY <1>0, RecordNameOnce
  <2> HIDE DEF x, at, p, F, o, l, u, h, S, b, hs, n, mem
  <2>6. o \in Seq(Nat) /\ Len(o) = 5 /\ At(mem, 0, o) /\ mem \in Seq(Nat)
    BY ONLY <2>3, <2>4, MemberOpening, MemberType DEF o, mem
  <2>7. At(b, F + 0, o)
    BY ONLY <1>2, <2>2, <2>4, <2>6, 0 \in Nat, AtTrans
  <2>8. F + 0 \in Nat /\ S + (F + 0) = S + F /\ S + F \in Nat
    BY ONLY <1>1, <2>2
  <2>9. At(response, S + (F + 0), o)
    BY ONLY <1>1, <1>2, <1>3, <2>6, <2>7, <2>8, AtTrans
  <2>10. SubSeq(response, (S + F) + 1, (S + F) + 5) = o
    <3>1. At(response, S + F, o)
      BY ONLY <2>8, <2>9
    <3>2. SubSeq(response, (S + F) + 1, (S + F) + Len(o)) = o
      BY ONLY <1>1, <2>6, <2>8, <3>1, AtReads
    <3> QED BY ONLY <2>6, <3>2
  <2>11. at - 5 = S + F /\ at = (S + F) + 5 /\ at - 3 = S + F + 2 /\ at - 3 \in Int /\ (at - 3) - Len(h) = F + 2
    BY ONLY <1>1, <2>2 DEF S
  <2>12. read([start |-> at - 5, end |-> at]) = o
    <3>1. read([start |-> at - 5, end |-> at]) = SubSeq(response, (at - 5) + 1, at)
      BY DEF read
    <3> QED BY ONLY <2>10, <2>11, <3>1
  <2>13. Lacks(h, x)
    <3>1. ASSUME NEW i \in 1..Len(h) PROVE h[i] \in Nat \ Names
      BY ONLY <1>4, i \in 1..Len(h), ElementOfSeq
    <3> QED BY ONLY <2>3, <3>1 DEF Lacks
  <2>14. OnlyAt(h, x, at - 3)
    BY ONLY <2>13, LacksOnlyAt
  <2>15. OnlyAt(b, x, (at - 3) - Len(h))
    BY ONLY <2>5, <2>11
  <2>16. OnlyAt(h \o b, x, at - 3)
    BY ONLY <1>1, <1>2, <2>11, <2>14, <2>15, OnlyAtJoined
  <2>17. DOMAIN response = 1..Len(response)
    BY ONLY <1>1
  <2>18. \A i \in DOMAIN response : response[i] = x => i = at - 3
    BY ONLY <1>1, <2>16, <2>17 DEF OnlyAt
  <2> QED BY ONLY <2>1, <2>12, <2>18 DEF x, at, o
<1> HIDE DEF hs, l, n, S, h, u, b
<1>6. ASSUME NEW f \in DOMAIN l.fields
      PROVE  LET name  == l.fields[f].key
                 at    == shape.hidden[1 + index_of(l, name)]
             IN /\ read([start |-> at.start - 5, end |-> at.start]) = <<Quote, name, Quote, Colon, Quote>>
                /\ \A i \in DOMAIN response : response[i] = name => i = at.start - 3
  BY ONLY <1>1, <1>2, <1>5, f \in DOMAIN l.fields DEF nameOf, opening
<1> QED BY ONLY <1>6 DEF KeyNamesItsValue, l

\* All who read a record agree on it.
LEMMA RecordReadersAgree ==
    ASSUME RecordState
    PROVE  ReadersAgree
<1>1. layout.kind # "title"
  BY RecordNumbers DEF RecordState
<1>2. CircuitFindsOwners
  BY <1>1 DEF CircuitFindsOwners, ofTitle
<1> QED BY <1>2, RecordReadersFindValues, RecordQuotesStay, RecordKeyNamesItsValue DEF ReadersAgree

\* Before a layout is loaded there is no response; afterwards every reader has the ranges
\* of that layout, and a response is the rendering of a record that fits it.
LayoutInv ==
    \/ layout = NoLayout /\ response = Err
    \/ /\ layout \in LayoutFiles /\ valid(layout) /\ shape = shapeOf(layout)
       /\ \/ response = Err
          \/ /\ view \in Views(layout) /\ renders(layout, view)
             /\ response = render_response(layout, view)

LEMMA LayoutKinds ==
    ASSUME NEW l \in LayoutFiles
    PROVE  /\ l # NoLayout
           /\ valid(l) => (LoadedTitle(l) /\ l.kind = "title") \/ (LoadedRecord(l) /\ l.kind # "title")
<1>0. NoLayout.kind = "none"
  BY DEF NoLayout
<1>1. CASE l \in TitleLayout
  <2>1. l.kind = "title"
    BY <1>1 DEF TitleLayout
  <2>2. l # NoLayout
    BY ONLY <1>0, <2>1
  <2>3. valid(l) => validTitle(l)
    BY <2>1 DEF valid
  <2> QED BY <1>1, <2>1, <2>2, <2>3, Zenon DEF LoadedTitle
<1>2. CASE l \in RecordLayout
  <2>1. l.kind = "record"
    BY <1>2 DEF RecordLayout
  <2>2. l # NoLayout
    BY ONLY <1>0, <2>1
  <2>3. l.kind # "title"
    BY <2>1
  <2>4. valid(l) => validRecord(l)
    BY <2>3 DEF valid
  <2> QED BY <1>2, <2>2, <2>3, <2>4, Zenon DEF LoadedRecord
<1> QED BY <1>1, <1>2, LayoutAssumption

LEMMA LayoutInvInit == Init => LayoutInv
  BY DEF Init, LayoutInv

LEMMA LayoutInvNext ==
    ASSUME LayoutInv, [Next]_vars
    PROVE  LayoutInv'
<1>1. ASSUME NEW l \in LayoutFiles, Load(l) PROVE LayoutInv'
  <2>1. response = Err
    BY <1>1, LayoutKinds DEF Load, LayoutInv
  <2> QED BY <1>1, <2>1 DEF Load, LayoutInv
<1>2. ASSUME NEW v \in Views(layout), Answer(v) PROVE LayoutInv'
  <2>1. layout \in LayoutFiles /\ valid(layout) /\ shape = shapeOf(layout)
    BY <1>2 DEF Answer, LayoutInv
  <2>2. /\ layout' = layout /\ shape' = shape /\ view' = v /\ renders(layout, v)
        /\ response' = render_response(layout, v)
    BY <1>2 DEF Answer
  <2>3. view' \in Views(layout) /\ renders(layout, view') /\ response' = render_response(layout, view')
    BY <1>2, <2>2
  <2> QED BY ONLY <2>1, <2>2, <2>3 DEF LayoutInv
<1>3. ASSUME NEW v \in Views(layout), Refuse(v) PROVE LayoutInv'
  <2>1. layout \in LayoutFiles /\ valid(layout) /\ shape = shapeOf(layout)
    BY <1>3 DEF Refuse, LayoutInv
  <2>2. layout' = layout /\ shape' = shape /\ response' = Err
    BY <1>3 DEF Refuse
  <2> QED BY ONLY <2>1, <2>2 DEF LayoutInv
<1>4. CASE UNCHANGED vars
  <2>1. layout' = layout /\ shape' = shape /\ view' = view /\ response' = response
    BY <1>4 DEF vars
  <2> QED BY <2>1 DEF LayoutInv
<1> QED BY <1>1, <1>2, <1>3, <1>4 DEF Next

\* A response is a title or a record, rendered under the layout its readers loaded.
LEMMA Rendered ==
    ASSUME LayoutInv, answered
    PROVE  TitleState \/ RecordState
<1>1. /\ layout \in LayoutFiles /\ valid(layout) /\ shape = shapeOf(layout)
      /\ view \in Views(layout) /\ renders(layout, view) /\ response = render_response(layout, view)
  BY DEF LayoutInv, answered
<1>2. CASE LoadedTitle(layout) /\ layout.kind = "title"
  <2>1. view \in TitleView /\ titleRenders(layout, view)
    BY <1>1, <1>2, LayoutAssumption DEF renders
  <2> QED BY <1>1, <1>2, <2>1, RenderedTitleFits DEF TitleState
<1>3. CASE LoadedRecord(layout) /\ layout.kind # "title"
  <2>1. view \in RecordView /\ recordRenders(layout, view)
    BY <1>1, <1>3, LayoutAssumption DEF renders
  <2> QED BY <1>1, <1>3, <2>1, RenderedRecordFits DEF RecordState
<1> QED BY <1>1, <1>2, <1>3, LayoutKinds

LEMMA LayoutInvReads ==
    ASSUME LayoutInv
    PROVE  ReadersAgree /\ RevealsNoValue
<1>1. CASE ~ answered
  BY <1>1 DEF ReadersAgree, ReadersFindValues, QuotesStay, CircuitFindsOwners, KeyNamesItsValue, RevealsNoValue
<1>2. CASE answered
  BY <1>2, Rendered, TitleReadersAgree, TitleRevealsNoValue, RecordReadersAgree, RecordRevealsNoValue
<1> QED BY <1>1, <1>2

-----------------------------------------------------------------------------
(* Numbers.                                                                *)

LEMMA SmallMod ==
    ASSUME NEW x \in Nat, NEW m \in Nat, x < m
    PROVE  x % m = x
  OBVIOUS

\* A digit and what precedes it are determined by their number.
LEMMA LastDigit ==
    ASSUME NEW base \in Nat, NEW a \in Nat, NEW b \in Nat, NEW x \in Nat, NEW y \in Nat,
           x < base, y < base, a * base + x = b * base + y
    PROVE  a = b /\ x = y
<1> DEFINE c == a * base  d == b * base
<1>0. c \in Nat /\ d \in Nat /\ c + x = d + y
  OBVIOUS
<1>1. CASE a < b
  <2>1. a + 1 \in Nat /\ a + 1 <= b /\ a <= a + 1
    BY <1>1
  <2>2. (a + 1) * base <= b * base /\ (a + 1) * base = a * base + base
    BY ONLY <2>1, a \in Nat, b \in Nat, base \in Nat, Multiples
  <2>3. c + base <= d
    BY ONLY <2>2
  <2> HIDE DEF c, d
  <2> QED BY <1>0, <2>3
<1>2. CASE b < a
  <2>1. b + 1 \in Nat /\ b + 1 <= a /\ b <= b + 1
    BY <1>2
  <2>2. (b + 1) * base <= a * base /\ (b + 1) * base = b * base + base
    BY ONLY <2>1, a \in Nat, b \in Nat, base \in Nat, Multiples
  <2>3. d + base <= c
    BY ONLY <2>2
  <2> HIDE DEF c, d
  <2> QED BY <1>0, <2>3
<1>3. CASE a = b
  BY <1>0, <1>3
<1> QED BY <1>1, <1>2, <1>3

\* The recursion of bigEndian.
ValueStep(x, base, d) == x * base + d

Valued(g, base, ds, n) == g = [k \in 0..n |-> IF k = 0 THEN 0 ELSE ValueStep(g[k - 1], base, ds[k])]

LEMMA ValuedExists ==
    ASSUME NEW base, NEW ds
    PROVE  \A n \in Nat : \E g : Valued(g, base, ds, n)
<1> DEFINE S == {n \in Nat : \E g : Valued(g, base, ds, n)}
<1>1. 0 \in S
  <2>1. Valued([k \in 0..0 |-> IF k = 0 THEN 0 ELSE 1], base, ds, 0)
    BY DEF Valued
  <2> QED BY <2>1
<1>2. ASSUME NEW n \in Nat, n \in S
      PROVE  n + 1 \in S
  <2>1. PICK g : Valued(g, base, ds, n)
    BY <1>2
  <2> DEFINE h == [k \in 0..(n + 1) |-> IF k = n + 1 THEN ValueStep(g[n], base, ds[n + 1]) ELSE g[k]]
  <2>2. \A k \in 0..n : g[k] = IF k = 0 THEN 0 ELSE ValueStep(g[k - 1], base, ds[k])
    BY <2>1 DEF Valued
  <2>3. \A k \in 0..(n + 1) : h[k] = IF k = 0 THEN 0 ELSE ValueStep(h[k - 1], base, ds[k])
    BY <2>2
  <2>4. Valued(h, base, ds, n + 1)
    BY <2>3 DEF Valued
  <2> QED BY <2>4
<1>3. \A n \in Nat : n \in S
  <2> HIDE DEF S
  <2> QED BY <1>1, <1>2, Induction
<1> QED BY <1>3

\* The value of the first n digits.
valueUpTo(base, ds) == CHOOSE g : Valued(g, base, ds, Len(ds))

LEMMA ValueUpTo ==
    ASSUME NEW base \in Nat, NEW ds \in Seq(Nat)
    PROVE  /\ bigEndian(base, ds) = valueUpTo(base, ds)[Len(ds)]
           /\ valueUpTo(base, ds)[0] = 0
           /\ \A n \in 1..Len(ds) : valueUpTo(base, ds)[n] = valueUpTo(base, ds)[n - 1] * base + ds[n]
<1> DEFINE g == valueUpTo(base, ds)
<1>1. Valued(g, base, ds, Len(ds)) /\ Len(ds) \in Nat
  <2>1. Len(ds) \in Nat
    OBVIOUS
  <2>2. \E f : Valued(f, base, ds, Len(ds))
    BY ONLY <2>1, ValuedExists
  <2>3. Valued(CHOOSE f : Valued(f, base, ds, Len(ds)), base, ds, Len(ds))
    BY ONLY <2>2, Zenon
  <2> QED BY ONLY <2>1, <2>3 DEF g, valueUpTo
<1>2. bigEndian(base, ds) = g[Len(ds)]
  BY DEF bigEndian, valueUpTo, Valued, ValueStep
<1> HIDE DEF g
<1>3. \A n \in 0..Len(ds) : g[n] = IF n = 0 THEN 0 ELSE ValueStep(g[n - 1], base, ds[n])
  BY <1>1 DEF Valued
<1>4. g[0] = 0
  BY <1>1, <1>3
<1>5. \A n \in 1..Len(ds) : g[n] = g[n - 1] * base + ds[n]
  BY <1>1, <1>3 DEF ValueStep
<1> QED BY <1>2, <1>4, <1>5 DEF g

LEMMA ValueType ==
    ASSUME NEW base \in Nat, NEW ds \in Seq(Nat)
    PROVE  /\ \A n \in 0..Len(ds) : valueUpTo(base, ds)[n] \in Nat
           /\ bigEndian(base, ds) \in Nat
<1> DEFINE g == valueUpTo(base, ds)  m == Len(ds)  S == {n \in Nat : n <= m => g[n] \in Nat}
<1>1. /\ bigEndian(base, ds) = g[m] /\ g[0] = 0 /\ \A n \in 1..m : g[n] = g[n - 1] * base + ds[n]
  BY ValueUpTo
<1>2. m \in Nat /\ \A n \in 1..m : ds[n] \in Nat
  OBVIOUS
<1> HIDE DEF g, m
<1>3. 0 \in S
  BY ONLY <1>1
<1>4. ASSUME NEW n \in Nat, n \in S PROVE n + 1 \in S
  <2> SUFFICES ASSUME n + 1 <= m PROVE g[n + 1] \in Nat
    OBVIOUS
  <2>1. n + 1 \in 1..m /\ (n + 1) - 1 = n /\ n <= m
    BY ONLY <1>2, n \in Nat, n + 1 <= m
  <2>2. g[n + 1] = g[n] * base + ds[n + 1] /\ g[n] \in Nat /\ ds[n + 1] \in Nat
    BY ONLY <1>1, <1>2, <1>4, <2>1
  <2> DEFINE a == g[n]  x == ds[n + 1]  p == a * base
  <2>3. g[n + 1] = p + x /\ a \in Nat /\ x \in Nat
    BY ONLY <2>2
  <2> HIDE DEF a, x
  <2>4. p \in Nat
    BY ONLY <2>3, base \in Nat
  <2> HIDE DEF p
  <2> QED BY ONLY <2>3, <2>4
<1>5. \A n \in Nat : n \in S
  <2> HIDE DEF S
  <2> QED BY ONLY <1>3, <1>4, Induction
<1>6. \A n \in 0..m : g[n] \in Nat
  BY ONLY <1>2, <1>5
<1>7. m \in 0..m
  BY ONLY <1>2
<1> QED BY ONLY <1>1, <1>6, <1>7 DEF g, m

\* What follows the first m digits does not change their value.
LEMMA ValueAgree ==
    ASSUME NEW base \in Nat, NEW ds \in Seq(Nat), NEW es \in Seq(Nat), NEW m \in Nat,
           m <= Len(ds), m <= Len(es), \A i \in 1..m : ds[i] = es[i]
    PROVE  valueUpTo(base, ds)[m] = valueUpTo(base, es)[m]
<1> DEFINE g == valueUpTo(base, ds)  h == valueUpTo(base, es)  S == {n \in Nat : n <= m => g[n] = h[n]}
<1>1. g[0] = 0 /\ \A n \in 1..Len(ds) : g[n] = g[n - 1] * base + ds[n]
  BY ValueUpTo
<1>2. h[0] = 0 /\ \A n \in 1..Len(es) : h[n] = h[n - 1] * base + es[n]
  BY ValueUpTo
<1> HIDE DEF g, h
<1>3. 0 \in S
  BY ONLY <1>1, <1>2
<1>4. ASSUME NEW n \in Nat, n \in S PROVE n + 1 \in S
  <2> SUFFICES ASSUME n + 1 <= m PROVE g[n + 1] = h[n + 1]
    OBVIOUS
  <2>1. n + 1 \in 1..m /\ n + 1 \in 1..Len(ds) /\ n + 1 \in 1..Len(es) /\ (n + 1) - 1 = n /\ n <= m
    BY ONLY n \in Nat, n + 1 <= m, m \in Nat, m <= Len(ds), m <= Len(es), ds \in Seq(Nat), es \in Seq(Nat)
  <2>2. g[n] = h[n] /\ ds[n + 1] = es[n + 1]
    BY ONLY <1>4, <2>1, \A i \in 1..m : ds[i] = es[i]
  <2>3. g[n + 1] = g[n] * base + ds[n + 1] /\ h[n + 1] = h[n] * base + es[n + 1]
    BY ONLY <1>1, <1>2, <2>1
  <2> QED BY ONLY <2>2, <2>3
<1>5. \A n \in Nat : n \in S
  <2> HIDE DEF S
  <2> QED BY ONLY <1>3, <1>4, Induction
<1>6. g[m] = h[m]
  BY <1>5
<1> QED BY ONLY <1>6 DEF g, h

Digits(base, ds) == ds \in Seq(Nat) /\ \A i \in 1..Len(ds) : ds[i] < base

\* Digits of one length are determined by their value.
LEMMA ValueUnique ==
    ASSUME NEW base \in Nat, NEW ds, NEW es, Digits(base, ds), Digits(base, es), Len(ds) = Len(es),
           bigEndian(base, ds) = bigEndian(base, es)
    PROVE  ds = es
<1> DEFINE g == valueUpTo(base, ds)  h == valueUpTo(base, es)  m == Len(ds)
           S == {n \in Nat : n <= m /\ g[n] = h[n] => \A i \in 1..n : ds[i] = es[i]}
<1>0. ds \in Seq(Nat) /\ es \in Seq(Nat) /\ m \in Nat /\ Len(es) = m
      /\ \A i \in 1..m : ds[i] \in Nat /\ es[i] \in Nat /\ ds[i] < base /\ es[i] < base
  BY DEF Digits
<1>1. g[0] = 0 /\ (\A n \in 1..m : g[n] = g[n - 1] * base + ds[n]) /\ bigEndian(base, ds) = g[m]
  BY <1>0, ValueUpTo
<1>2. h[0] = 0 /\ (\A n \in 1..m : h[n] = h[n - 1] * base + es[n]) /\ bigEndian(base, es) = h[m]
  BY <1>0, ValueUpTo
<1>3. \A n \in 0..m : g[n] \in Nat /\ h[n] \in Nat
  BY <1>0, ValueType
<1> HIDE DEF g, h, m
<1>4. 0 \in S
  OBVIOUS
<1>5. ASSUME NEW n \in Nat, n \in S PROVE n + 1 \in S
  <2> SUFFICES ASSUME n + 1 <= m, g[n + 1] = h[n + 1] PROVE \A i \in 1..(n + 1) : ds[i] = es[i]
    OBVIOUS
  <2>1. n + 1 \in 1..m /\ n \in 0..m /\ (n + 1) - 1 = n /\ n <= m
    BY ONLY <1>0, n \in Nat, n + 1 <= m
  <2> DEFINE a == g[n]  b == h[n]  x == ds[n + 1]  y == es[n + 1]
  <2>2. g[n + 1] = a * base + x /\ h[n + 1] = b * base + y
    BY ONLY <1>1, <1>2, <2>1
  <2>3. a \in Nat /\ b \in Nat /\ x \in Nat /\ y \in Nat /\ x < base /\ y < base
    BY ONLY <1>0, <1>3, <2>1
  <2>4. a * base + x = b * base + y
    BY ONLY <2>2, g[n + 1] = h[n + 1]
  <2> HIDE DEF a, b, x, y
  <2>5. a = b /\ x = y
    BY ONLY <2>3, <2>4, base \in Nat, LastDigit
  <2>6. \A i \in 1..n : ds[i] = es[i]
    BY ONLY <1>5, <2>1, <2>5 DEF a, b
  <2>7. \A i \in 1..(n + 1) : i \in 1..n \/ i = n + 1
    BY ONLY n \in Nat
  <2> QED BY ONLY <2>5, <2>6, <2>7 DEF x, y
<1>6. \A n \in Nat : n \in S
  <2> HIDE DEF S
  <2> QED BY ONLY <1>4, <1>5, Induction
<1>7. g[m] = h[m]
  BY <1>1, <1>2
<1>8. \A i \in 1..m : ds[i] = es[i]
  BY ONLY <1>0, <1>6, <1>7
<1> QED BY ONLY <1>0, <1>8, SeqEqual DEF m

-----------------------------------------------------------------------------
(* Powers.                                                                 *)

zeros(n) == [i \in 1..n |-> 0]

one == <<1>>

LEMMA PowerSymbols ==
    ASSUME NEW n \in Nat
    PROVE  /\ one \o zeros(n) \in Seq(Nat) /\ Len(one \o zeros(n)) = 1 + n /\ (one \o zeros(n))[1] = 1
           /\ \A i \in 1..n : (one \o zeros(n))[1 + i] = 0
           /\ zeros(n) \in Seq(Nat) /\ Len(zeros(n)) = n /\ \A i \in 1..n : zeros(n)[i] = 0
<1> DEFINE z == zeros(n)
<1>1. z \in Seq(Nat) /\ Len(z) = n /\ \A i \in 1..n : z[i] = 0
  BY DEF zeros
<1>2. one \in Seq(Nat) /\ Len(one) = 1 /\ one[1] = 1
  BY DEF one
<1> HIDE DEF z
<1>3. /\ one \o z \in Seq(Nat) /\ Len(one \o z) = Len(one) + Len(z)
      /\ \A i \in 1..Len(one) : (one \o z)[i] = one[i]
      /\ \A i \in 1..Len(z) : (one \o z)[Len(one) + i] = z[i]
  BY ONLY <1>1, <1>2, Joined
<1>4. 1 \in 1..Len(one)
  BY ONLY <1>2
<1> QED BY ONLY <1>1, <1>2, <1>3, <1>4 DEF z

LEMMA PowerType ==
    ASSUME NEW base \in Nat, NEW n \in Nat
    PROVE  power(base, n) \in Nat
<1>1. power(base, n) = bigEndian(base, one \o zeros(n))
  BY DEF power, one, zeros
<1> QED BY <1>1, PowerSymbols, ValueType

LEMMA PowerZero ==
    ASSUME NEW base \in Nat
    PROVE  power(base, 0) = 1
<1> DEFINE s == one \o zeros(0)  g == valueUpTo(base, s)
<1>1. power(base, 0) = bigEndian(base, s)
  BY DEF power, one, zeros
<1>2. s \in Seq(Nat) /\ Len(s) = 1 + 0 /\ s[1] = 1
  BY PowerSymbols
<1> HIDE DEF s
<1>3. bigEndian(base, s) = g[1] /\ g[0] = 0 /\ \A n \in 1..1 : g[n] = g[n - 1] * base + s[n]
  <2>1. bigEndian(base, s) = g[Len(s)] /\ g[0] = 0 /\ \A n \in 1..Len(s) : g[n] = g[n - 1] * base + s[n]
    BY ONLY <1>2, base \in Nat, ValueUpTo
  <2>2. Len(s) = 1
    BY ONLY <1>2
  <2> QED BY ONLY <2>1, <2>2
<1> HIDE DEF g
<1>4. g[1] = g[1 - 1] * base + s[1] /\ 1 - 1 = 0
  <2>1. 1 \in 1..1 /\ 1 - 1 = 0
    OBVIOUS
  <2> QED BY ONLY <1>3, <2>1
<1>5. g[1] = 0 * base + 1
  BY ONLY <1>2, <1>3, <1>4
<1>6. 0 * base + 1 = 1
  OBVIOUS
<1> QED BY ONLY <1>1, <1>3, <1>5, <1>6

LEMMA PowerNext ==
    ASSUME NEW base \in Nat, NEW n \in Nat
    PROVE  power(base, n + 1) = power(base, n) * base
<1> DEFINE s == one \o zeros(n)  t == one \o zeros(n + 1)  g == valueUpTo(base, s)  h == valueUpTo(base, t)
<1>1. power(base, n) = bigEndian(base, s) /\ power(base, n + 1) = bigEndian(base, t)
  BY DEF power, one, zeros
<1>2. s \in Seq(Nat) /\ Len(s) = 1 + n /\ s[1] = 1 /\ \A i \in 1..n : s[1 + i] = 0
  BY PowerSymbols
<1>3. t \in Seq(Nat) /\ Len(t) = 1 + (n + 1) /\ t[1] = 1 /\ \A i \in 1..(n + 1) : t[1 + i] = 0
  <2>1. n + 1 \in Nat
    OBVIOUS
  <2> QED BY ONLY <2>1, PowerSymbols
<1> HIDE DEF s, t
<1>4. bigEndian(base, s) = g[Len(s)]
  BY ONLY <1>2, base \in Nat, ValueUpTo
<1>5. bigEndian(base, t) = h[Len(t)] /\ \A k \in 1..Len(t) : h[k] = h[k - 1] * base + t[k]
  BY ONLY <1>3, base \in Nat, ValueUpTo
<1>6. \A i \in 1..(n + 1) : s[i] = t[i]
  <2> TAKE i \in 1..(n + 1)
  <2>1. i = 1 \/ (i - 1 \in 1..n /\ i - 1 \in 1..(n + 1) /\ i = 1 + (i - 1))
    BY ONLY n \in Nat, i \in 1..(n + 1)
  <2> QED BY ONLY <1>2, <1>3, <2>1
<1>7. g[n + 1] = h[n + 1]
  <2>1. n + 1 \in Nat /\ n + 1 <= Len(s) /\ n + 1 <= Len(t)
    BY ONLY <1>2, <1>3, n \in Nat
  <2> QED BY ONLY <1>2, <1>3, <1>6, <2>1, base \in Nat, ValueAgree
<1>8. Len(s) = n + 1 /\ Len(t) = n + 2 /\ n + 2 \in 1..Len(t) /\ (n + 2) - 1 = n + 1
      /\ n + 1 \in 1..(n + 1) /\ 1 + (n + 1) = n + 2 /\ n + 1 \in 0..Len(s)
  BY ONLY <1>2, <1>3, n \in Nat
<1>9. h[n + 2] = h[n + 1] * base + t[n + 2] /\ t[n + 2] = 0
  BY ONLY <1>3, <1>5, <1>8
<1>10. g[n + 1] \in Nat
  BY ONLY <1>2, <1>8, base \in Nat, ValueType
<1> DEFINE x == g[n + 1]
<1>11. power(base, n) = x /\ power(base, n + 1) = x * base + 0 /\ x \in Nat
  BY ONLY <1>1, <1>4, <1>5, <1>7, <1>8, <1>9, <1>10
<1> HIDE DEF x
<1> QED BY ONLY <1>11, base \in Nat

LEMMA PowerMonotone ==
    ASSUME NEW base \in Nat, base > 0, NEW m \in Nat, NEW n \in Nat, m <= n
    PROVE  power(base, m) <= power(base, n) /\ power(base, m) > 0
<1> DEFINE S == {k \in Nat : power(base, m) <= power(base, m + k)}
           T0 == {k \in Nat : power(base, k) > 0}
<1>0. ASSUME NEW x \in Nat PROVE x <= x * base /\ (x > 0 => x * base > 0)
  <2>1. x * base = x + x * (base - 1) /\ base - 1 \in Nat /\ x * (base - 1) \in Nat
    OBVIOUS
  <2> QED BY ONLY <2>1, x \in Nat
<1>1. 0 \in S
  <2>1. m + 0 = m /\ power(base, m) \in Nat
    BY PowerType
  <2> QED BY ONLY <2>1
<1>2. ASSUME NEW k \in Nat, k \in S PROVE k + 1 \in S
  <2> DEFINE p == power(base, m)  x == power(base, m + k)
  <2>1. m + k \in Nat /\ (m + k) + 1 = m + (k + 1)
    OBVIOUS
  <2>2. power(base, (m + k) + 1) = x * base /\ x \in Nat /\ p \in Nat
    BY ONLY <2>1, base \in Nat, m \in Nat, PowerNext, PowerType
  <2>3. p <= x
    BY <1>2
  <2>4. x <= x * base
    BY ONLY <1>0, <2>2
  <2>5. x * base \in Nat
    BY ONLY <2>2, base \in Nat
  <2> DEFINE y == x * base
  <2> HIDE DEF p, x, y
  <2>6. p <= y
    BY ONLY <2>2, <2>3, <2>4, <2>5 DEF y
  <2> QED BY <2>1, <2>2, <2>6 DEF p, y
<1>3. \A k \in Nat : k \in S
  <2> HIDE DEF S
  <2> QED BY ONLY <1>1, <1>2, Induction
<1>4. n - m \in Nat /\ m + (n - m) = n
  OBVIOUS
<1>5. 0 \in T0
  BY PowerZero
<1>6. ASSUME NEW k \in Nat, k \in T0 PROVE k + 1 \in T0
  <2> DEFINE x == power(base, k)
  <2>1. power(base, k + 1) = x * base /\ x \in Nat /\ x > 0
    BY <1>6, PowerNext, PowerType
  <2> HIDE DEF x
  <2>2. x * base > 0
    BY ONLY <1>0, <2>1
  <2> QED BY <2>1, <2>2
<1>7. \A k \in Nat : k \in T0
  <2> HIDE DEF T0
  <2> QED BY ONLY <1>5, <1>6, Induction
<1> QED BY <1>3, <1>4, <1>7

\* n digits are less than a one and n zeros.
LEMMA ValueBound ==
    ASSUME NEW base \in Nat, NEW ds, Digits(base, ds)
    PROVE  bigEndian(base, ds) < power(base, Len(ds)) /\ bigEndian(base, ds) \in Nat
<1> DEFINE g == valueUpTo(base, ds)  m == Len(ds)  S == {n \in Nat : n <= m => g[n] < power(base, n)}
<1>0. ds \in Seq(Nat) /\ m \in Nat /\ \A i \in 1..m : ds[i] \in Nat /\ ds[i] < base
  BY DEF Digits
<1>1. g[0] = 0 /\ (\A n \in 1..m : g[n] = g[n - 1] * base + ds[n]) /\ bigEndian(base, ds) = g[m]
  BY <1>0, ValueUpTo
<1>2. \A n \in 0..m : g[n] \in Nat
  BY <1>0, ValueType
<1> HIDE DEF g, m
<1>3. 0 \in S
  BY <1>1, PowerZero
<1>4. ASSUME NEW n \in Nat, n \in S PROVE n + 1 \in S
  <2> SUFFICES ASSUME n + 1 <= m PROVE g[n + 1] < power(base, n + 1)
    OBVIOUS
  <2> DEFINE a == g[n]  x == ds[n + 1]  p == power(base, n)
  <2>1. n + 1 \in 1..m /\ n \in 0..m /\ (n + 1) - 1 = n /\ n <= m
    BY ONLY <1>0, n \in Nat, n + 1 <= m
  <2>2. a \in Nat /\ x \in Nat /\ x < base /\ g[n + 1] = a * base + x
    BY ONLY <1>0, <1>1, <1>2, <2>1
  <2>3. p \in Nat /\ power(base, n + 1) = p * base
    BY PowerType, PowerNext
  <2>4. a < p
    BY ONLY <1>4, <2>1
  <2> HIDE DEF a, x, p
  <2>5. a + 1 \in Nat /\ a + 1 <= p /\ a <= a + 1
    BY ONLY <2>2, <2>3, <2>4
  <2>6. (a + 1) * base <= p * base /\ a * base \in Nat /\ p * base \in Nat
    BY ONLY <2>2, <2>3, <2>5, base \in Nat, Multiples
  <2>7. (a + 1) * base = a * base + base
    BY ONLY <2>2, <2>5, base \in Nat, Multiples
  <2> DEFINE c == a * base  d == p * base
  <2>8. c + base <= d /\ c \in Nat /\ d \in Nat
    BY ONLY <2>6, <2>7
  <2> HIDE DEF c, d
  <2>9. c + x < d
    BY ONLY <2>2, <2>8, base \in Nat
  <2> QED BY <2>2, <2>3, <2>9 DEF c, d
<1>5. \A n \in Nat : n \in S
  <2> HIDE DEF S
  <2> QED BY ONLY <1>3, <1>4, Induction
<1>6. g[m] < power(base, m) /\ g[m] \in Nat
  BY <1>0, <1>2, <1>5
<1> QED BY ONLY <1>1, <1>6 DEF m

\* Zeros behind digits multiply their value.
LEMMA ValueShift ==
    ASSUME NEW base \in Nat, NEW ds \in Seq(Nat), NEW k \in Nat
    PROVE  bigEndian(base, ds \o zeros(k)) = bigEndian(base, ds) * power(base, k)
<1> DEFINE s == ds \o zeros(k)  m == Len(ds)  g == valueUpTo(base, ds)  h == valueUpTo(base, s)
           x == bigEndian(base, ds)  S == {n \in Nat : n <= k => h[m + n] = x * power(base, n)}
<1>1. zeros(k) \in Seq(Nat) /\ Len(zeros(k)) = k /\ \A i \in 1..k : zeros(k)[i] = 0
  BY PowerSymbols
<1>2. /\ s \in Seq(Nat) /\ Len(s) = m + k /\ m \in Nat
      /\ \A i \in 1..m : s[i] = ds[i]
      /\ \A i \in 1..k : s[m + i] = 0
  <2> DEFINE z == zeros(k)
  <2> HIDE DEF z
  <2>1. z \in Seq(Nat) /\ Len(z) = k /\ \A i \in 1..k : z[i] = 0
    BY <1>1 DEF z
  <2>2. /\ ds \o z \in Seq(Nat) /\ Len(ds \o z) = Len(ds) + Len(z) /\ Len(ds) \in Nat
        /\ \A i \in 1..Len(ds) : (ds \o z)[i] = ds[i]
        /\ \A i \in 1..Len(z) : (ds \o z)[Len(ds) + i] = z[i]
    BY ONLY <2>1, ds \in Seq(Nat), Joined
  <2> QED BY ONLY <2>1, <2>2 DEF s, m, z
<1>3. x = g[m] /\ x \in Nat
  BY ValueUpTo, ValueType
<1> HIDE DEF s, m
<1>4. bigEndian(base, s) = h[Len(s)] /\ \A n \in 1..Len(s) : h[n] = h[n - 1] * base + s[n]
  BY ONLY <1>2, base \in Nat, ValueUpTo
<1>5. h[m] = g[m]
  <2>1. m <= Len(s) /\ m <= Len(ds) /\ \A i \in 1..m : ds[i] = s[i]
    BY ONLY <1>2, k \in Nat DEF m
  <2> QED BY ONLY <1>2, <2>1, base \in Nat, ds \in Seq(Nat), ValueAgree
<1> HIDE DEF g, h, x
<1>6. 0 \in S
  <2>1. m + 0 = m /\ power(base, 0) = 1 /\ x * 1 = x
    BY ONLY <1>2, <1>3, base \in Nat, PowerZero
  <2> QED BY ONLY <1>3, <1>5, <2>1
<1>7. ASSUME NEW n \in Nat, n \in S PROVE n + 1 \in S
  <2> SUFFICES ASSUME n + 1 <= k PROVE h[m + (n + 1)] = x * power(base, n + 1)
    OBVIOUS
  <2> DEFINE p == power(base, n)
  <2>1. /\ m + (n + 1) \in 1..Len(s) /\ (m + (n + 1)) - 1 = m + n /\ n <= k /\ n + 1 \in 1..k
    BY ONLY <1>2, n \in Nat, n + 1 <= k, k \in Nat
  <2>2. h[m + (n + 1)] = h[m + n] * base + s[m + (n + 1)]
    BY ONLY <1>4, <2>1
  <2>3. h[m + n] = x * p /\ s[m + (n + 1)] = 0
    BY ONLY <1>2, <1>7, <2>1
  <2>4. power(base, n + 1) = p * base /\ p \in Nat
    BY PowerNext, PowerType
  <2> HIDE DEF p
  <2>5. x * p * base + 0 = x * (p * base)
    BY ONLY <1>3, <2>4, base \in Nat
  <2> QED BY ONLY <2>2, <2>3, <2>4, <2>5
<1>8. \A n \in Nat : n \in S
  <2> HIDE DEF S
  <2> QED BY ONLY <1>6, <1>7, Induction
<1>9. h[m + k] = x * power(base, k)
  BY <1>8
<1> QED BY ONLY <1>2, <1>4, <1>9 DEF s, x

-----------------------------------------------------------------------------
(* The session: what an attestation, a proof and a signature stand for.      *)

\* What an attestation says of the response.
committedTo(plan) ==
    [i \in DOMAIN plan |->
        [idx |-> plan[i], value |-> SubSeq(response, plan[i].start + 1, plan[i].end)]]

Attested == attestation # NoLayout =>
    /\ answered
    /\ attestation.line = <<Prefix(layout), view.subject>>
    /\ attestation.received = Len(response) /\ attestation.revealed = shape.revealed
    /\ \E plan \in Seq(Ranges) : attestation.committed = committedTo(plan)

\* A proof is of a claim that the circuit is satisfied with.
Proved == proof # NoLayout =>
    attestation # NoLayout /\ \E x \in Claims : satisfied(x) /\ proof = prove(x)

\* A signature is for a claim and the proof at hand.
Accepted == accepted # NoLayout =>
    proof # NoLayout /\ \E x \in Claims : accepted = x /\ signs(proof, x)

EInv == LayoutInv /\ Attested /\ Proved /\ Accepted

\* Of the evidence's steps only the registry's touch the response.
LEMMA RegistryAnswers == [ENext]_evars => [Next]_vars
  BY DEF ENext, Respond, Notarize, NotarizeBy, Prove, Sign, evars, vars

LEMMA HiddenType ==
    ASSUME LayoutInv, answered
    PROVE  /\ shape.hidden \in Seq(Ranges) /\ Len(shape.hidden) > 0
           /\ ofTitle => Len(shape.hidden) = 3
           /\ ~ ofTitle => Len(shape.hidden) = 1 + Len(layout.fields)
<1>1. CASE TitleState
  <2> DEFINE h == titleHidden(layout, blank(layout), Len(titleHead(layout)))
  <2>1. shape.hidden = h /\ TitleFits(layout, blank(layout)) /\ Len(titleHead(layout)) \in Nat /\ LoadedTitle(layout)
    BY <1>1, TitleStateFacts DEF TitleState
  <2>2. Len(h) = 3 /\ DOMAIN h = 1..3 /\ h[1] \in Ranges /\ h[2] \in Ranges /\ h[3] \in Ranges
    BY <2>1, TitleHiddenType
  <2>3. h = <<h[1], h[2], h[3]>>
    BY DEF titleHidden
  <2>4. ofTitle
    BY <2>1, TitleNumbers DEF ofTitle
  <2> HIDE DEF h
  <2>5. h \in Seq(Ranges)
    <3> DEFINE a == h[1]  b == h[2]  c == h[3]
    <3>1. a \in Ranges /\ b \in Ranges /\ c \in Ranges /\ h = <<a, b, c>>
      BY ONLY <2>2, <2>3
    <3> HIDE DEF a, b, c
    <3> QED BY ONLY <3>1
  <2> QED BY ONLY <2>1, <2>2, <2>4, <2>5
<1>2. CASE RecordState
  <2> DEFINE h == recordHidden(layout, blank(layout), Len(recordHead(layout)))  n == Len(layout.fields)
  <2>1. shape.hidden = h /\ RecordFits(layout, blank(layout)) /\ Len(recordHead(layout)) \in Nat /\ LoadedRecord(layout)
    BY <1>2, RecordStateFacts DEF RecordState
  <2>2. h \in Seq(Ranges) /\ Len(h) = 1 + n
    BY <2>1, RecordHiddenType
  <2>3. n \in Nat /\ layout.kind = "record"
    BY <2>1, RecordNumbers
  <2>4. ~ ofTitle
    BY <2>3 DEF ofTitle
  <2> HIDE DEF h, n
  <2>5. 1 + n > 0
    BY ONLY <2>3
  <2> QED BY ONLY <2>1, <2>2, <2>4, <2>5 DEF n
<1> QED BY <1>1, <1>2, Rendered

\* Whatever ranges a prover commits to, they are ranges.
LEMMA PlansType ==
    ASSUME LayoutInv, answered, NEW plan \in plans
    PROVE  plan \in Seq(Ranges)
<1> DEFINE h == shape.hidden
<1>1. h \in Seq(Ranges) /\ Len(h) > 0
  BY HiddenType
<1>2. plan \in {h, Front(h), h \o <<h[1]>>} \cup {[h EXCEPT ![i] = shifted(@)] : i \in DOMAIN h}
  BY DEF plans
<1> HIDE DEF h
<1>3. Len(h) \in Nat /\ 1 \in 1..Len(h) /\ DOMAIN h = 1..Len(h)
  BY ONLY <1>1
<1>4. \A i \in 1..Len(h) : h[i] \in Ranges
  BY ONLY <1>1, ElementOfSeq
<1>5. CASE plan = h
  BY ONLY <1>1, <1>5
<1>6. CASE plan = Front(h)
  <2> DEFINE n == Len(h)
  <2>1. n \in Nat /\ \A i \in 1..n : h[i] \in Ranges
    BY ONLY <1>3, <1>4
  <2> HIDE DEF n
  <2>2. n - 1 \in Int /\ 1 \in Int /\ \A i \in 1..(n - 1) : h[i] \in Ranges
    BY ONLY <2>1
  <2>3. SubSeq(h, 1, n - 1) \in Seq(Ranges)
    BY ONLY <2>2, SubSeqProperties
  <2> QED BY <1>6, <2>3 DEF Front, n
<1>7. CASE plan = h \o <<h[1]>>
  <2> DEFINE x == h[1]
  <2>1. x \in Ranges
    BY ONLY <1>3, <1>4
  <2> HIDE DEF x
  <2>2. <<x>> \in Seq(Ranges)
    BY ONLY <2>1
  <2>3. h \o <<x>> \in Seq(Ranges)
    BY ONLY <1>1, <2>2
  <2> QED BY ONLY <1>7, <2>3 DEF x
<1>8. ASSUME NEW i \in DOMAIN h, plan = [h EXCEPT ![i] = shifted(@)] PROVE plan \in Seq(Ranges)
  <2> DEFINE y == shifted(h[i])
  <2>1. i \in 1..Len(h) /\ h[i] \in Ranges
    BY ONLY <1>3, <1>4, i \in DOMAIN h
  <2>2. y \in Ranges
    BY ONLY <2>1 DEF Ranges, shifted
  <2>3. plan = [h EXCEPT ![i] = y]
    BY ONLY <1>8
  <2> HIDE DEF y
  <2> QED BY ONLY <1>1, <2>1, <2>2, <2>3
<1> QED BY ONLY <1>2, <1>5, <1>6, <1>7, <1>8

\* Once there is a response the registry is done.
LEMMA RespondedOnce ==
    ASSUME LayoutInv, answered
    PROVE  ~ Next /\ layout # NoLayout
<1>1. layout \in LayoutFiles /\ view \in Views(layout)
  BY DEF LayoutInv, answered
<1>2. layout # NoLayout
  BY <1>1, LayoutKinds
<1>3. view \in TitleView \/ view \in RecordView
  BY <1>1, LayoutAssumption
<1>4. view # NoLayout
  BY <1>3 DEF TitleView, RecordView, NoLayout
<1> QED BY <1>2, <1>4 DEF Next, Load, Answer, Refuse

LEMMA EInvInit == EInit => EInv
  BY LayoutInvInit DEF EInit, EInv, Attested, Proved, Accepted

LEMMA EInvNext ==
    ASSUME EInv, [ENext]_evars
    PROVE  EInv'
<1>1. LayoutInv'
  BY LayoutInvNext, RegistryAnswers DEF EInv
<1> DEFINE sameSession == /\ layout' = layout /\ shape' = shape /\ view' = view /\ response' = response
<1>2. CASE Respond
  <2>1. ~ answered
    BY <1>2, RespondedOnce DEF Respond, EInv
  <2>2. attestation = NoLayout /\ proof = NoLayout /\ accepted = NoLayout
    BY <2>1 DEF EInv, Attested, Proved, Accepted
  <2>3. attestation' = NoLayout /\ proof' = NoLayout /\ accepted' = NoLayout
    BY <1>2, <2>2 DEF Respond
  <2> QED BY <1>1, <2>3 DEF EInv, Attested, Proved, Accepted
<1>3. CASE Notarize
  <2>1. PICK plan \in plans : NotarizeBy(plan)
    BY <1>3 DEF Notarize
  <2>2. answered
    BY <1>3 DEF Notarize, answered
  <2>3. plan \in Seq(Ranges)
    BY <2>2, PlansType DEF EInv
  <2>4. attestation = NoLayout /\ proof = NoLayout /\ accepted = NoLayout
    BY <2>1 DEF NotarizeBy, EInv, Proved, Accepted
  <2>5. sameSession /\ proof' = NoLayout /\ accepted' = NoLayout
    BY <2>1, <2>4 DEF NotarizeBy
  <2>6. /\ attestation'.line = <<Prefix(layout), view.subject>> /\ attestation'.received = Len(response)
        /\ attestation'.revealed = shape.revealed /\ attestation'.committed = committedTo(plan)
    BY <2>1 DEF NotarizeBy, committedTo
  <2>7. answered' /\ committedTo(plan)' = committedTo(plan)
    BY <2>2, <2>5 DEF answered, committedTo
  <2>8. Attested'
    <3>1. attestation'.line = <<Prefix(layout'), view'.subject>>
      BY <2>5, <2>6
    <3>2. attestation'.received = Len(response') /\ attestation'.revealed = shape'.revealed
      BY <2>5, <2>6
    <3>3. \E q \in Seq(Ranges) : attestation'.committed = committedTo(q)'
      BY <2>3, <2>6, <2>7
    <3> QED BY ONLY <2>7, <3>1, <3>2, <3>3 DEF Attested
  <2> QED BY <1>1, <2>5, <2>8 DEF EInv, Proved, Accepted
<1>4. CASE Prove
  <2>1. PICK x \in Claims : satisfied(x) /\ proof' = prove(x)
    BY <1>4 DEF Prove
  <2>2. sameSession /\ attestation' = attestation /\ accepted' = accepted /\ attestation # NoLayout /\ proof = NoLayout
    BY <1>4 DEF Prove
  <2>3. accepted' = NoLayout
    BY <2>2 DEF EInv, Accepted
  <2>4. openings' = openings
    BY <2>2 DEF openings
  <2>5. satisfied(x)' /\ prove(x)' = prove(x)
    BY <2>1, <2>4 DEF satisfied, prove
  <2>6. Attested'
    BY <2>2 DEF EInv, Attested, answered, committedTo
  <2>7. Proved'
    BY <2>1, <2>2, <2>5 DEF Proved
  <2> QED BY <1>1, <2>3, <2>6, <2>7 DEF EInv, Accepted
<1>5. CASE Sign \/ UNCHANGED evars
  <2>1. sameSession /\ attestation' = attestation /\ proof' = proof
    BY <1>5 DEF Sign, evars
  <2>2. openings' = openings
    BY <2>1 DEF openings
  <2>3. \A x \in Claims : satisfied(x)' = satisfied(x) /\ prove(x)' = prove(x)
    BY <2>2 DEF satisfied, prove
  <2>4. Attested'
    BY <2>1 DEF EInv, Attested, answered, committedTo
  <2>5. Proved'
    BY <2>1, <2>3 DEF EInv, Proved
  <2>6. ASSUME NEW x PROVE signs(proof, x)' <=> signs(proof, x)
    BY <2>1 DEF signs, signsRegister, signsApply, signsSettle, check_shape, hiddenHashes, hidden
  <2>7. Accepted'
    <3>1. CASE Sign
      <4>1. PICK x \in Claims : signs(proof, x) /\ accepted' = x
        BY <3>1 DEF Sign
      <4>2. proof # NoLayout
        BY <3>1 DEF Sign
      <4>3. signs(proof, x)'
        BY <4>1, <2>6
      <4> QED BY <2>1, <4>1, <4>2, <4>3 DEF Accepted
    <3>2. CASE UNCHANGED evars
      <4>1. accepted' = accepted
        BY <3>2 DEF evars
      <4>2. accepted = NoLayout \/ (proof # NoLayout /\ \E x \in Claims : accepted = x /\ signs(proof, x))
        BY DEF EInv, Accepted
      <4>3. CASE accepted = NoLayout
        BY <4>1, <4>3 DEF Accepted
      <4>4. ASSUME NEW x \in Claims, accepted = x, signs(proof, x), proof # NoLayout PROVE Accepted'
        <5>1. signs(proof, x)'
          BY <4>4, <2>6
        <5> QED BY <2>1, <4>1, <4>4, <5>1 DEF Accepted
      <4> QED BY <4>2, <4>3, <4>4
    <3> QED BY <1>5, <3>1, <3>2
  <2> QED BY <1>1, <2>4, <2>5, <2>7 DEF EInv
<1> QED BY <1>2, <1>3, <1>4, <1>5 DEF ENext

LEMMA EvidenceInvariant == ESpec => []EInv
  BY EInvInit, EInvNext, PTL DEF ESpec

-----------------------------------------------------------------------------
(* The policy verifier does not see the layout the registry has loaded.  A   *)
(* response that passes check_shape was rendered under the policy's: where   *)
(* the revealed keys start, and the length, determine every width.           *)

\* Where the keys start, behind a head of length s.
TitleMeasures(l, rv, len, s, e, a, b) ==
    /\ rv[3].start = s + 1 /\ rv[4].start = s + l.account_width + 8
    /\ rv[6].start = s + l.account_width + l.property_id_width + 20
    /\ rv[7].start = s + e /\ rv[8].start = s + a /\ rv[9].start = s + b
    /\ e = l.account_width + l.property_id_width + 25 + (ownersSpan(l) + l.account_width + 2) + 2
    /\ a = e + l.rest_widths[1] + 7 /\ b = a + l.rest_widths[2] + 7
    /\ len = s + (b + l.rest_widths[3] + 8)

LEMMA TitleStarts ==
    ASSUME NEW l, LoadedTitle(l)
    PROVE  \E s \in Nat, e \in Nat, a \in Nat, b \in Nat :
                TitleMeasures(l, shapeOf(l).revealed, shapeOf(l).len, s, e, a, b)
<1> DEFINE u == blank(l)  s == Len(titleHead(l))  rv == shapeOf(l).revealed
           c1 == Len(toRecord(l, u))  c2 == Len(toOwners(l, u))  e == Len(toEncumbrance(l, u))
           a == Len(toAssessedValue(l, u))  b == Len(toRecordDate(l, u))  n == Len(titleBody(l, u))
           t == Len(toSlots(l, u))  m == Len(listed(slots(l, u)))
<1>1. TitleFits(l, u) /\ TitleShape(l, u, s)
  BY BlankTitleFits, TitleShapeIs
<1>2. titleHead(l) \in Seq(Nat)
  BY <1>1, TitleRendered
<1>3. s \in Nat
  BY <1>2
<1>4. rv = titleRevealed(l, u, s) /\ shapeOf(l).len = s + n
  BY <1>1 DEF TitleShape, titleRevealed
<1>5. /\ rv[3] = keyAt(s, toAccount, KEY_ACCOUNT) /\ rv[4] = keyAt(s, toRecord(l, u), KEY_RECORD)
      /\ rv[6] = keyAt(s, toOwners(l, u), KEY_OWNERS) /\ rv[7] = keyAt(s, toEncumbrance(l, u), KEY_ENCUMBRANCE)
      /\ rv[8] = keyAt(s, toAssessedValue(l, u), KEY_ASSESSED_VALUE)
      /\ rv[9] = keyAt(s, toRecordDate(l, u), KEY_RECORD_DATE)
  BY <1>1, <1>3, <1>4, TitleRevealedType
<1>6. /\ toAccount \in Seq(Nat) /\ toRecord(l, u) \in Seq(Nat) /\ toOwners(l, u) \in Seq(Nat)
      /\ toEncumbrance(l, u) \in Seq(Nat) /\ toAssessedValue(l, u) \in Seq(Nat) /\ toRecordDate(l, u) \in Seq(Nat)
  BY <1>1, TitleTypes DEF Behind
<1>7. /\ Len(toAccount) = 1 /\ c1 = l.account_width + 8 /\ c2 = l.account_width + l.property_id_width + 20
      /\ t = l.account_width + l.property_id_width + 25 /\ m = ownersSpan(l) + l.account_width + 2
      /\ e = t + m + 2 /\ a = e + l.rest_widths[1] + 7 /\ b = a + l.rest_widths[2] + 7
      /\ n = b + l.rest_widths[3] + 8
  BY <1>1, TitleLengths DEF ownersSpan
<1>8. e \in Nat /\ a \in Nat /\ b \in Nat
  BY ONLY <1>6
<1>9. /\ rv[3].start = s + 1 /\ rv[4].start = s + c1 /\ rv[6].start = s + c2 /\ rv[7].start = s + e
      /\ rv[8].start = s + a /\ rv[9].start = s + b
  <2>1. rv[3].start = s + Len(toAccount)
    <3>1. keyAt(s, toAccount, KEY_ACCOUNT).start = s + Len(toAccount)
      BY ONLY <1>3, <1>6, KeyNames, KeyAtType
    <3> QED BY ONLY <1>5, <3>1
  <2>2. rv[4].start = s + c1
    <3>1. keyAt(s, toRecord(l, u), KEY_RECORD).start = s + Len(toRecord(l, u))
      BY ONLY <1>3, <1>6, KeyNames, KeyAtType
    <3> QED BY ONLY <1>5, <3>1
  <2>3. rv[6].start = s + c2
    <3>1. keyAt(s, toOwners(l, u), KEY_OWNERS).start = s + Len(toOwners(l, u))
      BY ONLY <1>3, <1>6, KeyNames, KeyAtType
    <3> QED BY ONLY <1>5, <3>1
  <2>4. rv[7].start = s + e
    <3>1. keyAt(s, toEncumbrance(l, u), KEY_ENCUMBRANCE).start = s + Len(toEncumbrance(l, u))
      BY ONLY <1>3, <1>6, KeyNames, KeyAtType
    <3> QED BY ONLY <1>5, <3>1
  <2>5. rv[8].start = s + a
    <3>1. keyAt(s, toAssessedValue(l, u), KEY_ASSESSED_VALUE).start = s + Len(toAssessedValue(l, u))
      BY ONLY <1>3, <1>6, KeyNames, KeyAtType
    <3> QED BY ONLY <1>5, <3>1
  <2>6. rv[9].start = s + b
    <3>1. keyAt(s, toRecordDate(l, u), KEY_RECORD_DATE).start = s + Len(toRecordDate(l, u))
      BY ONLY <1>3, <1>6, KeyNames, KeyAtType
    <3> QED BY ONLY <1>5, <3>1
  <2> QED BY ONLY <1>7, <2>1, <2>2, <2>3, <2>4, <2>5, <2>6
<1> DEFINE w == l.account_width  p == l.property_id_width
<1>11. w \in Nat /\ p \in Nat
  BY TitleNumbers
<1> HIDE DEF s, rv, c1, c2, e, a, b, n, t, m, w, p
<1>12. s + c1 = s + w + 8 /\ s + c2 = s + w + p + 20
  <2>1. c1 = w + 8 /\ c2 = w + p + 20
    BY ONLY <1>7 DEF w, p
  <2> QED BY ONLY <1>3, <1>11, <2>1
<1>13. /\ rv[3].start = s + 1 /\ rv[4].start = s + l.account_width + 8
       /\ rv[6].start = s + l.account_width + l.property_id_width + 20
  BY ONLY <1>9, <1>12 DEF w, p
<1>14. e = l.account_width + l.property_id_width + 25 + (ownersSpan(l) + l.account_width + 2) + 2
  BY ONLY <1>7
<1>15. shapeOf(l).len = s + (b + l.rest_widths[3] + 8)
  BY ONLY <1>4, <1>7
<1>16. TitleMeasures(l, rv, shapeOf(l).len, s, e, a, b)
  BY ONLY <1>7, <1>9, <1>13, <1>14, <1>15, Zenon DEF TitleMeasures
<1> QED BY ONLY <1>3, <1>8, <1>16, Zenon DEF rv

LEMMA CancelFactor ==
    ASSUME NEW c \in Nat, c > 0, NEW m \in Nat, NEW n \in Nat, m * c = n * c
    PROVE  m = n
<1>1. ASSUME NEW i \in Nat, NEW j \in Nat, i * c = j * c, i < j PROVE FALSE
  <2>1. i + 1 \in Nat /\ i + 1 <= j
    BY <1>1
  <2>2. (i + 1) * c <= j * c
    BY ONLY <2>1, c \in Nat, i \in Nat, j \in Nat, Multiples
  <2>3. (i + 1) * c = i * c + c /\ i * c \in Nat
    BY ONLY c \in Nat, i \in Nat, Multiples
  <2> DEFINE x == i * c  y == j * c  z == (i + 1) * c
  <2>4. x = y /\ z <= y /\ z = x + c /\ x \in Nat
    BY ONLY <1>1, <2>2, <2>3
  <2> HIDE DEF x, y, z
  <2> QED BY ONLY <2>4, c > 0, c \in Nat
<1>2. ~(m < n) /\ ~(n < m)
  BY <1>1
<1> QED BY ONLY <1>2, m \in Nat, n \in Nat

LEMMA TitleSame ==
    ASSUME NEW k, LoadedTitle(k), NEW l, LoadedTitle(l), k.padding = l.padding,
           shapeOf(k).revealed = shapeOf(l).revealed, shapeOf(k).len = shapeOf(l).len
    PROVE  k = l
<1> DEFINE rv == shapeOf(l).revealed
           wk == k.account_width  wl == l.account_width  pk == k.property_id_width  pl == l.property_id_width
           ok == ownersSpan(k)  ol == ownersSpan(l)
           k1 == k.rest_widths[1]  k2 == k.rest_widths[2]  k3 == k.rest_widths[3]
           l1 == l.rest_widths[1]  l2 == l.rest_widths[2]  l3 == l.rest_widths[3]
           r3 == rv[3].start  r4 == rv[4].start  r6 == rv[6].start  r7 == rv[7].start  r8 == rv[8].start
           r9 == rv[9].start  len == shapeOf(l).len
<1>0. shapeOf(k).revealed = rv /\ shapeOf(k).len = len
  OBVIOUS
<1>1. PICK s \in Nat, e \in Nat, a \in Nat, b \in Nat : TitleMeasures(k, rv, len, s, e, a, b)
  <2> HIDE DEF rv, len
  <2> QED BY ONLY <1>0, LoadedTitle(k), TitleStarts
<1>2. PICK t \in Nat, f \in Nat, c \in Nat, d \in Nat : TitleMeasures(l, rv, len, t, f, c, d)
  BY ONLY LoadedTitle(l), TitleStarts
<1>11. /\ r3 = s + 1 /\ r4 = s + wk + 8 /\ r6 = s + wk + pk + 20
       /\ r7 = s + e /\ r8 = s + a /\ r9 = s + b
       /\ e = wk + pk + 25 + (ok + wk + 2) + 2
       /\ a = e + k1 + 7 /\ b = a + k2 + 7 /\ len = s + (b + k3 + 8)
  BY ONLY <1>1, Zenon DEF TitleMeasures
<1>12. /\ r3 = t + 1 /\ r4 = t + wl + 8 /\ r6 = t + wl + pl + 20
       /\ r7 = t + f /\ r8 = t + c /\ r9 = t + d
       /\ f = wl + pl + 25 + (ol + wl + 2) + 2
       /\ c = f + l1 + 7 /\ d = c + l2 + 7 /\ len = t + (d + l3 + 8)
  BY ONLY <1>2, Zenon DEF TitleMeasures
<1>3. /\ wk \in Nat /\ wl \in Nat /\ pk \in Nat /\ pl \in Nat /\ wl > 0
      /\ k1 \in Nat /\ k2 \in Nat /\ k3 \in Nat /\ l1 \in Nat /\ l2 \in Nat /\ l3 \in Nat
  <2>1. 1 \in 1..3 /\ 2 \in 1..3 /\ 3 \in 1..3
    OBVIOUS
  <2> QED BY <2>1, TitleNumbers
<1>4. ok \in Nat /\ ol \in Nat
  <2>1. ASSUME NEW x, LoadedTitle(x) PROVE ownersSpan(x) \in Nat
    <3>1. TitleFits(x, blank(x)) /\ 0 \in Nat
      BY <2>1, BlankTitleFits
    <3> QED BY <2>1, <3>1, TitleHiddenType
  <2> QED BY <2>1
<1>5. wk = wl /\ pk = pl /\ ok = ol /\ k1 = l1 /\ k2 = l2 /\ k3 = l3
  <2> HIDE DEF rv, wk, wl, pk, pl, ok, ol, k1, k2, k3, l1, l2, l3, r3, r4, r6, r7, r8, r9, len
  <2>1. s = t
    BY ONLY s \in Nat, e \in Nat, a \in Nat, b \in Nat, t \in Nat, f \in Nat, c \in Nat, d \in Nat, <1>11, <1>12
  <2>2. wk = wl
    BY ONLY s \in Nat, e \in Nat, a \in Nat, b \in Nat, t \in Nat, f \in Nat, c \in Nat, d \in Nat, <1>11, <1>12, <1>3, <2>1
  <2>3. pk = pl
    BY ONLY s \in Nat, e \in Nat, a \in Nat, b \in Nat, t \in Nat, f \in Nat, c \in Nat, d \in Nat, <1>11, <1>12, <1>3, <2>1, <2>2
  <2>4. e = f /\ a = c /\ b = d
    BY ONLY s \in Nat, e \in Nat, a \in Nat, b \in Nat, t \in Nat, f \in Nat, c \in Nat, d \in Nat, <1>11, <1>12, <2>1
  <2>5. ok = ol
    BY ONLY s \in Nat, e \in Nat, a \in Nat, b \in Nat, t \in Nat, f \in Nat, c \in Nat, d \in Nat, <1>11, <1>12, <1>3, <1>4, <2>2, <2>3, <2>4
  <2>6. k1 = l1 /\ k2 = l2
    BY ONLY s \in Nat, e \in Nat, a \in Nat, b \in Nat, t \in Nat, f \in Nat, c \in Nat, d \in Nat, <1>11, <1>12, <1>3, <2>4
  <2>7. k3 = l3
    BY ONLY s \in Nat, e \in Nat, a \in Nat, b \in Nat, t \in Nat, f \in Nat, c \in Nat, d \in Nat, <1>11, <1>12, <1>3, <2>1, <2>4
  <2> QED BY ONLY <2>2, <2>3, <2>5, <2>6, <2>7
<1>6. k.owner_slots = l.owner_slots
  <2> DEFINE n == k.owner_slots - 1  m == l.owner_slots - 1  c1 == wl + 3
  <2>1. k.owner_slots \in Nat /\ k.owner_slots > 0 /\ l.owner_slots \in Nat /\ l.owner_slots > 0
    BY TitleNumbers
  <2>2. n * c1 = m * c1
    <3>1. ok = n * (wk + 3) /\ ol = m * (wl + 3)
      BY DEF ownersSpan
    <3> HIDE DEF ok, ol, wk, wl, n, m
    <3> QED BY ONLY <1>5, <3>1
  <2>3. n \in Nat /\ m \in Nat
    BY ONLY <2>1
  <2>4. c1 \in Nat /\ c1 > 0
    <3> HIDE DEF wl
    <3> QED BY ONLY <1>3
  <2>5. n = m
    <3> HIDE DEF n, m, c1
    <3> QED BY ONLY <2>2, <2>3, <2>4, CancelFactor
  <2> QED BY ONLY <2>1, <2>5
<1>7. k.rest_widths = l.rest_widths
  <2>1. k.rest_widths \in [1..3 -> Nat] /\ l.rest_widths \in [1..3 -> Nat]
    BY DEF LoadedTitle, TitleLayout
  <2> DEFINE x == k.rest_widths  y == l.rest_widths
  <2>2. x[1] = y[1] /\ x[2] = y[2] /\ x[3] = y[3]
    BY ONLY <1>5
  <2>3. x \in [1..3 -> Nat] /\ y \in [1..3 -> Nat]
    BY ONLY <2>1
  <2> HIDE DEF x, y
  <2>4. \A i \in 1..3 : i = 1 \/ i = 2 \/ i = 3
    OBVIOUS
  <2>5. \A i \in 1..3 : x[i] = y[i]
    BY ONLY <2>2, <2>4
  <2>6. x = y
    BY ONLY <2>3, <2>5
  <2> QED BY ONLY <2>6 DEF x, y
<1>8. k \in TitleLayout /\ l \in TitleLayout
  BY DEF LoadedTitle
<1>9. k.kind = l.kind
  BY TitleNumbers
<1>10. wk = wl /\ pk = pl
  BY ONLY <1>5
<1>13. k.account_width = l.account_width /\ k.property_id_width = l.property_id_width
  BY ONLY <1>10
<1> QED BY ONLY <1>6, <1>7, <1>8, <1>9, <1>13, k.padding = l.padding DEF TitleLayout

LEMMA ToFieldNext ==
    ASSUME NEW l, LoadedRecord(l), NEW v, RecordFits(l, v), NEW i \in 1..Len(l.fields), i < Len(l.fields)
    PROVE  toFieldLen(l, v, i + 1) = toFieldLen(l, v, i) + l.fields[i].width + 7
<1> DEFINE m == members(l, v)  x == before(m)[i]  w == l.fields[i].width  c == Len(toFields(l, v))
           y == m[i]
<1>1. Items(m) /\ Len(m) = Len(l.fields) /\ Len(m[i]) = w + 6
  BY MembersType
<1>2. before(m)[i + 1] = Followed(x, y) /\ x \in Seq(Nat) /\ y \in Seq(Nat)
  <2> HIDE DEF m
  <2>1. i \in 1..Len(m) /\ i < Len(m)
    BY ONLY <1>1, i \in 1..Len(l.fields), i < Len(l.fields)
  <2>2. before(m)[i + 1] = Followed(before(m)[i], m[i])
    BY ONLY <1>1, <2>1, BeforeNext
  <2>3. before(m)[i] \in Seq(Nat) /\ m[i] \in Seq(Nat)
    BY ONLY <1>1, <2>1, BeforeType, ItemsType
  <2> QED BY ONLY <2>2, <2>3
<1>3. w \in Nat
  BY RecordNumbers
<1>4. c \in Nat
  <2>1. toFields(l, v) \in Seq(Nat)
    BY RecordTypes DEF Behind
  <2> QED BY ONLY <2>1
<1>5. toFieldLen(l, v, i) = c + Len(x) /\ toFieldLen(l, v, i + 1) = c + Len(before(m)[i + 1])
  BY DEF toFieldLen
<1> HIDE DEF m, x, w, c, y
<1>6. Len(Followed(x, y)) = Len(x) + Len(y) + 1 /\ Len(x) \in Nat
  BY ONLY <1>2, FollowedType
<1>7. Len(y) = w + 6
  BY ONLY <1>1 DEF y
<1>8. toFieldLen(l, v, i + 1) = c + (Len(x) + (w + 6) + 1)
  BY ONLY <1>2, <1>5, <1>6, <1>7
<1>9. c + (Len(x) + (w + 6) + 1) = (c + Len(x)) + w + 7
  BY ONLY <1>3, <1>4, <1>6
<1> QED BY ONLY <1>5, <1>8, <1>9 DEF w

LEMMA RecordBodyLength ==
    ASSUME NEW l, LoadedRecord(l), NEW v, RecordFits(l, v)
    PROVE  Len(recordBody(l, v)) = toFieldLen(l, v, Len(l.fields)) + l.fields[Len(l.fields)].width + 8
<1> DEFINE m == members(l, v)  n == Len(l.fields)  w == l.fields[n].width  c == Len(toFields(l, v))
           x == Len(before(m)[n])
<1>0. n \in Nat /\ n > 0
  BY RecordNumbers
<1>1. n \in 1..n
  <2> HIDE DEF n
  <2> QED BY ONLY <1>0
<1>2. Items(m) /\ Len(m) = n /\ Len(m[n]) = w + 6
  BY <1>1, MembersType
<1>3. w \in Nat
  BY <1>1, RecordNumbers
<1>4. Len(recordBody(l, v)) = c + Len(listed(m)) + 2 /\ toFields(l, v) \in Seq(Nat)
  BY RecordTypes DEF Behind
<1>5. c \in Nat
  BY ONLY <1>4
<1>6. toFieldLen(l, v, n) = c + x
  BY DEF toFieldLen
<1>7. Len(listed(m)) = x + (w + 6) /\ x \in Nat
  <2> HIDE DEF m, n, w
  <2>1. Len(listed(m)) = Len(before(m)[n]) + (w + 6)
    BY ONLY <1>2, ListedType
  <2>2. before(m)[n] \in Seq(Nat)
    BY ONLY <1>1, <1>2, BeforeType
  <2> QED BY ONLY <2>1, <2>2
<1> HIDE DEF m, w, c, x, n
<1>8. c + (x + (w + 6)) + 2 = (c + x) + w + 8
  BY ONLY <1>3, <1>5, <1>7
<1>9. Len(recordBody(l, v)) = toFieldLen(l, v, n) + w + 8
  BY ONLY <1>4, <1>6, <1>7, <1>8
<1> QED BY ONLY <1>9 DEF n, w

\* Where the keys start, behind a head of length s.
RecordMeasures(l, rv, len, s) ==
    /\ rv \in Seq(Ranges) /\ Len(rv) = 4 + Len(l.fields)
    /\ rv[3].start = s + 1 /\ rv[4].start = s + l.account_width + 8
    /\ \A i \in 1..Len(l.fields) : i < Len(l.fields) =>
        rv[4 + (i + 1)].start = rv[4 + i].start + l.fields[i].width + 7
    /\ len = rv[4 + Len(l.fields)].start + l.fields[Len(l.fields)].width + 8

LEMMA RecordStarts ==
    ASSUME NEW l, LoadedRecord(l)
    PROVE  \E s \in Nat : RecordMeasures(l, shapeOf(l).revealed, shapeOf(l).len, s)
<1> DEFINE u == blank(l)  s == Len(recordHead(l))  rv == shapeOf(l).revealed  n == Len(l.fields)
           len == shapeOf(l).len
           width(i) == l.fields[i].width
<1>1. RecordFits(l, u) /\ RecordShape(l, u, s)
  BY BlankRecordFits, RecordShapeIs
<1>2. recordHead(l) \in Seq(Nat)
  BY <1>1, RecordRendered
<1>3. s \in Nat
  BY <1>2
<1>4. rv = recordRevealed(l, u, s) /\ len = s + Len(recordBody(l, u))
  BY <1>1 DEF RecordShape
<1>5. /\ rv \in Seq(Ranges) /\ Len(rv) = 4 + n
      /\ rv[3] = keyAt(s, toAccount, KEY_ACCOUNT) /\ rv[4] = keyAt(s, toRecord(l, u), KEY_RECORD)
      /\ \A i \in 1..n : rv[4 + i] = fieldKeyAt(l, u, s, i)
  <2> DEFINE r == recordRevealed(l, u, s)
  <2>1. /\ r \in Seq(Ranges) /\ Len(r) = 4 + n
        /\ r[3] = keyAt(s, toAccount, KEY_ACCOUNT) /\ r[4] = keyAt(s, toRecord(l, u), KEY_RECORD)
        /\ \A i \in 1..n : r[4 + i] = fieldKeyAt(l, u, s, i)
    <3> HIDE DEF u, s
    <3> QED BY ONLY <1>1, <1>3, LoadedRecord(l), RecordRevealedType
  <2>2. rv = r
    BY ONLY <1>4
  <2> HIDE DEF r, rv
  <2> QED BY ONLY <2>1, <2>2
<1>6. n \in Nat /\ n > 0 /\ l.account_width \in Nat /\ \A i \in 1..n : width(i) \in Nat
  BY RecordNumbers
<1>7. \A i \in 1..n : rv[4 + i].start = s + toFieldLen(l, u, i) /\ toFieldLen(l, u, i) \in Nat
  <2> TAKE i \in 1..n
  <2>1. fieldKeyAt(l, u, s, i).start = s + toFieldLen(l, u, i)
    BY <1>1, <1>3, FieldAtType
  <2>2. toFieldLen(l, u, i) \in Nat
    BY <1>1, ToFieldType
  <2> QED BY ONLY <1>5, <2>1, <2>2, i \in 1..n
<1>8. toAccount \in Seq(Nat) /\ toRecord(l, u) \in Seq(Nat)
  BY <1>1, RecordTypes DEF Behind
<1>9. Len(toAccount) = 1 /\ Len(toRecord(l, u)) = l.account_width + 8
  BY <1>1, RecordLengths
<1>10. rv[3].start = s + 1
  <2>1. rv[3].start = s + Len(toAccount)
    <3>1. keyAt(s, toAccount, KEY_ACCOUNT).start = s + Len(toAccount)
      BY ONLY <1>3, <1>8, KeyNames, KeyAtType
    <3> QED BY ONLY <1>5, <3>1
  <2> QED BY ONLY <1>9, <2>1
<1>11. rv[4].start = s + l.account_width + 8
  <2>1. rv[4].start = s + Len(toRecord(l, u))
    <3>1. keyAt(s, toRecord(l, u), KEY_RECORD).start = s + Len(toRecord(l, u))
      BY ONLY <1>3, <1>8, KeyNames, KeyAtType
    <3> QED BY ONLY <1>5, <3>1
  <2> DEFINE w == l.account_width  z == rv[4].start
  <2>2. w \in Nat /\ z = s + (w + 8)
    BY ONLY <1>6, <1>9, <2>1
  <2> HIDE DEF w, z, s
  <2>3. z = s + w + 8
    BY ONLY <1>3, <2>2
  <2> QED BY ONLY <2>3 DEF w, z
<1>12. ASSUME NEW i \in 1..n, i < n PROVE rv[4 + (i + 1)].start = rv[4 + i].start + width(i) + 7
  <2> DEFINE f == toFieldLen(l, u, i)  g == toFieldLen(l, u, i + 1)  w == width(i)
             x == rv[4 + i].start  y == rv[4 + (i + 1)].start
  <2>0. i + 1 \in 1..n /\ w \in Nat
    <3> HIDE DEF n
    <3> QED BY ONLY <1>6, <1>12
  <2>1. g = f + w + 7
    BY <1>1, <1>12, ToFieldNext
  <2>2. x = s + f /\ y = s + g /\ f \in Nat
    BY ONLY <1>7, <2>0, i \in 1..n
  <2> HIDE DEF f, g, w, x, y, s
  <2>3. y = x + w + 7
    BY ONLY <1>3, <2>0, <2>1, <2>2
  <2> QED BY ONLY <2>3 DEF x, y, w
<1>13. len = rv[4 + n].start + width(n) + 8
  <2> DEFINE f == toFieldLen(l, u, n)  w == width(n)  x == rv[4 + n].start
  <2>0. n \in 1..n
    <3> HIDE DEF n
    <3> QED BY ONLY <1>6
  <2>1. len = s + (f + w + 8) /\ x = s + f /\ f \in Nat /\ w \in Nat
    <3>1. Len(recordBody(l, u)) = f + w + 8
      BY <1>1, RecordBodyLength
    <3>2. x = s + f /\ f \in Nat
      BY ONLY <1>7, <2>0
    <3>3. w \in Nat
      BY ONLY <1>6, <2>0
    <3> QED BY ONLY <1>4, <3>1, <3>2, <3>3
  <2> HIDE DEF f, w, x, s, len
  <2>2. len = x + w + 8
    BY ONLY <1>3, <2>1
  <2> QED BY ONLY <2>2 DEF x, w
<1>14. RecordMeasures(l, rv, len, s)
  BY ONLY <1>5, <1>10, <1>11, <1>12, <1>13 DEF RecordMeasures
<1> QED BY ONLY <1>3, <1>14

LEMMA RecordSame ==
    ASSUME NEW k, LoadedRecord(k), NEW l, LoadedRecord(l), k.padding = l.padding,
           shapeOf(k).revealed = shapeOf(l).revealed, shapeOf(k).len = shapeOf(l).len,
           \A i \in 1..Len(l.fields) : nameOf(k, i) = nameOf(l, i)
    PROVE  k = l
<1> DEFINE rv == shapeOf(l).revealed  len == shapeOf(l).len  n == Len(l.fields)  at(i) == rv[4 + i].start
           wide(x, i) == x.fields[i].width
<1>0. shapeOf(k).revealed = rv /\ shapeOf(k).len = len
  OBVIOUS
<1>1. PICK s \in Nat : RecordMeasures(k, rv, len, s)
  <2> HIDE DEF rv, len
  <2> QED BY ONLY <1>0, LoadedRecord(k), RecordStarts
<1>2. PICK t \in Nat : RecordMeasures(l, rv, len, t)
  BY ONLY LoadedRecord(l), RecordStarts
<1>3. /\ rv \in Seq(Ranges) /\ Len(rv) = 4 + Len(k.fields) /\ Len(rv) = 4 + n
      /\ rv[3].start = s + 1 /\ rv[4].start = s + k.account_width + 8
      /\ rv[3].start = t + 1 /\ rv[4].start = t + l.account_width + 8
      /\ \A i \in 1..Len(k.fields) : i < Len(k.fields) => at(i + 1) = at(i) + wide(k, i) + 7
      /\ \A i \in 1..n : i < n => at(i + 1) = at(i) + wide(l, i) + 7
      /\ len = at(Len(k.fields)) + wide(k, Len(k.fields)) + 8 /\ len = at(n) + wide(l, n) + 8
  <2> HIDE DEF rv, len
  <2> QED BY ONLY <1>1, <1>2 DEF RecordMeasures
<1>4. /\ n \in Nat /\ n > 0 /\ Len(k.fields) \in Nat /\ l.account_width \in Nat /\ k.account_width \in Nat
      /\ \A i \in 1..n : wide(l, i) \in Nat
      /\ \A i \in 1..Len(k.fields) : wide(k, i) \in Nat
      /\ k.kind = "record" /\ l.kind = "record"
  BY RecordNumbers
<1>5. Len(k.fields) = n
  <2> DEFINE m == Len(k.fields)
  <2> HIDE DEF m, n, rv
  <2>1. m \in Nat /\ n \in Nat /\ 4 + m = 4 + n
    BY ONLY <1>3, <1>4 DEF m
  <2>2. m = n
    BY ONLY <2>1
  <2> QED BY ONLY <2>2 DEF m
<1>6. k.account_width = l.account_width
  <2> DEFINE a == k.account_width  b == l.account_width  x == rv[3].start  y == rv[4].start
  <2>1. x = s + 1 /\ y = s + a + 8 /\ x = t + 1 /\ y = t + b + 8 /\ a \in Nat /\ b \in Nat /\ s \in Nat /\ t \in Nat
    BY ONLY <1>3, <1>4, s \in Nat, t \in Nat
  <2> HIDE DEF a, b, x, y
  <2>2. a = b
    BY ONLY <2>1
  <2> QED BY ONLY <2>2 DEF a, b
<1>7. ASSUME NEW i \in 1..n PROVE at(i) \in Nat
  <2>1. 4 + i \in 1..Len(rv)
    <3> DEFINE m == Len(rv)
    <3>1. m = 4 + n /\ n \in Nat
      BY ONLY <1>3, <1>4
    <3> HIDE DEF n, rv, m
    <3>2. 4 + i \in 1..m
      BY ONLY <3>1, i \in 1..n
    <3> QED BY ONLY <3>2 DEF m
  <2>2. rv[4 + i] \in Ranges
    <3> DEFINE j == 4 + i
    <3> HIDE DEF rv, j
    <3>1. j \in 1..Len(rv) /\ rv \in Seq(Ranges)
      BY ONLY <1>3, <2>1 DEF j
    <3>2. rv[j] \in Ranges
      BY ONLY <3>1, ElementOfSeq
    <3> QED BY ONLY <3>2 DEF j
  <2> QED BY ONLY <2>2 DEF Ranges
<1>8. ASSUME NEW i \in 1..n PROVE wide(k, i) = wide(l, i)
  <2> DEFINE a == wide(k, i)  b == wide(l, i)  x == at(i)
  <2>1. a \in Nat /\ b \in Nat /\ x \in Nat
    BY ONLY <1>4, <1>5, <1>7, i \in 1..n
  <2>2. CASE i < n
    <3> DEFINE y == at(i + 1)
    <3>1. y = x + a + 7 /\ y = x + b + 7
      BY ONLY <1>3, <1>5, <2>2, i \in 1..n
    <3> HIDE DEF a, b, x, y
    <3>2. a = b
      BY ONLY <2>1, <3>1
    <3> QED BY ONLY <3>2 DEF a, b
  <2>3. CASE i = n
    <3>1. len = x + a + 8 /\ len = x + b + 8
      BY ONLY <1>3, <1>5, <2>3
    <3> HIDE DEF a, b, x, len
    <3>2. a = b
      BY ONLY <2>1, <3>1
    <3> QED BY ONLY <3>2 DEF a, b
  <2>4. i < n \/ i = n
    <3> HIDE DEF n
    <3> QED BY ONLY <1>4, i \in 1..n
  <2> QED BY ONLY <2>2, <2>3, <2>4
<1>9. k.fields = l.fields
  <2> DEFINE x == k.fields  y == l.fields  F == [key : Names, width : Nat]
  <2>1. x \in Seq(F) /\ y \in Seq(F)
    BY DEF LoadedRecord, RecordLayout
  <2>2. \A i \in 1..n : x[i].width = y[i].width /\ x[i].key = y[i].key
    BY ONLY <1>8, \A i \in 1..Len(l.fields) : nameOf(k, i) = nameOf(l, i) DEF nameOf
  <2>3. Len(x) = n /\ Len(y) = n /\ n \in Nat
    BY ONLY <1>4, <1>5
  <2> HIDE DEF x, y, n, F
  <2>4. \A i \in 1..n : x[i] \in F /\ y[i] \in F
    BY ONLY <2>1, <2>3, ElementOfSeq
  <2>5. \A i \in 1..n : x[i] = y[i]
    BY ONLY <2>2, <2>4 DEF F
  <2>6. x = y
    BY ONLY <2>1, <2>3, <2>5, SeqEqual
  <2> QED BY ONLY <2>6 DEF x, y
<1>10. k \in RecordLayout /\ l \in RecordLayout
  BY DEF LoadedRecord
<1> QED BY ONLY <1>4, <1>6, <1>9, <1>10, k.padding = l.padding DEF RecordLayout

LEMMA PolicyLoaded ==
    /\ LoadedTitle(PolicyLayout["register"])
    /\ LoadedRecord(PolicyLayout["apply"]) /\ LoadedRecord(PolicyLayout["settle"])
<1> DEFINE r == PolicyLayout["register"]  a == PolicyLayout["apply"]  s == PolicyLayout["settle"]
<1>1. "register" \in Phases /\ "apply" \in Phases /\ "settle" \in Phases
  BY DEF Phases
<1>2. r \in TitleLayout /\ a \in RecordLayout /\ s \in RecordLayout /\ valid(r) /\ valid(a) /\ valid(s)
  BY <1>1, EvidenceAssumption
<1> HIDE DEF r, a, s
<1>3. r.kind = "title" /\ a.kind = "record" /\ s.kind = "record"
  BY ONLY <1>2 DEF TitleLayout, RecordLayout
<1>4. validTitle(r)
  BY ONLY <1>2, <1>3 DEF valid
<1>5. validRecord(a) /\ validRecord(s)
  BY ONLY <1>2, <1>3 DEF valid
<1> QED BY ONLY <1>2, <1>4, <1>5 DEF LoadedTitle, LoadedRecord, r, a, s

\* What check_shape finds out about a response.
LooksLike(sh) ==
    /\ Len(response) = sh.len /\ shape.revealed = sh.revealed
    /\ \A i \in DOMAIN sh.revealed :
        SubSeq(response, sh.revealed[i].start + 1, sh.revealed[i].end)
        = SubSeq(sh.template, sh.revealed[i].start + 1, sh.revealed[i].end)

LEMMA RecordNames ==
    ASSUME RecordState, NEW l, LoadedRecord(l), LooksLike(shapeOf(l))
    PROVE  /\ Len(layout.fields) = Len(l.fields)
           /\ \A i \in 1..Len(l.fields) : nameOf(layout, i) = nameOf(l, i)
<1> DEFINE k == layout  rv == shapeOf(l).revealed  n == Len(l.fields)  hk == Len(recordHead(k))  hl == Len(recordHead(l))
           tl == shapeOf(l).template
<1>1. /\ response = recordHead(k) \o recordBody(k, view) /\ response \in Seq(Nat)
      /\ shape.revealed = recordRevealed(k, blank(k), hk) /\ RecordFits(k, blank(k)) /\ hk \in Nat
  BY RecordStateFacts
<1>2. LoadedRecord(k) /\ RecordFits(k, view)
  BY DEF RecordState
<1>3. RecordFits(l, blank(l)) /\ RecordShape(l, blank(l), hl)
  BY BlankRecordFits, RecordShapeIs
<1>4. /\ render_response(l, blank(l)) = recordHead(l) \o recordBody(l, blank(l))
      /\ recordHead(l) \in Seq(Nat) /\ recordBody(l, blank(l)) \in Seq(Nat)
  BY <1>3, RecordRendered
<1>5. tl = recordHead(l) \o recordBody(l, blank(l)) /\ rv = recordRevealed(l, blank(l), hl)
  BY <1>3, <1>4 DEF RecordShape
<1>6. tl \in Seq(Nat) /\ hl \in Nat
  BY ONLY <1>4, <1>5, Joined
<1>7. rv \in Seq(Ranges) /\ Len(rv) = 4 + n
  BY <1>3, <1>5, <1>6, RecordRevealedType
<1>8. Len(shape.revealed) = 4 + Len(k.fields)
  BY <1>1, <1>2, RecordRevealedType
<1>9. shape.revealed = rv /\ \A i \in DOMAIN rv :
          SubSeq(response, rv[i].start + 1, rv[i].end) = SubSeq(tl, rv[i].start + 1, rv[i].end)
  BY DEF LooksLike
<1>10. n \in Nat /\ Len(k.fields) \in Nat
  BY <1>2, RecordNumbers
<1>11. Len(k.fields) = n
  <2> DEFINE m == Len(k.fields)
  <2> HIDE DEF m, n, rv
  <2>1. m \in Nat /\ n \in Nat /\ 4 + m = 4 + n
    BY ONLY <1>7, <1>8, <1>9, <1>10 DEF m
  <2>2. m = n
    BY ONLY <2>1
  <2> QED BY ONLY <2>2 DEF m
<1>12. ASSUME NEW i \in 1..n PROVE nameOf(k, i) = nameOf(l, i)
  <2> DEFINE j == 4 + i  x == key(nameOf(k, i))  y == key(nameOf(l, i))
  <2>1. j \in 1..(4 + n) /\ j - 4 = i /\ j > 4
    <3> HIDE DEF n
    <3> QED BY ONLY <1>10, i \in 1..n
  <2>2. recordPiece(k, j) = x /\ recordPiece(l, j) = y
    <3> HIDE DEF j
    <3>1. j # 1 /\ j # 2 /\ j # 3 /\ j # 4
      BY ONLY <2>1
    <3>2. recordPiece(k, j) = key(nameOf(k, j - 4)) /\ recordPiece(l, j) = key(nameOf(l, j - 4))
      BY ONLY <3>1 DEF recordPiece
    <3> QED BY ONLY <2>1, <3>2
  <2>3. x \in Seq(Nat) /\ Spot(response, rv[j], x)
    <3>1. recordPiece(k, j) \in Seq(Nat) /\ Spot(recordHead(k) \o recordBody(k, view), recordRevealed(k, blank(k), hk)[j], recordPiece(k, j))
      BY <1>2, <1>11, <2>1, RecordRevealedSpots
    <3> QED BY ONLY <1>1, <1>9, <2>2, <3>1
  <2>4. y \in Seq(Nat) /\ Spot(tl, rv[j], y)
    <3>1. recordPiece(l, j) \in Seq(Nat) /\ Spot(recordHead(l) \o recordBody(l, blank(l)), recordRevealed(l, blank(l), hl)[j], recordPiece(l, j))
      BY <1>3, <2>1, RecordRevealedSpots
    <3> QED BY ONLY <1>5, <2>2, <3>1
  <2>5. j \in DOMAIN rv
    BY ONLY <1>7, <2>1
  <2>6. x = y
    <3> HIDE DEF rv, j, x, y, tl
    <3>1. SubSeq(response, rv[j].start + 1, rv[j].end) = x
      BY ONLY <1>1, <2>3, SpotReads
    <3>2. SubSeq(tl, rv[j].start + 1, rv[j].end) = y
      BY ONLY <1>6, <2>4, SpotReads
    <3> QED BY ONLY <1>9, <2>5, <3>1, <3>2
  <2>7. nameOf(k, i) \in Nat /\ nameOf(l, i) \in Nat
    BY <1>2, <1>11, RecordNumbers
  <2>8. x[2] = nameOf(k, i) /\ y[2] = nameOf(l, i)
    BY <2>7, KeyType
  <2> QED BY ONLY <2>6, <2>8
<1> QED BY ONLY <1>11, <1>12

\* A response that passes check_shape was rendered under the policy's layout.
LEMMA SameLayout ==
    ASSUME LayoutInv, answered, NEW p \in Phases,
           Prefix(layout) = Prefix(PolicyLayout[p]), LooksLike(shapeOf(PolicyLayout[p]))
    PROVE  layout = PolicyLayout[p] /\ shape = shapeOf(PolicyLayout[p])
<1> DEFINE l == PolicyLayout[p]
<1>1. layout \in LayoutFiles /\ shape = shapeOf(layout)
  BY DEF LayoutInv, answered
<1>2. layout.kind = l.kind /\ layout.padding = l.padding
  BY <1>1, EvidenceAssumption
<1>3. Len(response) = shapeOf(l).len /\ shape.revealed = shapeOf(l).revealed
  BY DEF LooksLike
<1>4. CASE p = "register"
  <2>1. LoadedTitle(l) /\ l.kind = "title"
    BY <1>4, PolicyLoaded, TitleNumbers
  <2>2. ~ RecordState
    <3>1. RecordState => layout.kind = "record"
      BY RecordNumbers DEF RecordState
    <3> QED BY <1>2, <2>1, <3>1
  <2>3. TitleState
    BY <2>2, Rendered
  <2>4. LoadedTitle(layout) /\ Len(response) = shape.len
    BY <2>3, TitleStateFacts DEF TitleState
  <2>5. layout = l
    BY ONLY <1>1, <1>2, <1>3, <2>1, <2>4, TitleSame
  <2> QED BY ONLY <1>1, <2>5
<1>5. CASE p # "register"
  <2>1. LoadedRecord(l) /\ l.kind = "record"
    BY <1>5, PolicyLoaded, RecordNumbers DEF Phases
  <2>2. ~ TitleState
    <3>1. TitleState => layout.kind = "title"
      BY TitleNumbers DEF TitleState
    <3> QED BY <1>2, <2>1, <3>1
  <2>3. RecordState
    BY <2>2, Rendered
  <2>4. LoadedRecord(layout) /\ Len(response) = shape.len
    BY <2>3, RecordStateFacts DEF RecordState
  <2>5. \A i \in 1..Len(l.fields) : nameOf(layout, i) = nameOf(l, i)
    BY <2>1, <2>3, RecordNames
  <2>6. layout = l
    <3> HIDE DEF l
    <3> QED BY ONLY <1>1, <1>2, <1>3, <2>1, <2>4, <2>5, RecordSame
  <2> QED BY ONLY <1>1, <2>6
<1> QED BY <1>4, <1>5

-----------------------------------------------------------------------------
(* What the circuits were satisfied with is what the response holds at the   *)
(* ranges of the policy's layout, whatever else the prover committed to.     *)

LEMMA Opened ==
    ASSUME Attested, attestation # NoLayout, NEW sh, NEW i \in DOMAIN sh.hidden,
           Cardinality({c \in DOMAIN attestation.committed : attestation.committed[c].idx = sh.hidden[i]}) = 1
    PROVE  hidden(sh, i) = read(sh.hidden[i])
<1> DEFINE f == attestation.committed  h == sh.hidden[i]
<1>1. PICK plan \in Seq(Ranges) : f = committedTo(plan)
  BY DEF Attested
<1>2. DOMAIN f = DOMAIN plan /\ \A c \in DOMAIN plan :
        f[c].idx = plan[c] /\ f[c].value = read(plan[c])
  BY <1>1 DEF committedTo, read
<1>3. PICK c \in DOMAIN f : f[c].idx = h
  <2> DEFINE S == {c \in DOMAIN f : f[c].idx = h}
  <2>1. Cardinality(S) = 1
    OBVIOUS
  <2>2. Cardinality({}) = 0
    BY FS_EmptySet
  <2>3. S # {}
    <3> HIDE DEF S
    <3>1. S = {} => Cardinality(S) = 0
      BY ONLY <2>2, Zenon
    <3> QED BY ONLY <2>1, <3>1
  <2>4. \E c \in DOMAIN f : f[c].idx = h
    <3> HIDE DEF f, h
    <3> QED BY ONLY <2>3
  <2> QED BY ONLY <2>4
<1> DEFINE Good(d) == d \in Range(f) /\ d.idx = h
<1>4. Range(f) = {f[c_1] : c_1 \in DOMAIN f}
  BY DEF Range
<1>5. \E d : Good(d)
  BY ONLY <1>3, <1>4
<1> DEFINE e == CHOOSE d : Good(d)
<1>6. Good(e)
  <2> HIDE DEF Good
  <2> QED BY ONLY <1>5, Zenon
<1>7. hidden(sh, i) = (CHOOSE d \in Range(f) : d.idx = h).value
  BY DEF hidden
<1>8. hidden(sh, i) = e.value
  BY ONLY <1>7, Zenon
<1> HIDE DEF e, f, h
<1>9. PICK c_2 \in DOMAIN f : e = f[c_2] /\ f[c_2].idx = h
  BY ONLY <1>4, <1>6
<1>10. plan[c_2] = h /\ e.value = read(plan[c_2])
  BY ONLY <1>2, <1>9
<1> QED BY ONLY <1>8, <1>10 DEF h

\* The values a response holds at the ranges of a shape.
valuesAt(sh) == [i \in DOMAIN sh.hidden |-> read(sh.hidden[i])]

LEMMA Passed ==
    ASSUME EInv, attestation # NoLayout, NEW p \in Phases, NEW subject,
           check_shape(policyShape[p], <<Prefix(PolicyLayout[p]), subject>>)
    PROVE  /\ answered /\ LayoutInv /\ layout = PolicyLayout[p] /\ shape = policyShape[p] /\ view.subject = subject
           /\ hiddenHashes(policyShape[p]) = valuesAt(policyShape[p])
<1> DEFINE l == PolicyLayout[p]  sh == policyShape[p]
<1>1. /\ answered /\ LayoutInv /\ attestation.line = <<Prefix(layout), view.subject>>
      /\ attestation.received = Len(response) /\ attestation.revealed = shape.revealed
  BY DEF EInv, Attested
<1>2. /\ attestation.line = <<Prefix(l), subject>> /\ attestation.received = sh.len
      /\ attestation.revealed = sh.revealed
      /\ \A i \in DOMAIN sh.revealed :
            SubSeq(response, sh.revealed[i].start + 1, sh.revealed[i].end)
            = SubSeq(sh.template, sh.revealed[i].start + 1, sh.revealed[i].end)
      /\ \A i \in DOMAIN sh.hidden :
            Cardinality({c \in DOMAIN attestation.committed : attestation.committed[c].idx = sh.hidden[i]}) = 1
  BY DEF check_shape
<1>3. sh = shapeOf(l)
  BY DEF policyShape
<1>4. LooksLike(shapeOf(l))
  <2>1. LooksLike(sh)
    <3> HIDE DEF sh
    <3> QED BY ONLY <1>1, <1>2 DEF LooksLike
  <2> QED BY ONLY <1>3, <2>1
<1>5. Prefix(layout) = Prefix(l) /\ view.subject = subject
  <2> DEFINE a == Prefix(layout)  b == Prefix(l)  v == view.subject
  <2>1. <<a, v>> = <<b, subject>>
    BY ONLY <1>1, <1>2
  <2> HIDE DEF a, b, v
  <2>2. a = b /\ v = subject
    BY ONLY <2>1
  <2> QED BY ONLY <2>2 DEF a, b, v
<1>6. layout = l /\ shape = shapeOf(l)
  BY ONLY <1>1, <1>4, <1>5, p \in Phases, SameLayout
<1>7. \A i \in DOMAIN sh.hidden : hidden(sh, i) = read(sh.hidden[i])
  <2>1. Attested
    BY DEF EInv
  <2> HIDE DEF sh
  <2> QED BY ONLY <1>2, <2>1, attestation # NoLayout, Opened
<1>8. hiddenHashes(sh) = valuesAt(sh)
  <2> HIDE DEF sh
  <2> QED BY ONLY <1>7 DEF hiddenHashes, valuesAt
<1> QED BY ONLY <1>1, <1>3, <1>5, <1>6, <1>8

LEMMA TailsEqual ==
    ASSUME NEW S, NEW f \in Seq(S), NEW T, NEW g \in Seq(T), Len(f) = 4, Len(g) = 4, Tail(f) = Tail(g)
    PROVE  f[2] = g[2] /\ f[3] = g[3] /\ f[4] = g[4]
<1>1. f # <<>> /\ g # <<>>
  <2>1. Len(<<>>) = 0
    OBVIOUS
  <2> QED BY <2>1
<1>2. /\ \A i \in 1..3 : Tail(f)[i] = f[i + 1]
      /\ \A i \in 1..3 : Tail(g)[i] = g[i + 1]
  <2>1. Len(Tail(f)) = Len(f) - 1 /\ \A i \in 1..Len(Tail(f)) : Tail(f)[i] = f[i + 1]
    BY ONLY f \in Seq(S), <1>1, HeadTailProperties
  <2>2. Len(Tail(g)) = Len(g) - 1 /\ \A i \in 1..Len(Tail(g)) : Tail(g)[i] = g[i + 1]
    BY ONLY g \in Seq(T), <1>1, HeadTailProperties
  <2>3. Len(Tail(f)) = 3 /\ Len(Tail(g)) = 3
    BY ONLY <2>1, <2>2, Len(f) = 4, Len(g) = 4
  <2> QED BY ONLY <2>1, <2>2, <2>3
<1>3. 1 \in 1..3 /\ 2 \in 1..3 /\ 3 \in 1..3 /\ 1 + 1 = 2 /\ 2 + 1 = 3 /\ 3 + 1 = 4
  OBVIOUS
<1>4. Tail(f)[1] = f[2] /\ Tail(f)[2] = f[3] /\ Tail(f)[3] = f[4]
  BY <1>2, <1>3
<1>5. Tail(g)[1] = g[2] /\ Tail(g)[2] = g[3] /\ Tail(g)[3] = g[4]
  BY <1>2, <1>3
<1> QED BY ONLY <1>4, <1>5, Tail(f) = Tail(g)

LEMMA OpeningsSeq ==
    ASSUME Attested, attestation # NoLayout
    PROVE  openings \in Seq({openings[i] : i \in DOMAIN openings})
<1>1. PICK plan \in Seq(Ranges) : attestation.committed = committedTo(plan)
  BY DEF Attested
<1>2. DOMAIN openings = DOMAIN plan
  BY <1>1 DEF openings, committedTo
<1>3. openings = [i \in DOMAIN openings |-> openings[i]]
  BY DEF openings
<1> DEFINE f == openings  T == {f[i] : i \in DOMAIN f}  n == Len(plan)
<1> HIDE DEF f
<1>4. n \in Nat /\ DOMAIN plan = 1..n
  BY ONLY plan \in Seq(Ranges)
<1>5. f \in [1..n -> T]
  BY ONLY <1>2, <1>3, <1>4 DEF f
<1> HIDE DEF T, n
<1>6. f \in Seq(T)
  BY ONLY <1>4, <1>5
<1> QED BY ONLY <1>6 DEF f, T

\* A signature for x: the proof is of x, and the circuit of x's phase was satisfied.
LEMMA Signed ==
    ASSUME EInv, accepted # NoLayout
    PROVE  /\ accepted \in Claims /\ accepted.phase \in Phases
           /\ attestation # NoLayout /\ satisfied(accepted) /\ signs(proof, accepted)
           /\ proof.claim = accepted /\ proof.public = public(accepted, openings)
<1>1. PICK x \in Claims : accepted = x /\ signs(proof, x)
  BY DEF EInv, Accepted
<1>2. PICK y \in Claims : satisfied(y) /\ proof = prove(y) /\ attestation # NoLayout
  BY DEF EInv, Accepted, Proved
<1>3. x \in Claim
  BY EvidenceAssumption
<1>4. x.phase = "register" \/ x.phase = "apply" \/ x.phase = "settle"
  BY <1>3 DEF Claim
<1>5. proof.claim = y /\ proof.public = public(y, openings)
  BY <1>2 DEF prove
<1>6. proof.claim = x
  <2>1. CASE x.phase = "register"
    <3>1. signsRegister(proof, x)
      BY ONLY <1>1, <2>1 DEF signs
    <3> QED BY <3>1 DEF signsRegister, verify
  <2>2. CASE x.phase = "apply"
    <3>1. signsApply(proof, x)
      BY ONLY <1>1, <2>2 DEF signs
    <3> QED BY <3>1 DEF signsApply, verify
  <2>3. CASE x.phase = "settle"
    <3>1. signsSettle(proof, x)
      BY ONLY <1>1, <2>3 DEF signs
    <3> QED BY <3>1 DEF signsSettle, verify
  <2> QED BY <1>4, <2>1, <2>2, <2>3
<1>7. x = y
  BY ONLY <1>5, <1>6
<1>8. signs(proof, accepted)
  <2> HIDE DEF signs
  <2> QED BY <1>1, Zenon
<1>9. satisfied(accepted)
  <2>1. satisfied(x)
    BY ONLY <1>2, <1>7
  <2> QED BY ONLY <1>1, <2>1
<1>10. accepted \in Claims /\ accepted.phase \in Phases
  BY ONLY <1>1, <1>4, x \in Claims DEF Phases
<1> QED BY ONLY <1>1, <1>2, <1>5, <1>7, <1>8, <1>9, <1>10

\* What a registration's circuit was satisfied with.
LEMMA SignedRegister ==
    ASSUME EInv, accepted # NoLayout, accepted.phase = "register"
    PROVE  /\ answered /\ LayoutInv /\ layout = PolicyLayout["register"]
           /\ PhiR(layout, read(shape.hidden[1]), read(shape.hidden[2]), read(shape.hidden[3]), accepted.property)
<1> DEFINE x == accepted  sh == policyShape["register"]  l == PolicyLayout["register"]
<1>1. attestation # NoLayout /\ satisfied(x) /\ signs(proof, x) /\ proof.public = public(x, openings)
  BY Signed
<1>2. "register" \in Phases
  BY DEF Phases
<1>3. signsRegister(proof, x)
  BY ONLY <1>1, accepted.phase = "register" DEF signs
<1>4. check_shape(sh, <<Prefix(l), x.subject>>) /\ proof.public = public(x, hiddenHashes(sh))
  BY ONLY <1>3 DEF signsRegister, verify
<1>5. answered /\ LayoutInv /\ layout = l /\ shape = sh /\ hiddenHashes(sh) = valuesAt(sh)
  BY ONLY EInv, <1>1, <1>2, <1>4, Passed
<1>6. openings = valuesAt(sh)
  <2>1. public(x, openings) = openings /\ public(x, hiddenHashes(sh)) = hiddenHashes(sh)
    BY ONLY accepted.phase = "register" DEF public, PhiRPublic
  <2> QED BY ONLY <1>1, <1>4, <1>5, <2>1
<1>7. PhiRInput(openings, x)
  BY ONLY <1>1, accepted.phase = "register" DEF satisfied
<1>8. PhiR(l, openings[1], openings[2], openings[3], x.property)
  BY ONLY <1>7 DEF PhiRInput
<1>9. DOMAIN sh.hidden = 1..3
  <2>1. TitleState
    <3>1. layout.kind = "title" /\ ~ RecordState
      <4>1. l.kind = "title"
        BY PolicyLoaded, TitleNumbers
      <4>2. RecordState => layout.kind = "record"
        BY RecordNumbers DEF RecordState
      <4> QED BY ONLY <1>5, <4>1, <4>2
    <3> QED BY <1>5, <3>1, Rendered
  <2>2. shape.hidden \in Seq(Ranges) /\ Len(shape.hidden) = 3
    <3>1. ofTitle
      BY <2>1, TitleNumbers DEF TitleState, ofTitle
    <3> QED BY <1>5, <3>1, HiddenType
  <2> DEFINE h == shape.hidden
  <2>3. h \in Seq(Ranges) /\ Len(h) = 3
    BY ONLY <2>2
  <2> HIDE DEF h
  <2>4. DOMAIN h = 1..3
    BY ONLY <2>3
  <2> QED BY ONLY <1>5, <2>4 DEF h
<1>10. openings[1] = read(sh.hidden[1]) /\ openings[2] = read(sh.hidden[2]) /\ openings[3] = read(sh.hidden[3])
  <2>1. 1 \in 1..3 /\ 2 \in 1..3 /\ 3 \in 1..3
    OBVIOUS
  <2> HIDE DEF sh
  <2> QED BY ONLY <1>6, <1>9, <2>1 DEF valuesAt
<1> QED BY ONLY <1>5, <1>8, <1>10

\* The fields of a record that passed check_shape, and the ranges they are read from.
LEMMA PassedRecord ==
    ASSUME LayoutInv, answered, NEW p \in {"apply", "settle"}, layout = PolicyLayout[p]
    PROVE  /\ RecordState /\ shape.hidden \in Seq(Ranges) /\ DOMAIN shape.hidden = 1..(1 + Len(layout.fields))
           /\ read(shape.hidden[1]) = accountOf(layout, view)
           /\ \A i \in 1..Len(layout.fields) : read(shape.hidden[i + 1]) = valueOf(layout, view, i)
<1>1. LoadedRecord(layout)
  BY PolicyLoaded
<1>2. layout.kind = "record"
  BY <1>1, RecordNumbers
<1>3. TitleState => layout.kind = "title"
  BY TitleNumbers DEF TitleState
<1>4. RecordState
  BY <1>2, <1>3, Rendered
<1>5. ~ ofTitle
  BY <1>2 DEF ofTitle
<1>6. shape.hidden \in Seq(Ranges) /\ Len(shape.hidden) = 1 + Len(layout.fields)
  BY <1>5, HiddenType
<1>7. DOMAIN shape.hidden = 1..(1 + Len(layout.fields))
  <2> DEFINE h == shape.hidden
  <2>1. h \in Seq(Ranges) /\ Len(h) = 1 + Len(layout.fields)
    BY ONLY <1>6
  <2> HIDE DEF h
  <2>2. DOMAIN h = 1..(1 + Len(layout.fields))
    BY ONLY <2>1
  <2> QED BY ONLY <2>2 DEF h
<1> QED BY <1>4, <1>6, <1>7, RecordReads

\* The fields the policies' circuits ask for.
LEMMA PolicyFields ==
    /\ Len(PolicyLayout["apply"].fields) = 1 /\ Len(PolicyLayout["settle"].fields) = 3
<1>1. Len(PolicyLayout["apply"].fields) = 1
  BY CircuitAssumption DEF main_circom_phi_a
<1> DEFINE f == PolicyLayout["settle"].fields  t == <<KEY_PROPERTY_ID, KEY_TENANT, KEY_RECORD_DATE>>
           g == [i \in DOMAIN f |-> f[i].key]
<1>2. g = t
  BY CircuitAssumption DEF main_circom_phi_s
<1>3. DOMAIN f = 1..Len(f) /\ Len(f) \in Nat
  BY PolicyLoaded, RecordNumbers
<1>4. DOMAIN t = 1..3
  OBVIOUS
<1>5. DOMAIN g = DOMAIN f
  OBVIOUS
<1>6. 1..Len(f) = 1..3
  <2> HIDE DEF f, g, t
  <2> QED BY ONLY <1>2, <1>3, <1>4, <1>5
<1>7. Len(f) = 3
  <2> DEFINE n == Len(f)
  <2>1. n \in Nat /\ 1..n = 1..3
    BY ONLY <1>3, <1>6
  <2> HIDE DEF n
  <2>2. n \in 1..n \/ n = 0
    BY ONLY <2>1
  <2>3. 3 \in 1..n
    BY ONLY <2>1
  <2>4. n = 3
    BY ONLY <2>1, <2>2, <2>3
  <2> QED BY ONLY <2>4 DEF n
<1> QED BY ONLY <1>1, <1>7

\* What an application's circuit was satisfied with.
LEMMA SignedApply ==
    ASSUME EInv, accepted # NoLayout, accepted.phase = "apply"
    PROVE  /\ answered /\ LayoutInv /\ layout = PolicyLayout["apply"] /\ RecordState
           /\ amountFits(accepted.amount) /\ field_element(accepted.cB)
           /\ PhiA(layout, accountOf(layout, view), valueOf(layout, view, 1), accepted.cB, accepted.amount)
<1> DEFINE x == accepted  sh == policyShape["apply"]  l == PolicyLayout["apply"]
<1>1. attestation # NoLayout /\ satisfied(x) /\ signs(proof, x) /\ proof.public = public(x, openings)
  BY Signed
<1>2. "apply" \in Phases /\ "apply" \in {"apply", "settle"}
  BY DEF Phases
<1>3. signsApply(proof, x)
  BY ONLY <1>1, accepted.phase = "apply" DEF signs
<1>4. /\ check_shape(sh, <<Prefix(l), <<>> >>) /\ proof.public = public(x, hiddenHashes(sh))
      /\ amountFits(x.amount) /\ field_element(x.cB)
  BY ONLY <1>3 DEF signsApply, verify
<1>5. answered /\ LayoutInv /\ layout = l /\ shape = sh /\ hiddenHashes(sh) = valuesAt(sh)
  BY ONLY EInv, <1>1, <1>2, <1>4, Passed
<1>6. openings = valuesAt(sh)
  <2>1. public(x, openings) = openings /\ public(x, hiddenHashes(sh)) = hiddenHashes(sh)
    BY ONLY accepted.phase = "apply" DEF public, PhiAPublic
  <2> QED BY ONLY <1>1, <1>4, <1>5, <2>1
<1>7. PhiAInput(openings, x)
  BY ONLY <1>1, accepted.phase = "apply" DEF satisfied
<1>8. PhiA(l, openings[1], openings[2], x.cB, x.amount)
  BY ONLY <1>7 DEF PhiAInput
<1>9. /\ RecordState /\ DOMAIN shape.hidden = 1..(1 + Len(layout.fields))
      /\ read(shape.hidden[1]) = accountOf(layout, view)
      /\ \A i \in 1..Len(layout.fields) : read(shape.hidden[i + 1]) = valueOf(layout, view, i)
  BY ONLY <1>2, <1>5, PassedRecord
<1>10. Len(layout.fields) = 1
  BY ONLY <1>5, PolicyFields
<1>11. DOMAIN sh.hidden = 1..2 /\ read(sh.hidden[2]) = valueOf(layout, view, 1)
  <2>1. 1..(1 + 1) = 1..2 /\ 1 \in 1..1 /\ 1 + 1 = 2
    OBVIOUS
  <2>2. read(shape.hidden[1 + 1]) = valueOf(layout, view, 1)
    BY ONLY <1>9, <1>10, <2>1
  <2> QED BY ONLY <1>5, <1>9, <1>10, <2>1, <2>2
<1>12. openings[1] = read(sh.hidden[1]) /\ openings[2] = read(sh.hidden[2])
  <2>1. 1 \in 1..2 /\ 2 \in 1..2
    OBVIOUS
  <2> HIDE DEF sh
  <2> QED BY ONLY <1>6, <1>11, <2>1 DEF valuesAt
<1>13. openings[1] = accountOf(layout, view) /\ openings[2] = valueOf(layout, view, 1)
  BY ONLY <1>5, <1>9, <1>11, <1>12
<1> QED BY ONLY <1>4, <1>5, <1>8, <1>9, <1>13

\* What a settlement's circuit was satisfied with.
LEMMA SignedSettle ==
    ASSUME EInv, accepted # NoLayout, accepted.phase = "settle"
    PROVE  /\ answered /\ LayoutInv /\ layout = PolicyLayout["settle"] /\ RecordState
           /\ dayFits(accepted.day) /\ field_element(accepted.cB)
           /\ PhiS(layout, valueOf(layout, view, 1), valueOf(layout, view, 2), valueOf(layout, view, 3),
                   accepted.property, accepted.cB, accepted.day)
<1> DEFINE x == accepted  sh == policyShape["settle"]  l == PolicyLayout["settle"]
<1>1. attestation # NoLayout /\ satisfied(x) /\ signs(proof, x) /\ proof.public = public(x, openings)
  BY Signed
<1>2. "settle" \in Phases /\ "settle" \in {"apply", "settle"}
  BY DEF Phases
<1>3. signsSettle(proof, x)
  BY ONLY <1>1, accepted.phase = "settle" DEF signs
<1>4. /\ check_shape(sh, <<Prefix(l), x.subject>>) /\ proof.public = public(x, hiddenHashes(sh))
      /\ dayFits(x.day) /\ field_element(x.cB)
  BY ONLY <1>3 DEF signsSettle, verify
<1>5. answered /\ LayoutInv /\ layout = l /\ shape = sh /\ hiddenHashes(sh) = valuesAt(sh)
  BY ONLY EInv, <1>1, <1>2, <1>4, Passed
<1>6. Tail(openings) = Tail(valuesAt(sh))
  <2>1. public(x, openings) = Tail(openings) /\ public(x, hiddenHashes(sh)) = Tail(hiddenHashes(sh))
    BY ONLY accepted.phase = "settle" DEF public, PhiSPublic
  <2> QED BY ONLY <1>1, <1>4, <1>5, <2>1
<1>7. PhiSInput(openings, x)
  BY ONLY <1>1, accepted.phase = "settle" DEF satisfied
<1>8. Len(openings) = 4 /\ PhiS(l, openings[2], openings[3], openings[4], x.property, x.cB, x.day)
  BY ONLY <1>7 DEF PhiSInput
<1>9. /\ RecordState /\ DOMAIN shape.hidden = 1..(1 + Len(layout.fields))
      /\ \A i \in 1..Len(layout.fields) : read(shape.hidden[i + 1]) = valueOf(layout, view, i)
  BY ONLY <1>2, <1>5, PassedRecord
<1>10. Len(layout.fields) = 3
  BY ONLY <1>5, PolicyFields
<1>11. /\ DOMAIN sh.hidden = 1..4 /\ read(sh.hidden[2]) = valueOf(layout, view, 1)
       /\ read(sh.hidden[3]) = valueOf(layout, view, 2) /\ read(sh.hidden[4]) = valueOf(layout, view, 3)
  <2>1. 1..(1 + 3) = 1..4 /\ 1 \in 1..3 /\ 1 + 1 = 2 /\ 2 \in 1..3 /\ 2 + 1 = 3 /\ 3 \in 1..3 /\ 3 + 1 = 4
    OBVIOUS
  <2>2. /\ read(shape.hidden[1 + 1]) = valueOf(layout, view, 1) /\ read(shape.hidden[2 + 1]) = valueOf(layout, view, 2)
        /\ read(shape.hidden[3 + 1]) = valueOf(layout, view, 3)
    BY ONLY <1>9, <1>10, <2>1
  <2> QED BY ONLY <1>5, <1>9, <1>10, <2>1, <2>2
<1> DEFINE g == valuesAt(sh)  f == openings  T == {g[i] : i \in 1..4}  S == {f[i] : i \in DOMAIN f}
<1>12. f \in Seq(S)
  BY <1>1, OpeningsSeq DEF EInv
<1>13. g = [i \in 1..4 |-> read(sh.hidden[i])]
  BY ONLY <1>11 DEF valuesAt
<1>14. DOMAIN g = 1..4 /\ g[2] = read(sh.hidden[2]) /\ g[3] = read(sh.hidden[3]) /\ g[4] = read(sh.hidden[4])
  <2> DEFINE q(i) == read(sh.hidden[i])
  <2>1. g = [i \in 1..4 |-> q(i)]
    BY ONLY <1>13
  <2> HIDE DEF q, g
  <2>2. DOMAIN g = 1..4 /\ g[2] = q(2) /\ g[3] = q(3) /\ g[4] = q(4)
    BY ONLY <2>1
  <2> QED BY ONLY <2>2 DEF q
<1>15. g \in Seq(T) /\ Len(g) = 4
  <2>1. g = [i \in DOMAIN g |-> g[i]]
    BY ONLY <1>13
  <2> HIDE DEF g
  <2>2. g \in [1..4 -> T]
    BY ONLY <1>14, <2>1
  <2> HIDE DEF T
  <2> DEFINE n == 4
  <2>3. n \in Nat /\ g \in [1..n -> T]
    BY ONLY <2>2
  <2> HIDE DEF n
  <2>4. g \in Seq(T) /\ Len(g) = n
    BY ONLY <2>3
  <2> QED BY ONLY <2>4 DEF n
<1> HIDE DEF f, g, S, T
<1>16. f[2] = g[2] /\ f[3] = g[3] /\ f[4] = g[4]
  <2>1. Len(f) = 4 /\ Tail(f) = Tail(g)
    BY ONLY <1>6, <1>8 DEF f, g
  <2> QED BY ONLY <1>12, <1>15, <2>1, TailsEqual
<1>17. /\ openings[2] = valueOf(layout, view, 1) /\ openings[3] = valueOf(layout, view, 2)
       /\ openings[4] = valueOf(layout, view, 3)
  BY ONLY <1>11, <1>14, <1>16 DEF f
<1> QED BY ONLY <1>4, <1>5, <1>8, <1>9, <1>17

-----------------------------------------------------------------------------
(* The circuits compute in the field.  The sizes of the policies keep every  *)
(* value below its order, so what holds in the field holds of the numbers.   *)

LEMMA WordNumbers ==
    /\ WORD \in Nat /\ HALF \in Nat /\ HALF >= 1 /\ HALF <= WORD - 1 /\ WORD - HALF \in Nat
    /\ WORD - HALF <= WORD - 1 /\ WORD - 1 \in Nat
<1>1. WORD \in Nat /\ WORD >= 2
  BY EvidenceAssumption
<1>2. HALF = WORD \div 2
  BY DEF HALF
<1> QED BY ONLY <1>1, <1>2

LEMMA FieldOrder == R \in Nat /\ R >= 256 /\ power(256, WORD - 1) <= R
<1>1. R \in Nat /\ power(256, WORD - 1) <= R /\ WORD \in Nat /\ WORD >= 2
  BY EvidenceAssumption
<1>2. WORD - 1 \in Nat /\ 1 <= WORD - 1
  BY ONLY <1>1
<1>3. power(256, 1) <= power(256, WORD - 1)
  <2> DEFINE n == WORD - 1  m == 1
  <2>1. n \in Nat /\ m \in Nat /\ m <= n
    BY ONLY <1>2
  <2> HIDE DEF n, m
  <2>2. power(256, m) <= power(256, n)
    BY ONLY <2>1, PowerMonotone, 256 \in Nat, 256 > 0
  <2> QED BY ONLY <2>2 DEF n, m
<1>4. power(256, 1) = 256
  <2>1. power(256, 0) = 1
    BY PowerZero, 256 \in Nat
  <2>2. power(256, 0 + 1) = power(256, 0) * 256
    BY ONLY PowerNext, 256 \in Nat, 0 \in Nat
  <2>3. 0 + 1 = 1 /\ 1 * 256 = 256
    OBVIOUS
  <2> QED BY ONLY <2>1, <2>2, <2>3
<1> DEFINE p == power(256, WORD - 1)
<1>5. p \in Nat
  BY ONLY <1>2, PowerType, 256 \in Nat
<1>6. 256 <= p /\ p <= R
  BY ONLY <1>1, <1>3, <1>4
<1> HIDE DEF p
<1>7. R >= 256
  BY ONLY <1>1, <1>5, <1>6
<1> QED BY ONLY <1>1, <1>7

\* Fewer bytes than a word: packing them loses nothing.
LEMMA PackExact ==
    ASSUME NEW s, Digits(256, s), Len(s) <= WORD - 1
    PROVE  PackBytes(s) = bigEndian(256, s) /\ bigEndian(256, s) \in Nat /\ bigEndian(256, s) < R
<1> DEFINE v == bigEndian(256, s)  p == power(256, Len(s))  q == power(256, WORD - 1)  n == Len(s)
<1>1. n \in Nat
  BY DEF Digits
<1>2. v < p /\ v \in Nat
  BY ONLY Digits(256, s), ValueBound, 256 \in Nat
<1>3. p <= q
  BY ONLY <1>1, Len(s) <= WORD - 1, WordNumbers, PowerMonotone, 256 \in Nat, 256 > 0
<1>4. q <= R /\ R \in Nat
  BY FieldOrder
<1>5. p \in Nat /\ q \in Nat
  BY ONLY <1>1, WordNumbers, PowerType, 256 \in Nat
<1>6. PackBytes(s) = v % R
  BY DEF PackBytes
<1> HIDE DEF v, p, q
<1>7. v < R
  BY ONLY <1>2, <1>3, <1>4, <1>5
<1>8. v % R = v
  BY ONLY <1>2, <1>4, <1>7, SmallMod
<1> QED BY ONLY <1>2, <1>6, <1>7, <1>8 DEF v

LEMMA PackUnique ==
    ASSUME NEW s, Digits(256, s), NEW t, Digits(256, t), Len(s) = Len(t), Len(s) <= WORD - 1,
           PackBytes(s) = PackBytes(t)
    PROVE  s = t
<1>1. PackBytes(s) = bigEndian(256, s) /\ PackBytes(t) = bigEndian(256, t)
  BY PackExact
<1>2. bigEndian(256, s) = bigEndian(256, t)
  BY ONLY <1>1, PackBytes(s) = PackBytes(t)
<1> QED BY ONLY <1>2, Digits(256, s), Digits(256, t), Len(s) = Len(t), ValueUnique, 256 \in Nat

LEMMA BytesAreDigits ==
    ASSUME NEW s \in Seq(Nat), \A i \in 1..Len(s) : s[i] \in Byte
    PROVE  Digits(256, s)
<1>1. \A y \in Byte : y < 256
  BY DEF Byte
<1>2. \A i \in 1..Len(s) : s[i] < 256
  BY ONLY <1>1, \A i \in 1..Len(s) : s[i] \in Byte
<1> QED BY ONLY <1>2, s \in Seq(Nat) DEF Digits

LEMMA PartDigits ==
    ASSUME NEW s, Digits(256, s), NEW a \in Nat, NEW b \in Nat, a <= b, b <= Len(s)
    PROVE  /\ Digits(256, SubSeq(s, a + 1, b)) /\ Len(SubSeq(s, a + 1, b)) = b - a /\ b - a \in Nat
           /\ \A i \in 1..(b - a) : SubSeq(s, a + 1, b)[i] = s[a + i]
<1> DEFINE t == SubSeq(s, a + 1, b)
<1>1. s \in Seq(Nat) /\ \A i \in 1..Len(s) : s[i] < 256
  BY DEF Digits
<1>2. Len(s) \in Nat
  BY ONLY <1>1
<1>3. \A i \in (a + 1)..b : i \in 1..Len(s)
  BY ONLY <1>2, a \in Nat, b \in Nat, b <= Len(s)
<1>4. \A i \in 1..Len(s) : s[i] \in Nat
  BY ONLY <1>1, ElementOfSeq
<1>5. a + 1 \in Int /\ b \in Int /\ \A i \in (a + 1)..b : s[i] \in Nat
  BY ONLY <1>3, <1>4, a \in Nat, b \in Nat
<1> DEFINE c == a + 1
<1>6. /\ t \in Seq(Nat) /\ Len(t) = (IF c <= b THEN b - c + 1 ELSE 0)
      /\ \A i \in 1..(b - c + 1) : t[i] = s[c + i - 1]
  <2> HIDE DEF c
  <2> QED BY ONLY <1>5, SubSeqProperties DEF c
<1> HIDE DEF t
<1>7. Len(t) = b - a /\ b - a \in Nat
  BY ONLY <1>6, a \in Nat, b \in Nat, a <= b
<1>8. ASSUME NEW i \in 1..(b - a) PROVE t[i] = s[a + i] /\ a + i \in 1..Len(s)
  <2>1. i \in 1..(b - c + 1) /\ c + i - 1 = a + i
    BY ONLY a \in Nat, b \in Nat, i \in 1..(b - a)
  <2>2. t[i] = s[c + i - 1]
    BY ONLY <1>6, <2>1
  <2>3. a + i \in 1..Len(s)
    BY ONLY <1>2, a \in Nat, b \in Nat, i \in 1..(b - a), b <= Len(s)
  <2> QED BY ONLY <2>1, <2>2, <2>3
<1>9. \A i \in 1..Len(t) : t[i] < 256
  BY ONLY <1>1, <1>7, <1>8
<1>10. Digits(256, t)
  BY ONLY <1>6, <1>9 DEF Digits
<1> QED BY ONLY <1>7, <1>8, <1>10 DEF t

\* The comparators say what they say of numbers within their size.
LEMMA LessThanMeans ==
    ASSUME NEW size \in Nat, 2 * size < R, NEW a \in Nat, NEW b \in Nat, a <= size, b <= size
    PROVE  LessThan(size, a, b) <=> a < b
<1> DEFINE x == a + size - b
<1>1. x \in Nat /\ x < R
  BY FieldOrder
<1>2. x % R = x
  <2> HIDE DEF x
  <2> QED BY ONLY <1>1, FieldOrder, SmallMod
<1>3. LessThan(size, a, b) <=> (x % R < 2 * size /\ x % R < size)
  BY DEF LessThan
<1>4. (x < 2 * size /\ x < size) <=> a < b
  OBVIOUS
<1> HIDE DEF x
<1> QED BY ONLY <1>2, <1>3, <1>4

LEMMA GreaterEqMeans ==
    ASSUME NEW size \in Nat, 2 * size < R, NEW a \in Nat, NEW b \in Nat, a < size, b <= size
    PROVE  GreaterEqThan(size, a, b) <=> a >= b
<1> DEFINE c == a + 1
<1>1. c \in Nat /\ c <= size
  OBVIOUS
<1>2. LessThan(size, b, c) <=> b < c
  <2> HIDE DEF c
  <2> QED BY <1>1, LessThanMeans
<1>3. GreaterEqThan(size, a, b) <=> LessThan(size, b, c)
  BY DEF GreaterEqThan
<1>4. b < c <=> a >= b
  OBVIOUS
<1> QED BY ONLY <1>2, <1>3, <1>4

LEMMA WordDigits ==
    ASSUME NEW w \in Word
    PROVE  Digits(256, w) /\ Len(w) = WORD
<1>1. WORD \in Nat /\ w \in [1..WORD -> Byte]
  BY WordNumbers DEF Word
<1>2. w \in Seq(Byte) /\ Len(w) = WORD
  BY ONLY <1>1
<1>3. w \in Seq(Nat)
  BY ONLY <1>2, ByteSymbols
<1>4. \A i \in 1..Len(w) : w[i] \in Byte
  BY ONLY <1>1, <1>2
<1> QED BY ONLY <1>2, <1>3, <1>4, BytesAreDigits

\* Bytes and then k zeros.
filled(s, k) == s \o zeros(k)

Extends(t, s, k) ==
    /\ Digits(256, t) /\ Len(t) = Len(s) + k /\ Len(s) \in Nat
    /\ \A i \in 1..Len(s) : t[i] = s[i]
    /\ \A i \in 1..k : t[Len(s) + i] = 0

LEMMA FilledDigits ==
    ASSUME NEW s, Digits(256, s), NEW k \in Nat
    PROVE  Extends(filled(s, k), s, k)
<1> DEFINE z == zeros(k)
<1>1. s \in Seq(Nat) /\ \A i \in 1..Len(s) : s[i] < 256
  BY DEF Digits
<1>2. z \in Seq(Nat) /\ Len(z) = k /\ \A i \in 1..k : z[i] = 0
  BY PowerSymbols
<1> HIDE DEF z
<1>3. /\ s \o z \in Seq(Nat) /\ Len(s \o z) = Len(s) + k /\ Len(s) \in Nat
      /\ \A i \in 1..Len(s) : (s \o z)[i] = s[i]
      /\ \A i \in 1..k : (s \o z)[Len(s) + i] = z[i]
  BY ONLY <1>1, <1>2, Joined
<1> DEFINE t == s \o z  n == Len(s)
<1>4. /\ t \in Seq(Nat) /\ Len(t) = n + k /\ n \in Nat
      /\ \A i \in 1..n : t[i] = s[i] /\ s[i] < 256
      /\ \A i \in 1..k : t[n + i] = 0
  BY ONLY <1>1, <1>2, <1>3
<1> HIDE DEF t, n
<1>5. ASSUME NEW i \in 1..(n + k) PROVE t[i] < 256
  <2>1. i \in 1..n \/ (i - n \in 1..k /\ i = n + (i - n))
    BY ONLY <1>4, k \in Nat, i \in 1..(n + k)
  <2>2. CASE i \in 1..n
    BY ONLY <1>4, <2>2
  <2>3. CASE i - n \in 1..k /\ i = n + (i - n)
    <3>1. t[n + (i - n)] = 0
      BY ONLY <1>4, <2>3
    <3>2. t[i] = 0
      BY ONLY <2>3, <3>1
    <3> QED BY ONLY <3>2
  <2> QED BY ONLY <2>1, <2>2, <2>3
<1>6. Digits(256, t)
  BY ONLY <1>4, <1>5 DEF Digits
<1>7. filled(s, k) = t
  BY DEF t, z, filled
<1>8. Extends(t, s, k)
  BY ONLY <1>4, <1>6 DEF Extends, n
<1> QED BY ONLY <1>7, <1>8

LEMMA FirstDigits ==
    ASSUME NEW s, Digits(256, s), NEW b \in Nat, b <= Len(s)
    PROVE  /\ Digits(256, SubSeq(s, 1, b)) /\ Len(SubSeq(s, 1, b)) = b
           /\ \A i \in 1..b : SubSeq(s, 1, b)[i] = s[i]
<1> DEFINE c == 0
<1>1. c \in Nat /\ c <= b
  OBVIOUS
<1>2. c + 1 = 1 /\ b - c = b /\ \A i \in 1..b : c + i = i
  OBVIOUS
<1> HIDE DEF c
<1>3. /\ Digits(256, SubSeq(s, c + 1, b)) /\ Len(SubSeq(s, c + 1, b)) = b - c
      /\ \A i \in 1..(b - c) : SubSeq(s, c + 1, b)[i] = s[c + i]
  BY ONLY Digits(256, s), b \in Nat, b <= Len(s), <1>1, PartDigits
<1> QED BY ONLY <1>2, <1>3

\* The two limbs determine the word: the property, padded to the width, then zeros.
LEMMA PropertyWord ==
    ASSUME NEW s, Digits(256, s), HALF < Len(s), Len(s) <= WORD, NEW w \in Word, propertyIs(s, w)
    PROVE  w = filled(s, WORD - Len(s))
<1> DEFINE n == Len(s)  k == WORD - n  s1 == SubSeq(s, 1, HALF)  s2 == SubSeq(s, HALF + 1, n)
           w1 == SubSeq(w, 1, HALF)  w2 == SubSeq(w, HALF + 1, WORD)  z == filled(s2, k)  t == filled(s, k)
<1>1. n \in Nat
  BY DEF Digits
<1>2. /\ WORD \in Nat /\ HALF \in Nat /\ HALF <= WORD - 1 /\ WORD - HALF <= WORD - 1 /\ HALF >= 1
  BY WordNumbers
<1>3. k \in Nat /\ n - HALF \in Nat /\ n - HALF <= WORD - 1 /\ HALF <= n /\ HALF <= WORD /\ HALF - 0 = HALF
  <2> HIDE DEF n
  <2>1. HALF < n /\ n <= WORD
    BY DEF n
  <2> QED BY ONLY <1>1, <1>2, <2>1
<1>4. Digits(256, w) /\ Len(w) = WORD
  BY WordDigits
<1>5. /\ PackBytes(s1) = PackBytes(w1)
      /\ (PackBytes(s2) * power(256, k)) % R = PackBytes(w2)
  <2>1. limbs(w)[1] = PackBytes(w1) /\ limbs(w)[2] = PackBytes(w2)
    BY DEF limbs
  <2> QED BY <2>1 DEF propertyIs
<1>6. /\ Digits(256, s1) /\ Len(s1) = HALF /\ \A i \in 1..HALF : s1[i] = s[i]
      /\ Digits(256, w1) /\ Len(w1) = HALF /\ \A i \in 1..HALF : w1[i] = w[i]
  <2>1. HALF \in Nat /\ HALF <= Len(s)
    BY ONLY <1>2, <1>3
  <2>2. HALF \in Nat /\ HALF <= Len(w)
    BY ONLY <1>2, <1>3, <1>4
  <2>3. Digits(256, s1) /\ Len(s1) = HALF /\ \A i \in 1..HALF : s1[i] = s[i]
    BY ONLY <2>1, Digits(256, s), FirstDigits
  <2>4. Digits(256, w1) /\ Len(w1) = HALF /\ \A i \in 1..HALF : w1[i] = w[i]
    BY ONLY <2>2, <1>4, FirstDigits
  <2> QED BY ONLY <2>3, <2>4
<1>7. /\ Digits(256, s2) /\ Len(s2) = n - HALF /\ \A i \in 1..(n - HALF) : s2[i] = s[HALF + i]
  BY ONLY Digits(256, s), <1>1, <1>2, <1>3, PartDigits
<1>8. /\ Digits(256, w2) /\ Len(w2) = WORD - HALF /\ \A i \in 1..(WORD - HALF) : w2[i] = w[HALF + i]
  BY ONLY <1>2, <1>3, <1>4, PartDigits
<1>15. k = WORD - n /\ k \in Nat
  BY ONLY <1>3
<1> HIDE DEF s1, s2, w1, w2, k
<1>9. s1 = w1
  BY ONLY <1>2, <1>5, <1>6, PackUnique
<1>10. /\ Digits(256, z) /\ Len(z) = Len(s2) + k
       /\ \A i \in 1..Len(s2) : z[i] = s2[i]
       /\ \A i \in 1..k : z[Len(s2) + i] = 0
  <2>1. Digits(256, s2) /\ k \in Nat
    BY ONLY <1>7, <1>15
  <2>2. Extends(z, s2, k)
    BY ONLY <2>1, FilledDigits
  <2> QED BY ONLY <2>2 DEF Extends
<1>11. /\ Len(t) = n + k /\ Digits(256, t)
       /\ \A i \in 1..n : t[i] = s[i]
       /\ \A i \in 1..k : t[n + i] = 0
  <2>1. Digits(256, s) /\ k \in Nat
    BY ONLY Digits(256, s), <1>15
  <2>2. Extends(t, s, k)
    BY ONLY <2>1, FilledDigits
  <2> QED BY ONLY <2>2 DEF Extends
<1>12. Len(z) = WORD - HALF
  <2> HIDE DEF z, n
  <2> QED BY ONLY <1>1, <1>2, <1>7, <1>10, <1>15
<1>13. bigEndian(256, z) = bigEndian(256, w2)
  <2> DEFINE a == bigEndian(256, s2)  b == bigEndian(256, z)  p == power(256, k)
  <2>1. PackBytes(s2) = a
    BY ONLY <1>3, <1>7, PackExact
  <2>2. s2 \in Seq(Nat)
    BY ONLY <1>7 DEF Digits
  <2>3. b = a * p
    BY ONLY <1>15, <2>2, ValueShift, 256 \in Nat DEF filled
  <2>4. Len(z) <= WORD - 1 /\ Len(w2) <= WORD - 1
    <3> HIDE DEF z
    <3> QED BY ONLY <1>2, <1>8, <1>12
  <2>5. PackBytes(w2) = bigEndian(256, w2)
    BY ONLY <1>8, <2>4, PackExact
  <2>6. b \in Nat /\ b < R
    <3> HIDE DEF z
    <3> QED BY ONLY <1>10, <2>4, PackExact
  <2>7. b % R = b
    <3> HIDE DEF b
    <3> QED BY ONLY <2>6, FieldOrder, SmallMod
  <2>8. (a * p) % R = PackBytes(w2)
    BY ONLY <1>5, <2>1
  <2> HIDE DEF a, b, p
  <2>9. b = bigEndian(256, w2)
    BY ONLY <2>3, <2>5, <2>7, <2>8
  <2> QED BY ONLY <2>9 DEF b
<1>14. z = w2
  <2> HIDE DEF z
  <2> QED BY ONLY <1>8, <1>10, <1>12, <1>13, ValueUnique, 256 \in Nat
<1> HIDE DEF z, t, n
<1>18. HALF < n
  BY DEF n
<1>16. ASSUME NEW i \in 1..WORD PROVE w[i] = t[i]
  <2>1. \/ i \in 1..HALF
        \/ i - HALF \in 1..(n - HALF) /\ HALF + (i - HALF) = i /\ i \in 1..n /\ i - HALF \in 1..(WORD - HALF)
        \/ /\ i - n \in 1..k /\ n + (i - n) = i /\ i - HALF \in 1..(WORD - HALF)
           /\ HALF + (i - HALF) = i /\ i - HALF = (n - HALF) + (i - n)
    BY ONLY <1>1, <1>2, <1>15, <1>18, i \in 1..WORD
  <2>2. CASE i \in 1..HALF
    <3>1. i \in 1..n
      BY ONLY <1>1, <1>2, <1>18, <2>2
    <3> QED BY ONLY <1>6, <1>9, <1>11, <2>2, <3>1
  <2>3. CASE i - HALF \in 1..(n - HALF) /\ HALF + (i - HALF) = i /\ i \in 1..n /\ i - HALF \in 1..(WORD - HALF)
    <3> DEFINE j == i - HALF
    <3>1. j \in 1..(n - HALF) /\ HALF + j = i /\ i \in 1..n /\ j \in 1..(WORD - HALF)
      BY ONLY <2>3
    <3> HIDE DEF j
    <3>2. w2[j] = w[i] /\ z[j] = s2[j] /\ s2[j] = s[i] /\ t[i] = s[i]
      BY ONLY <1>7, <1>8, <1>10, <1>11, <3>1
    <3> QED BY ONLY <1>14, <3>2
  <2>4. CASE /\ i - n \in 1..k /\ n + (i - n) = i /\ i - HALF \in 1..(WORD - HALF)
             /\ HALF + (i - HALF) = i /\ i - HALF = (n - HALF) + (i - n)
    <3> DEFINE j == i - HALF  m == i - n
    <3>1. m \in 1..k /\ n + m = i /\ j \in 1..(WORD - HALF) /\ HALF + j = i /\ j = (n - HALF) + m
      BY ONLY <2>4
    <3> HIDE DEF j, m
    <3>2. t[n + m] = 0
      BY ONLY <1>11, <3>1
    <3>3. z[Len(s2) + m] = 0
      BY ONLY <1>10, <3>1
    <3>4. w2[j] = w[HALF + j]
      BY ONLY <1>8, <3>1
    <3> QED BY ONLY <1>7, <1>14, <3>1, <3>2, <3>3, <3>4
  <2> QED BY ONLY <2>1, <2>2, <2>3, <2>4
<1>17. w = t
  <2>1. w \in Seq(Nat) /\ t \in Seq(Nat)
    BY ONLY <1>4, <1>11 DEF Digits
  <2>2. Len(t) = WORD
    BY ONLY <1>1, <1>2, <1>11, <1>15
  <2> QED BY ONLY <1>4, <1>16, <2>1, <2>2, SeqEqual
<1> QED BY ONLY <1>17 DEF t, k, n

LEMMA PadDigits ==
    ASSUME NEW l, l.padding \in Text, Len(l.padding) = 1, NEW x, NEW w \in Nat, Fitting(x, w)
    PROVE  Digits(256, pad(l, x, w)) /\ Len(pad(l, x, w)) = w
<1> DEFINE t == pad(l, x, w)
<1>1. t \in Seq(Nat) /\ Len(t) = w /\ \A i \in 1..w : t[i] \in Byte
  BY PadType
<1> HIDE DEF t
<1>2. \A i \in 1..Len(t) : t[i] \in Byte
  BY ONLY <1>1
<1>3. Digits(256, t)
  BY ONLY <1>1, <1>2, BytesAreDigits
<1> QED BY ONLY <1>1, <1>3 DEF t

LEMMA EmptyPad ==
    ASSUME NEW l, l.padding \in Text, Len(l.padding) = 1, NEW w \in Nat, w > 0
    PROVE  pad(l, <<>>, w)[1] = l.padding[1]
<1>1. <<>> \in Text /\ Len(<<>>) = 0
  BY DEF Text
<1>2. Fitting(<<>>, w)
  BY <1>1 DEF Fitting
<1>3. 1 \in 1..w /\ 1 > 0
  OBVIOUS
<1>4. \A i \in 1..w : i > Len(<<>>) => pad(l, <<>>, w)[i] = l.padding[1]
  BY <1>2, PadType
<1> QED BY ONLY <1>1, <1>3, <1>4

\* What a digit is to the circuit, it is.
LEMMA DigitMeans ==
    ASSUME NEW b \in Byte
    PROVE  (Digit(b) < 16 /\ LessThan(16, Digit(b), 10)) <=> (Digit(b) \in Nat /\ Digit(b) < 10)
<1> DEFINE d == Digit(b)
<1>1. R \in Nat /\ R >= 256
  BY FieldOrder
<1>2. b - Zero \in Int /\ d = (b - Zero) % R
  BY DEF Byte, Zero, Digit
<1>3. d \in Nat
  <2> DEFINE c == b - Zero
  <2>1. c \in Int /\ d = c % R
    BY ONLY <1>2
  <2> HIDE DEF c, d
  <2> QED BY ONLY <1>1, <2>1
<1> HIDE DEF d
<1>4. d < 16 => (LessThan(16, d, 10) <=> d < 10)
  <2> SUFFICES ASSUME d < 16 PROVE LessThan(16, d, 10) <=> d < 10
    OBVIOUS
  <2>1. 16 \in Nat /\ 2 * 16 < R /\ 10 \in Nat /\ d <= 16 /\ 10 <= 16
    BY ONLY <1>1, <1>3, d < 16
  <2> QED BY ONLY <1>3, <2>1, LessThanMeans
<1>5. d < 10 => d < 16
  BY ONLY <1>3
<1> QED BY ONLY <1>3, <1>4, <1>5 DEF d

LEMMA DecimalBound ==
    ASSUME NEW s \in Seq(Nat), \A i \in 1..Len(s) : s[i] \in Byte, IsDecimal(s)
    PROVE  DecimalValue(s) \in Nat /\ DecimalValue(s) < power(10, Len(s))
<1> DEFINE n == Len(s)  t == [i \in 1..n |-> Digit(s[i])]
<1>1. n \in Nat /\ DOMAIN s = 1..n
  OBVIOUS
<1>2. \A i \in 1..n : Digit(s[i]) \in Nat /\ Digit(s[i]) < 10
  <2> TAKE i \in 1..n
  <2>1. s[i] \in Byte /\ Digit(s[i]) < 16 /\ LessThan(16, Digit(s[i]), 10)
    BY <1>1 DEF IsDecimal
  <2> QED BY ONLY <2>1, DigitMeans
<1>3. t \in Seq(Nat) /\ Len(t) = n /\ \A i \in 1..n : t[i] < 10
  <2> DEFINE q(i) == Digit(s[i])
  <2>1. \A i \in 1..n : q(i) \in Nat /\ q(i) < 10
    BY ONLY <1>2
  <2>2. t = [i \in 1..n |-> q(i)]
    OBVIOUS
  <2> HIDE DEF q, t, n
  <2> QED BY ONLY <1>1, <2>1, <2>2
<1>4. DecimalValue(s) = bigEndian(10, t)
  BY DEF DecimalValue
<1> HIDE DEF t
<1>5. Digits(10, t)
  BY ONLY <1>3 DEF Digits
<1>6. bigEndian(10, t) < power(10, Len(t)) /\ bigEndian(10, t) \in Nat
  BY ONLY <1>5, ValueBound, 10 \in Nat
<1> QED BY ONLY <1>3, <1>4, <1>6

\* A number that was padded would not be a number: it fills its field.
LEMMA DecimalFills ==
    ASSUME NEW l, l.padding \in Text, Len(l.padding) = 1, ~ IsDecimal(l.padding),
           NEW x, NEW w \in Nat, Fitting(x, w), IsDecimal(pad(l, x, w))
    PROVE  pad(l, x, w) = x /\ Len(x) = w
<1> DEFINE t == pad(l, x, w)  n == Len(x)  p == l.padding
<1>1. /\ t \in Seq(Nat) /\ Len(t) = w
      /\ \A i \in 1..n : t[i] = x[i]
      /\ \A i \in 1..w : i > n => t[i] = p[1]
  BY PadType
<1>2. n \in Nat /\ n <= w /\ x \in Text
  BY DEF Fitting, Text
<1>3. n = w
  <2> SUFFICES ASSUME n < w PROVE FALSE
    <3> HIDE DEF n
    <3> QED BY <1>2
  <2>1. w \in 1..w /\ w > n
    BY ONLY <1>2, n < w, w \in Nat
  <2>2. t[w] = p[1] /\ w \in DOMAIN t
    <3> HIDE DEF t, n
    <3> QED BY ONLY <1>1, <2>1
  <2>3. Digit(p[1]) < 16 /\ LessThan(16, Digit(p[1]), 10)
    <3>1. Digit(t[w]) < 16 /\ LessThan(16, Digit(t[w]), 10)
      BY ONLY <2>2, IsDecimal(pad(l, x, w)) DEF IsDecimal
    <3> QED BY ONLY <2>2, <3>1
  <2>4. DOMAIN p = 1..1
    BY DEF Text
  <2>5. \A i \in 1..1 : i = 1
    OBVIOUS
  <2>6. IsDecimal(p)
    <3> HIDE DEF p
    <3> QED BY ONLY <2>3, <2>4, <2>5 DEF IsDecimal
  <2> QED BY ONLY <2>6, ~ IsDecimal(l.padding)
<1>4. x \in Seq(Nat)
  BY ONLY <1>2, ByteSymbols DEF Text
<1> HIDE DEF t, n
<1>5. t = x
  BY ONLY <1>1, <1>3, <1>4, SeqEqual DEF n
<1> QED BY ONLY <1>3, <1>5 DEF t, n

-----------------------------------------------------------------------------
(* What is signed is true.                                                 *)

LEMMA OwnerSigned ==
    ASSUME EInv
    PROVE  SignedOwner
<1> SUFFICES ASSUME accepted # NoLayout, accepted.phase = "register"
             PROVE  /\ layout = PolicyLayout["register"]
                    /\ ~ same(view.account, <<>>, layout.account_width)
                    /\ \E k \in DOMAIN view.owners : same(view.owners[k], view.account, layout.account_width)
                    /\ accepted.property = word(layout, view.property_id, layout.property_id_width)
  BY DEF SignedOwner, signed
<1> DEFINE l == layout  w == l.account_width  a == accountOf(l, view)  n == l.owner_slots
           owners == read(shape.hidden[2])  pr == propertyOf(l, view)  m == l.property_id_width
<1>1. /\ answered /\ LayoutInv /\ layout = PolicyLayout["register"]
      /\ PhiR(l, read(shape.hidden[1]), owners, read(shape.hidden[3]), accepted.property)
  BY SignedRegister
<1>2. LoadedTitle(l)
  BY <1>1, PolicyLoaded
<1>3. TitleState
  <2>1. l.kind = "title"
    BY <1>2, TitleNumbers
  <2>2. RecordState => l.kind = "record"
    BY RecordNumbers DEF RecordState
  <2> QED BY <1>1, <2>1, <2>2, Rendered
<1>4. /\ l.padding \in Text /\ Len(l.padding) = 1 /\ l.kind = "title" /\ w \in Nat /\ w > 0
      /\ n \in Nat /\ n > 0 /\ m \in Nat
  BY <1>2, TitleNumbers
<1>5. /\ Fitting(view.account, w) /\ Fitting(view.property_id, m)
      /\ \A k \in 1..n : Fitting(owner(view, k), w)
  BY <1>3 DEF TitleState, TitleFits
<1>6. ofTitle
  BY <1>4 DEF ofTitle
<1>7. ReadersFindValues /\ CircuitFindsOwners
  BY <1>1, LayoutInvReads DEF ReadersAgree
<1>8. read(shape.hidden[1]) = a /\ read(shape.hidden[3]) = pr
  BY <1>1, <1>6, <1>7 DEF ReadersFindValues, accountOf, propertyOf
<1>9. owner_stride(layout, shape) = w + 3 /\ \A k \in 0..(n - 1) :
        SubSeq(owners, k * (w + 3) + 1, k * (w + 3) + w) = pad(l, owner(view, k + 1), w)
  BY <1>1, <1>6, <1>7 DEF CircuitFindsOwners
<1>10. PhiR(l, a, owners, pr, accepted.property)
  BY ONLY <1>1, <1>8
<1>11. /\ a[1] # l.padding[1] /\ propertyIs(pr, accepted.property)
       /\ \E k \in 0..(n - 1) :
            PackBytes(SubSeq(owners, k * (w + 3) + 1, k * (w + 3) + w)) = PackBytes(a)
  BY ONLY <1>10 DEF PhiR, notEmpty
<1>12. PICK k \in 0..(n - 1) : PackBytes(pad(l, owner(view, k + 1), w)) = PackBytes(a)
  <2> HIDE DEF owners, a, n, w
  <2> QED BY ONLY <1>9, <1>11
<1>13. k + 1 \in 1..n
  <2> HIDE DEF n
  <2> QED BY ONLY <1>4, k \in 0..(n - 1)
<1> DEFINE j == k + 1  o == pad(l, owner(view, j), w)
<1>14. Digits(256, o) /\ Len(o) = w /\ Digits(256, a) /\ Len(a) = w
  <2>1. Fitting(owner(view, j), w)
    BY ONLY <1>5, <1>13
  <2> HIDE DEF j
  <2> QED BY ONLY <1>4, <1>5, <2>1, PadDigits DEF accountOf, o
<1>15. w <= WORD - 1
  <2>1. w < WORD /\ WORD \in Nat
    BY <1>1, CircuitAssumption, EvidenceAssumption DEF main_circom
  <2> HIDE DEF w
  <2> QED BY ONLY <1>4, <2>1
<1>16. o = a
  <2>1. PackBytes(o) = PackBytes(a)
    BY ONLY <1>12
  <2> HIDE DEF o, a
  <2> QED BY ONLY <1>14, <1>15, <2>1, PackUnique
<1>17. pad(l, <<>>, w)[1] = l.padding[1]
  BY ONLY <1>4, EmptyPad
<1>18. ~ same(view.account, <<>>, w)
  BY ONLY <1>11, <1>17 DEF same, accountOf
<1>19. j \in DOMAIN view.owners /\ owner(view, j) = view.owners[j]
  <2>1. CASE j \notin DOMAIN view.owners
    <3>1. owner(view, j) = <<>>
      BY ONLY <2>1 DEF owner
    <3>2. a[1] = l.padding[1]
      BY ONLY <1>16, <1>17, <3>1
    <3> QED BY ONLY <1>11, <3>2
  <2>2. CASE j \in DOMAIN view.owners
    BY ONLY <2>2 DEF owner
  <2> QED BY ONLY <2>1, <2>2
<1>20. same(view.owners[j], view.account, w)
  BY ONLY <1>16, <1>19 DEF same, accountOf
<1>21. accepted.property = word(l, view.property_id, m)
  <2>1. accepted.property \in Word
    <3>1. accepted \in Claim
      BY Signed, EvidenceAssumption
    <3> QED BY ONLY <3>1, accepted.phase = "register" DEF Claim
  <2>2. Digits(256, pr) /\ Len(pr) = m
    BY ONLY <1>4, <1>5, PadDigits DEF propertyOf
  <2>3. HALF < m /\ m <= WORD
    BY <1>1, CircuitAssumption DEF main_circom
  <2>4. accepted.property = filled(pr, WORD - m)
    <3> DEFINE q == accepted.property
    <3>1. q \in Word /\ propertyIs(pr, q)
      BY ONLY <1>11, <2>1
    <3> HIDE DEF q, pr, m
    <3>2. q = filled(pr, WORD - Len(pr))
      BY ONLY <2>2, <2>3, <3>1, PropertyWord
    <3> QED BY ONLY <2>2, <3>2 DEF q
  <2> QED BY ONLY <2>4 DEF word, filled, zeros, propertyOf
<1>22. \E i \in DOMAIN view.owners : same(view.owners[i], view.account, w)
  BY ONLY <1>19, <1>20
<1> QED BY ONLY <1>1, <1>18, <1>21, <1>22

\* No product of the policy's sizes reaches the order of the field.
LEMMA IncomeSizes ==
    ASSUME NEW amount \in Nat, amount < AMOUNT_SIZE
    PROVE  /\ MULTIPLE * amount \in Nat /\ MULTIPLE * amount <= CMP_SIZE /\ CMP_SIZE \in Nat /\ 2 * CMP_SIZE < R
           /\ (MULTIPLE * (amount % R)) % R = MULTIPLE * amount /\ amount % R = amount
           /\ power(10, PolicyLayout["apply"].fields[1].width) < CMP_SIZE
<1> DEFINE u == MULTIPLE  s == AMOUNT_SIZE  c == CMP_SIZE  x == u * amount  y == u * s
<1>1. u \in Nat /\ s \in Nat /\ c \in Nat /\ R \in Nat
  BY EvidenceAssumption
<1>2. u > 0 /\ y < c /\ 2 * c < R /\ power(10, PolicyLayout["apply"].fields[1].width) < c
  BY CircuitAssumption DEF main_circom_phi_a
<1>3. amount * u <= s * u /\ amount * u \in Nat /\ s * u \in Nat
  <2>1. amount <= s
    BY ONLY <1>1, amount \in Nat, amount < AMOUNT_SIZE
  <2> HIDE DEF u, s
  <2> QED BY ONLY <1>1, <2>1, amount \in Nat, Multiples
<1>4. 1 * s <= u * s
  <2>1. 1 \in Nat /\ 1 <= u
    BY ONLY <1>1, <1>2
  <2> HIDE DEF u, s
  <2> QED BY ONLY <1>1, <2>1, Multiples
<1>5. x <= y /\ x \in Nat /\ y \in Nat /\ s <= y
  <2> HIDE DEF u, s
  <2>1. x = amount * u /\ y = s * u /\ 1 * s = s
    BY ONLY <1>1, amount \in Nat
  <2> QED BY ONLY <1>3, <1>4, <2>1
<1> HIDE DEF u, s, c, x, y
<1>6. amount < R /\ x < R /\ x <= c
  <2>1. amount < s
    BY DEF s
  <2> QED BY ONLY <1>1, <1>2, <1>5, <2>1, amount \in Nat
<1>7. amount % R = amount
  BY ONLY <1>1, <1>6, amount \in Nat, SmallMod
<1>8. x % R = x
  BY ONLY <1>1, <1>5, <1>6, SmallMod
<1>9. (u * (amount % R)) % R = x
  BY ONLY <1>7, <1>8 DEF x
<1> QED BY ONLY <1>1, <1>2, <1>5, <1>6, <1>7, <1>9 DEF u, c, x

LEMMA CommitmentIs ==
    ASSUME NEW cB \in Commitment, field_element(cB), NEW id, id = cB.id
    PROVE  cB = Poseidon(id, cB.salt, 0) /\ cB.wraps = 0
<1>1. cB.wraps = 0
  BY DEF field_element
<1>2. cB = [id |-> cB.id, salt |-> cB.salt, wraps |-> cB.wraps]
  BY DEF Commitment
<1> QED BY <1>1, <1>2 DEF Poseidon

\* What a circuit that compares a number reads of a record.
LEMMA RecordNumber ==
    ASSUME RecordState, NEW p \in {"apply", "settle"}, layout = PolicyLayout[p], NEW i \in 1..Len(layout.fields),
           IsDecimal(valueOf(layout, view, i))
    PROVE  /\ valueOf(layout, view, i) = view.values[i] /\ Len(view.values[i]) = layout.fields[i].width
           /\ DecimalValue(view.values[i]) \in Nat
           /\ DecimalValue(view.values[i]) < power(10, layout.fields[i].width)
<1> DEFINE v == valueOf(layout, view, i)  x == view.values[i]  w == layout.fields[i].width
<1>1. LoadedRecord(layout) /\ RecordFits(layout, view)
  BY DEF RecordState
<1>2. layout.padding \in Text /\ Len(layout.padding) = 1 /\ w \in Nat
  BY <1>1, RecordNumbers
<1>3. Fitting(x, w)
  BY <1>1 DEF RecordFits
<1>4. ~ IsDecimal(layout.padding)
  BY EvidenceAssumption DEF Phases
<1>5. v = pad(layout, x, w)
  BY DEF valueOf
<1>6. v \in Seq(Nat) /\ Len(v) = w /\ \A n \in 1..Len(v) : v[n] \in Byte
  BY <1>1, RecordPads
<1> HIDE DEF v, x, w
<1>7. IsDecimal(v)
  BY DEF v
<1>8. IsDecimal(pad(layout, x, w))
  BY ONLY <1>5, <1>7
<1>9. pad(layout, x, w) = x /\ Len(x) = w
  BY ONLY <1>2, <1>3, <1>4, <1>8, DecimalFills
<1>10. DecimalValue(v) \in Nat /\ DecimalValue(v) < power(10, Len(v))
  BY ONLY <1>6, <1>7, DecimalBound
<1>11. v = x
  BY ONLY <1>5, <1>9
<1> QED BY ONLY <1>6, <1>9, <1>10, <1>11 DEF v, x, w

LEMMA IncomeSigned ==
    ASSUME EInv, accepted # NoLayout, accepted.phase = "apply"
    PROVE  /\ layout = PolicyLayout["apply"]
           /\ PackBytes(accountOf(layout, view)) = accepted.cB.id
           /\ accepted.cB \in Commitment /\ field_element(accepted.cB)
           /\ DecimalValue(view.values[1]) >= MULTIPLE * accepted.amount
<1> DEFINE l == layout  m == accepted.amount  v == valueOf(l, view, 1)  d == DecimalValue(view.values[1])
           c == CMP_SIZE  x == MULTIPLE * m
<1>1. /\ layout = PolicyLayout["apply"] /\ RecordState /\ amountFits(m) /\ field_element(accepted.cB)
      /\ PhiA(l, accountOf(l, view), v, accepted.cB, m)
  BY SignedApply
<1>2. /\ PackBytes(accountOf(l, view)) = accepted.cB.id /\ IsDecimal(v) /\ enough(v, m)
  BY ONLY <1>1 DEF PhiA
<1>3. m \in Nat /\ accepted.cB \in Commitment
  <2>1. accepted \in Claim
    BY Signed, EvidenceAssumption
  <2> QED BY ONLY <2>1, accepted.phase = "apply" DEF Claim
<1>4. 1 \in 1..Len(l.fields)
  <2>1. Len(l.fields) = 1
    BY <1>1, PolicyFields
  <2> QED BY ONLY <2>1
<1>5. v = view.values[1] /\ d \in Nat /\ d < power(10, l.fields[1].width)
  <2>1. "apply" \in {"apply", "settle"}
    OBVIOUS
  <2> QED BY ONLY <1>1, <1>2, <1>4, <2>1, RecordNumber
<1>6. m < AMOUNT_SIZE
  BY ONLY <1>1 DEF amountFits
<1>7. /\ x \in Nat /\ x <= c /\ c \in Nat /\ 2 * c < R /\ (MULTIPLE * (m % R)) % R = x
      /\ power(10, l.fields[1].width) < c
  <2>1. /\ x \in Nat /\ x <= c /\ c \in Nat /\ 2 * c < R /\ (MULTIPLE * (m % R)) % R = x
        /\ power(10, PolicyLayout["apply"].fields[1].width) < c
    BY ONLY <1>3, <1>6, IncomeSizes
  <2> QED BY ONLY <1>1, <2>1
<1>8. d < c
  <2> DEFINE z == power(10, l.fields[1].width)
  <2>1. z \in Nat
    <3>1. l.fields[1].width \in Nat
      BY <1>1, <1>4, RecordNumbers DEF RecordState
    <3> QED BY ONLY <3>1, PowerType, 10 \in Nat
  <2>2. d < z /\ z < c /\ d \in Nat /\ c \in Nat
    BY ONLY <1>5, <1>7
  <2> HIDE DEF z, d, c
  <2> QED BY ONLY <2>1, <2>2
<1>9. GreaterEqThan(c, d, x)
  <2>1. GreaterEqThan(CMP_SIZE, DecimalValue(v), (MULTIPLE * (m % R)) % R)
    BY ONLY <1>2 DEF enough
  <2> QED BY ONLY <1>5, <1>7, <2>1
<1> HIDE DEF d, c, x
<1>10. d >= x
  BY ONLY <1>5, <1>7, <1>8, <1>9, GreaterEqMeans
<1> QED BY ONLY <1>1, <1>2, <1>3, <1>10 DEF d, x

LEMMA TenancySigned ==
    ASSUME EInv, accepted # NoLayout, accepted.phase = "settle"
    PROVE  /\ layout = PolicyLayout["settle"]
           /\ accepted.property = word(layout, view.values[1], layout.fields[1].width)
           /\ PackBytes(pad(layout, view.values[2], layout.account_width)) = accepted.cB.id
           /\ accepted.cB \in Commitment /\ field_element(accepted.cB)
           /\ DecimalValue(view.values[3]) >= accepted.day /\ isDay(view.values[3])
<1> DEFINE l == layout  v(i) == valueOf(l, view, i)  d == DecimalValue(view.values[3])  y == accepted.day
           c == DAY_SIZE  m == l.fields[1].width  q == accepted.property
<1>1. /\ layout = PolicyLayout["settle"] /\ RecordState /\ dayFits(y) /\ field_element(accepted.cB)
      /\ PhiS(l, v(1), v(2), v(3), q, accepted.cB, y)
  BY SignedSettle
<1>2. /\ propertyIs(v(1), q) /\ PackBytes(v(2)) = accepted.cB.id /\ IsDecimal(v(3))
      /\ GreaterEqThan(c, DecimalValue(v(3)), y % R)
  BY ONLY <1>1 DEF PhiS
<1>3. y \in Nat /\ accepted.cB \in Commitment /\ q \in Word
  <2>1. accepted \in Claim
    BY Signed, EvidenceAssumption
  <2> QED BY ONLY <2>1, accepted.phase = "settle" DEF Claim
<1>4. 1 \in 1..Len(l.fields) /\ 2 \in 1..Len(l.fields) /\ 3 \in 1..Len(l.fields)
  <2>1. Len(l.fields) = 3
    BY <1>1, PolicyFields
  <2> QED BY ONLY <2>1
<1>5. l.fields[2].width = l.account_width /\ l.fields[3].width = 1 /\ HALF < m /\ m <= WORD
  BY <1>1, CircuitAssumption DEF main_circom_phi_s
<1>6. v(3) = view.values[3] /\ Len(view.values[3]) = 1 /\ d \in Nat /\ d < power(10, 1)
  <2>1. "settle" \in {"apply", "settle"}
    OBVIOUS
  <2>2. /\ v(3) = view.values[3] /\ Len(view.values[3]) = l.fields[3].width /\ d \in Nat
        /\ d < power(10, l.fields[3].width)
    BY ONLY <1>1, <1>2, <1>4, <2>1, RecordNumber
  <2> QED BY ONLY <1>5, <2>2
<1>7. power(10, 1) = 10
  <2>1. power(10, 0) = 1
    BY PowerZero, 10 \in Nat
  <2>2. power(10, 0 + 1) = power(10, 0) * 10
    BY ONLY PowerNext, 10 \in Nat, 0 \in Nat
  <2>3. 0 + 1 = 1 /\ 1 * 10 = 10
    OBVIOUS
  <2> QED BY ONLY <2>1, <2>2, <2>3
<1>8. y < c /\ c = 16
  BY ONLY <1>1 DEF dayFits, DAY_SIZE
<1>9. y % R = y
  <2>1. y < R
    BY ONLY <1>3, <1>8, FieldOrder
  <2> QED BY ONLY <1>3, <2>1, FieldOrder, SmallMod
<1>10. d >= y
  <2>1. GreaterEqThan(c, d, y)
    BY ONLY <1>2, <1>6, <1>9
  <2>2. d \in Nat /\ d < c /\ y <= c /\ c \in Nat /\ 2 * c < R
    <3> HIDE DEF d, y, c
    <3> QED BY ONLY <1>3, <1>6, <1>7, <1>8, FieldOrder
  <2> HIDE DEF d, y, c
  <2> QED BY ONLY <1>3, <2>1, <2>2, GreaterEqMeans
<1>11. isDay(view.values[3])
  BY ONLY <1>2, <1>6 DEF isDay
<1>12. q = word(l, view.values[1], m)
  <2>0. LoadedRecord(l) /\ RecordFits(l, view)
    BY <1>1 DEF RecordState
  <2>1. l.padding \in Text /\ Len(l.padding) = 1 /\ m \in Nat /\ Fitting(view.values[1], m)
    BY <1>4, <2>0, RecordNumbers DEF RecordFits
  <2>2. Digits(256, v(1)) /\ Len(v(1)) = m
    BY ONLY <2>1, PadDigits DEF valueOf
  <2> DEFINE pr == v(1)
  <2>3. propertyIs(pr, q) /\ Digits(256, pr) /\ Len(pr) = m
    BY ONLY <1>2, <2>2
  <2>4. q = filled(pr, WORD - m)
    <3> HIDE DEF q, pr, m
    <3>1. q = filled(pr, WORD - Len(pr))
      BY ONLY <1>3, <1>5, <2>3, PropertyWord
    <3> QED BY ONLY <2>3, <3>1
  <2> QED BY ONLY <2>4 DEF word, filled, zeros, valueOf
<1>13. PackBytes(pad(l, view.values[2], l.account_width)) = accepted.cB.id
  BY ONLY <1>2, <1>5 DEF valueOf
<1> QED BY ONLY <1>1, <1>3, <1>10, <1>11, <1>12, <1>13

LEMMA MockSigned ==
    ASSUME EInv
    PROVE  SignedIncome /\ SignedTenancy /\ MockSignsToo
<1> DEFINE x == accepted
<1>1. CASE x # NoLayout /\ x.phase = "apply"
  <2>1. /\ layout = PolicyLayout["apply"] /\ PackBytes(pad(layout, view.account, layout.account_width)) = x.cB.id
        /\ x.cB \in Commitment /\ field_element(x.cB)
        /\ DecimalValue(view.values[1]) >= MULTIPLE * x.amount
    BY <1>1, IncomeSigned DEF accountOf
  <2>2. x.cB = Poseidon(PackBytes(pad(layout, view.account, layout.account_width)), x.cB.salt, 0) /\ x.cB.wraps = 0
    BY ONLY <2>1, CommitmentIs
  <2>3. x.phase # "settle" /\ ~ signed("settle")
    BY <1>1 DEF signed
  <2>4. mockSigns(x)
    BY ONLY <1>1, <2>1, <2>2 DEF mockSigns
  <2> QED BY ONLY <2>1, <2>2, <2>3, <2>4 DEF SignedIncome, SignedTenancy, MockSignsToo
<1>2. CASE x # NoLayout /\ x.phase = "settle"
  <2>1. /\ layout = PolicyLayout["settle"] /\ x.property = word(layout, view.values[1], layout.fields[1].width)
        /\ PackBytes(pad(layout, view.values[2], layout.account_width)) = x.cB.id
        /\ x.cB \in Commitment /\ field_element(x.cB)
        /\ DecimalValue(view.values[3]) >= x.day /\ isDay(view.values[3])
    BY <1>2, TenancySigned
  <2>2. x.cB = Poseidon(PackBytes(pad(layout, view.values[2], layout.account_width)), x.cB.salt, 0) /\ x.cB.wraps = 0
    BY ONLY <2>1, CommitmentIs
  <2>3. ~ signed("apply")
    BY <1>2 DEF signed
  <2>4. mockSigns(x)
    BY ONLY <1>2, <2>1, <2>2 DEF mockSigns
  <2> QED BY ONLY <2>1, <2>2, <2>3, <2>4 DEF SignedIncome, SignedTenancy, MockSignsToo
<1>3. CASE x = NoLayout \/ x.phase = "register"
  BY ONLY <1>3 DEF SignedIncome, SignedTenancy, MockSignsToo, signed
<1>4. x # NoLayout => x.phase \in Phases
  BY Signed
<1> QED BY <1>1, <1>2, <1>3, <1>4 DEF Phases

-----------------------------------------------------------------------------
(* The converse: a prover who commits to the layout's ranges, and is         *)
(* entitled, is signed.                                                     *)

\* The ranges to commit to are ranges, and no two are the same.
LEMMA HiddenRanges ==
    ASSUME LayoutInv, answered
    PROVE  /\ \A i \in DOMAIN shape.hidden : shape.hidden[i] \in Ranges /\ shape.hidden[i].start <= shape.hidden[i].end
           /\ \A i, j \in DOMAIN shape.hidden : i # j => shape.hidden[i] # shape.hidden[j]
<1>1. CASE TitleState
  <2> DEFINE l == layout  u == blank(l)  s == Len(titleHead(l))  h == titleHidden(l, u, s)
             a == l.account_width  b == l.property_id_width  c == ownersSpan(l)
  <2>1. shape.hidden = h /\ TitleFits(l, u) /\ s \in Nat /\ LoadedTitle(l)
    BY <1>1, TitleStateFacts DEF TitleState
  <2>2. /\ DOMAIN h = 1..3 /\ h[1] \in Ranges /\ h[2] \in Ranges /\ h[3] \in Ranges
        /\ h[1].start = s + 6 /\ h[1].end = s + 6 + a
        /\ h[2].start = s + a + b + 26 /\ h[2].end = s + a + b + 26 + c + a
        /\ h[3].start = s + a + 18 /\ h[3].end = s + a + 18 + b
        /\ a \in Nat /\ b \in Nat /\ c \in Nat
    BY <2>1, TitleHiddenType
  <2> HIDE DEF h, s, a, b, c
  <2>3. h[1].start <= h[1].end /\ h[2].start <= h[2].end /\ h[3].start <= h[3].end
    BY ONLY <2>1, <2>2
  <2>4. h[1].start # h[2].start /\ h[1].start # h[3].start /\ h[2].start # h[3].start
    BY ONLY <2>1, <2>2
  <2>5. h[1] # h[2] /\ h[1] # h[3] /\ h[2] # h[3]
    BY ONLY <2>4
  <2>6. \A i \in 1..3 : i = 1 \/ i = 2 \/ i = 3
    OBVIOUS
  <2> QED BY ONLY <2>1, <2>2, <2>3, <2>5, <2>6
<1>2. CASE RecordState
  <2> DEFINE l == layout  u == blank(l)  s == Len(recordHead(l))  h == recordHidden(l, u, s)
             n == Len(l.fields)  t(i) == toFieldLen(l, u, i)  w(i) == l.fields[i].width
  <2>1. shape.hidden = h /\ RecordFits(l, u) /\ s \in Nat /\ LoadedRecord(l)
    BY <1>2, RecordStateFacts DEF RecordState
  <2>2. /\ h \in Seq(Ranges) /\ Len(h) = 1 + n /\ h[1] \in Ranges
        /\ h[1].start = s + 6 /\ h[1].end = s + 6 + l.account_width
        /\ \A i \in 1..n : h[1 + i] = fieldAt(l, u, s, i)
    BY <2>1, RecordHiddenType
  <2>3. l.account_width \in Nat /\ n \in Nat /\ \A i \in 1..n : w(i) \in Nat
    BY <2>1, RecordNumbers
  <2>4. \A i \in 1..n : /\ fieldAt(l, u, s, i) \in Ranges /\ fieldAt(l, u, s, i).start = s + t(i) + 5
                        /\ fieldAt(l, u, s, i).end = s + t(i) + 5 + w(i)
    BY <2>1, FieldAtType
  <2>5. \A i \in 1..n : t(i) \in Nat /\ t(i) >= 13
    <3> TAKE i \in 1..n
    <3>1. t(i) \in Nat /\ t(i) >= l.account_width + 13
      BY ONLY <2>1, ToFieldType
    <3> HIDE DEF t
    <3> QED BY ONLY <2>3, <3>1
  <2>6. \A i, j \in 1..n : i < j => t(i) # t(j)
    <3> SUFFICES ASSUME NEW i \in 1..n, NEW j \in 1..n, i < j PROVE t(i) # t(j)
      OBVIOUS
    <3>1. t(i) + w(i) + 6 < t(j)
      BY ONLY <2>1, i < j, ToFieldLater
    <3> HIDE DEF t, w
    <3> QED BY ONLY <2>3, <2>5, <3>1
  <2> DEFINE start(i) == h[i].start
  <2> HIDE DEF h, s, n, t, w
  <2>7. DOMAIN h = 1..(1 + n)
    BY ONLY <2>2
  <2>8. \A i \in 1..n : h[1 + i] \in Ranges /\ start(1 + i) = s + t(i) + 5 /\ h[1 + i].end = s + t(i) + 5 + w(i)
    BY ONLY <2>2, <2>4
  <2>9. \A i \in 1..(1 + n) : i = 1 \/ (i - 1 \in 1..n /\ 1 + (i - 1) = i)
    BY ONLY <2>3
  <2>10. \A i \in 1..(1 + n) : h[i] \in Ranges /\ h[i].start <= h[i].end
    <3> TAKE i \in 1..(1 + n)
    <3>1. CASE i = 1
      BY ONLY <2>1, <2>2, <2>3, <3>1
    <3>2. CASE i # 1
      <4>1. i - 1 \in 1..n /\ 1 + (i - 1) = i
        BY ONLY <2>9, <3>2, i \in 1..(1 + n)
      <4> DEFINE k == i - 1
      <4>2. k \in 1..n /\ 1 + k = i
        BY ONLY <4>1
      <4> HIDE DEF k
      <4>3. /\ h[i] \in Ranges /\ h[i].start = s + t(k) + 5 /\ h[i].end = s + t(k) + 5 + w(k)
            /\ t(k) \in Nat /\ w(k) \in Nat
        BY ONLY <2>3, <2>5, <2>8, <4>2
      <4> QED BY ONLY <2>1, <4>3
    <3> QED BY <3>1, <3>2
  <2>11. \A i, j \in 1..(1 + n) : i < j => h[i] # h[j]
    <3> SUFFICES ASSUME NEW i \in 1..(1 + n), NEW j \in 1..(1 + n), i < j PROVE h[i].start # h[j].start
      OBVIOUS
    <3> DEFINE k == j - 1  m == i - 1
    <3>1. k \in 1..n /\ 1 + k = j
      BY ONLY <2>3, i \in 1..(1 + n), j \in 1..(1 + n), i < j
    <3>2. i = 1 \/ (m \in 1..n /\ 1 + m = i /\ m < k)
      BY ONLY <2>3, i \in 1..(1 + n), j \in 1..(1 + n), i < j
    <3> HIDE DEF k, m
    <3>3. h[j].start = s + t(k) + 5 /\ t(k) \in Nat /\ t(k) >= 13
      BY ONLY <2>5, <2>8, <3>1
    <3>4. CASE i = 1
      BY ONLY <2>1, <2>2, <3>3, <3>4
    <3>5. CASE m \in 1..n /\ 1 + m = i /\ m < k
      <4>1. h[i].start = s + t(m) + 5 /\ t(m) \in Nat /\ t(m) # t(k)
        BY ONLY <2>5, <2>6, <2>8, <3>1, <3>5
      <4> QED BY ONLY <2>1, <3>3, <4>1
    <3> QED BY ONLY <3>2, <3>4, <3>5
  <2>12. \A i, j \in 1..(1 + n) : i # j => h[i] # h[j]
    <3> SUFFICES ASSUME NEW i \in 1..(1 + n), NEW j \in 1..(1 + n), i # j PROVE h[i] # h[j]
      OBVIOUS
    <3>1. i < j \/ j < i
      BY ONLY <2>3, i \in 1..(1 + n), j \in 1..(1 + n), i # j
    <3> QED BY ONLY <2>11, <3>1, i \in 1..(1 + n), j \in 1..(1 + n)
  <2> QED BY ONLY <2>1, <2>7, <2>10, <2>12
<1> QED BY <1>1, <1>2, Rendered

\* What is read at a range is as long as the range.
LEMMA ReadLength ==
    ASSUME NEW r \in Ranges, r.start <= r.end
    PROVE  Len(read(r)) = r.end - r.start
<1> DEFINE m == r.start + 1  n == r.end  s == response  S == {s[i] : i \in m..n}
<1>1. m \in Int /\ n \in Int /\ m <= n + 1 /\ r.start \in Nat /\ n \in Nat
  BY DEF Ranges
<1>2. \A i \in m..n : s[i] \in S
  OBVIOUS
<1> HIDE DEF m, n, s, S
<1>3. Len(SubSeq(s, m, n)) = IF m <= n THEN n - m + 1 ELSE 0
  BY ONLY <1>1, <1>2, SubSeqProperties
<1>4. Len(SubSeq(s, m, n)) = n - m + 1
  BY ONLY <1>1, <1>3
<1>5. n - m + 1 = r.end - r.start
  BY ONLY <1>1 DEF m, n
<1> QED BY ONLY <1>4, <1>5 DEF read, m, n, s

\* The prover's own commitments: they open to what the response holds at the layout's
\* ranges, and the policy verifier finds each of them, once.
LEMMA OwnCommitments ==
    ASSUME EInv, attestation # NoLayout, asThisProver, NEW p \in Phases, layout = PolicyLayout[p]
    PROVE  /\ answered /\ LayoutInv /\ shape = policyShape[p]
           /\ shape.hidden \in Seq(Ranges) /\ openings = valuesAt(shape)
           /\ \A i \in DOMAIN openings : Len(openings[i]) = shape.hidden[i].end - shape.hidden[i].start
           /\ check_shape(policyShape[p], <<Prefix(PolicyLayout[p]), view.subject>>)
           /\ hiddenHashes(policyShape[p]) = openings
<1> DEFINE f == attestation.committed  h == shape.hidden  sh == policyShape[p]
<1>1. /\ answered /\ LayoutInv /\ Attested /\ attestation.line = <<Prefix(layout), view.subject>>
      /\ attestation.received = Len(response) /\ attestation.revealed = shape.revealed
  BY DEF EInv, Attested
<1>2. shape = sh
  <2>1. shape = shapeOf(layout)
    BY <1>1 DEF LayoutInv, answered
  <2> QED BY <2>1 DEF policyShape
<1>3. h \in Seq(Ranges)
  BY <1>1, HiddenType
<1>4. f = committedTo(h)
  <2>1. PICK plan \in Seq(Ranges) : f = committedTo(plan)
    BY <1>1 DEF Attested
  <2>2. [i \in DOMAIN f |-> f[i].idx] = h
    BY DEF asThisProver
  <2>3. DOMAIN f = DOMAIN plan /\ \A i \in DOMAIN plan : f[i].idx = plan[i]
    BY ONLY <2>1 DEF committedTo
  <2> HIDE DEF f, h
  <2>4. plan = [i \in DOMAIN plan |-> plan[i]]
    BY ONLY plan \in Seq(Ranges)
  <2>5. [i \in DOMAIN f |-> f[i].idx] = plan
    BY ONLY <2>3, <2>4
  <2>6. plan = h
    BY ONLY <2>2, <2>5
  <2> QED BY ONLY <2>1, <2>6
<1>5. DOMAIN f = DOMAIN h /\ \A i \in DOMAIN h : f[i].idx = h[i] /\ f[i].value = read(h[i])
  <2> HIDE DEF f, h
  <2> QED BY ONLY <1>4 DEF committedTo, read
<1>6. openings = valuesAt(shape) /\ DOMAIN openings = DOMAIN h
  BY ONLY <1>5 DEF openings, valuesAt
<1>7. \A i \in DOMAIN h : Len(read(h[i])) = h[i].end - h[i].start
  BY <1>1, HiddenRanges, ReadLength
<1>8. \A i \in DOMAIN openings : Len(openings[i]) = h[i].end - h[i].start
  <2>1. \A i \in DOMAIN h : openings[i] = read(h[i])
    BY ONLY <1>6 DEF valuesAt
  <2> QED BY ONLY <1>6, <1>7, <2>1
<1>9. \A i, j \in DOMAIN h : i # j => h[i] # h[j]
  BY <1>1, HiddenRanges
<1>10. \A i \in DOMAIN h : Cardinality({c \in DOMAIN f : f[c].idx = h[i]}) = 1
  <2> TAKE i \in DOMAIN h
  <2> HIDE DEF f, h
  <2>1. {c \in DOMAIN f : f[c].idx = h[i]} = {i}
    BY ONLY <1>5, <1>9, i \in DOMAIN h
  <2>2. Cardinality({i}) = 1
    BY ONLY FS_Singleton, Zenon
  <2> QED BY ONLY <2>1, <2>2
<1>11. Len(f) = Len(h)
  <2> HIDE DEF h, f
  <2>1. f \in [DOMAIN h -> {f[i] : i \in DOMAIN h}]
    <3>1. f = [i \in DOMAIN h |-> [idx |-> h[i], value |-> SubSeq(response, h[i].start + 1, h[i].end)]]
      BY ONLY <1>4 DEF committedTo
    <3> QED BY ONLY <3>1, <1>5
  <2> DEFINE n == Len(h)  T == {f[i] : i \in DOMAIN h}
  <2>2. n \in Nat /\ DOMAIN h = 1..n
    BY ONLY <1>3
  <2>3. f \in [1..n -> T]
    BY ONLY <2>1, <2>2
  <2> HIDE DEF n, T
  <2>4. Len(f) = n
    BY ONLY <2>2, <2>3
  <2> QED BY ONLY <2>4 DEF n
<1>12. Len(response) = shape.len /\ \A i \in DOMAIN shape.revealed : read(shape.revealed[i])
            = SubSeq(shape.template, shape.revealed[i].start + 1, shape.revealed[i].end)
  BY <1>1, LayoutInvReads DEF ReadersAgree, ReadersFindValues, RevealsNoValue
<1>13. check_shape(shape, <<Prefix(layout), view.subject>>)
  BY ONLY <1>1, <1>10, <1>11, <1>12 DEF check_shape, read
<1>14. check_shape(sh, <<Prefix(PolicyLayout[p]), view.subject>>)
  BY ONLY <1>2, <1>13, layout = PolicyLayout[p]
<1>15. hiddenHashes(shape) = openings
  <2>1. \A i \in DOMAIN h : hidden(shape, i) = read(h[i])
    BY ONLY <1>1, <1>10, attestation # NoLayout, Opened
  <2>2. hiddenHashes(shape) = valuesAt(shape)
    BY ONLY <2>1 DEF hiddenHashes, valuesAt
  <2> QED BY ONLY <1>6, <2>2
<1> QED BY ONLY <1>1, <1>2, <1>3, <1>6, <1>8, <1>14, <1>15

\* A value satisfies the circuit with its own word.
LEMMA OwnWord ==
    ASSUME NEW s, Digits(256, s), HALF < Len(s), Len(s) <= WORD
    PROVE  propertyIs(s, filled(s, WORD - Len(s)))
<1> DEFINE n == Len(s)  k == WORD - n  w == filled(s, k)
           s1 == SubSeq(s, 1, HALF)  s2 == SubSeq(s, HALF + 1, n)
           w1 == SubSeq(w, 1, HALF)  w2 == SubSeq(w, HALF + 1, WORD)  z == filled(s2, k)
<1>1. n \in Nat
  BY DEF Digits
<1>2. WORD \in Nat /\ HALF \in Nat /\ HALF >= 1 /\ HALF <= WORD - 1 /\ WORD - HALF \in Nat /\ WORD - HALF <= WORD - 1
  BY WordNumbers
<1>3. HALF < n /\ n <= WORD /\ k \in Nat /\ k = WORD - n /\ n + k = WORD /\ HALF <= n /\ HALF <= WORD
  BY ONLY <1>1, <1>2, HALF < Len(s), Len(s) <= WORD
<1>4. Extends(w, s, k)
  BY ONLY <1>3, Digits(256, s), FilledDigits
<1>5. /\ Digits(256, w) /\ Len(w) = n + k
      /\ \A i \in 1..n : w[i] = s[i]
      /\ \A j \in 1..k : w[n + j] = 0
  BY ONLY <1>4 DEF Extends
<1>6. /\ Digits(256, s1) /\ Len(s1) = HALF /\ \A i \in 1..HALF : s1[i] = s[i]
  BY ONLY <1>2, <1>3, Digits(256, s), FirstDigits
<1>7. /\ Digits(256, w1) /\ Len(w1) = HALF /\ \A i \in 1..HALF : w1[i] = w[i]
  <2> HIDE DEF w, k
  <2>1. HALF <= Len(w)
    BY ONLY <1>3, <1>5
  <2> QED BY ONLY <1>2, <1>5, <2>1, FirstDigits
<1>8. /\ Digits(256, s2) /\ Len(s2) = n - HALF /\ \A i \in 1..(n - HALF) : s2[i] = s[HALF + i]
  BY ONLY Digits(256, s), <1>1, <1>2, <1>3, PartDigits
<1>9. /\ Digits(256, w2) /\ Len(w2) = WORD - HALF /\ \A i \in 1..(WORD - HALF) : w2[i] = w[HALF + i]
  <2> HIDE DEF w, k
  <2>1. WORD <= Len(w) /\ HALF <= WORD
    BY ONLY <1>3, <1>5
  <2> QED BY ONLY <1>2, <1>5, <2>1, PartDigits
<1>10. Extends(z, s2, k)
  BY ONLY <1>3, <1>8, FilledDigits
<1>11. /\ Digits(256, z) /\ Len(z) = Len(s2) + k
       /\ \A i \in 1..Len(s2) : z[i] = s2[i]
       /\ \A j \in 1..k : z[Len(s2) + j] = 0
  BY ONLY <1>10 DEF Extends
<1>12. HALF < n
  BY ONLY <1>3
<1> HIDE DEF n, k, w, s1, s2, w1, w2, z
<1>13. s1 = w1
  <2>1. \A i \in 1..HALF : s1[i] = w1[i]
    BY ONLY <1>1, <1>2, <1>5, <1>6, <1>7, <1>12
  <2>2. s1 \in Seq(Nat) /\ w1 \in Seq(Nat)
    BY ONLY <1>6, <1>7 DEF Digits
  <2> QED BY ONLY <1>6, <1>7, <2>1, <2>2, SeqEqual
<1>14. z = w2
  <2>1. Len(z) = WORD - HALF
    BY ONLY <1>1, <1>2, <1>3, <1>8, <1>11
  <2>2. \A i \in 1..(WORD - HALF) : z[i] = w2[i]
    <3> TAKE i \in 1..(WORD - HALF)
    <3>1. w2[i] = w[HALF + i]
      BY ONLY <1>9, i \in 1..(WORD - HALF)
    <3>2. CASE i <= n - HALF
      <4>1. i \in 1..Len(s2) /\ i \in 1..(n - HALF) /\ HALF + i \in 1..n
        BY ONLY <1>1, <1>2, <1>8, <3>2, i \in 1..(WORD - HALF)
      <4>2. z[i] = s2[i] /\ s2[i] = s[HALF + i] /\ w[HALF + i] = s[HALF + i]
        BY ONLY <1>5, <1>8, <1>11, <4>1
      <4> QED BY ONLY <3>1, <4>2
    <3>3. CASE ~ (i <= n - HALF)
      <4> DEFINE j == i - (n - HALF)
      <4>1. j \in 1..k /\ Len(s2) + j = i /\ n + j = HALF + i
        BY ONLY <1>1, <1>2, <1>3, <1>8, <3>3, i \in 1..(WORD - HALF)
      <4> HIDE DEF j
      <4>2. z[i] = 0 /\ w[HALF + i] = 0
        BY ONLY <1>5, <1>11, <4>1
      <4> QED BY ONLY <3>1, <4>2
    <3> QED BY ONLY <3>2, <3>3
  <2>3. z \in Seq(Nat) /\ w2 \in Seq(Nat)
    BY ONLY <1>9, <1>11 DEF Digits
  <2> QED BY ONLY <1>9, <2>1, <2>2, <2>3, SeqEqual
<1>15. (PackBytes(s2) * power(256, k)) % R = PackBytes(w2)
  <2> DEFINE a == bigEndian(256, s2)
  <2>1. PackBytes(s2) = a
    <3>1. Len(s2) <= WORD - 1
      BY ONLY <1>1, <1>2, <1>3, <1>8
    <3> QED BY ONLY <1>8, <3>1, PackExact
  <2>2. s2 \in Seq(Nat)
    BY ONLY <1>8 DEF Digits
  <2>3. bigEndian(256, z) = a * power(256, k)
    BY ONLY <1>3, <2>2, ValueShift, 256 \in Nat DEF filled, z
  <2> QED BY ONLY <1>14, <2>1, <2>3 DEF PackBytes
<1>16. limbs(w) = <<PackBytes(w1), PackBytes(w2)>>
  BY DEF limbs, w1, w2
<1>17. limbs(w)[1] = PackBytes(w1) /\ limbs(w)[2] = PackBytes(w2)
  <2> DEFINE a == PackBytes(w1)  b == PackBytes(w2)
  <2>1. limbs(w) = <<a, b>>
    BY ONLY <1>16
  <2> HIDE DEF a, b
  <2>2. limbs(w)[1] = a /\ limbs(w)[2] = b
    BY ONLY <2>1
  <2> QED BY ONLY <2>2 DEF a, b
<1>18. propertyIs(s, w)
  BY ONLY <1>13, <1>15, <1>17 DEF propertyIs, s1, s2, k, n
<1> QED BY ONLY <1>18 DEF w, k, n

\* Padding begins with what it pads, and adds nothing to what fills its place.
LEMMA PadBegins ==
    ASSUME NEW l, l.padding \in Text, Len(l.padding) = 1, NEW x, NEW w \in Nat, Fitting(x, w)
    PROVE  /\ x # <<>> => pad(l, x, w)[1] = x[1]
           /\ Len(x) = w => pad(l, x, w) = x
<1> DEFINE y == pad(l, x, w)
<1>1. /\ y \in Seq(Nat) /\ Len(y) = w
      /\ \A i \in 1..Len(x) : y[i] = x[i]
  BY PadType
<1>2. x \in Seq(Nat)
  <2>1. x \in Seq(Byte)
    BY DEF Fitting, Text
  <2> QED BY ONLY <2>1, ByteSymbols
<1> HIDE DEF y
<1>3. x # <<>> => 1 \in 1..Len(x)
  BY ONLY <1>2, EmptySeq
<1>4. x # <<>> => y[1] = x[1]
  BY ONLY <1>1, <1>3
<1>5. Len(x) = w => y = x
  BY ONLY <1>1, <1>2, SeqEqual
<1> QED BY ONLY <1>4, <1>5 DEF y

\* What a prover's own proof is for, and that it is no NoLayout.
LEMMA OwnProof ==
    ASSUME NEW x
    PROVE  verify(prove(x), x, openings)
<1>1. prove(x) # NoLayout
  BY DEF prove, NoLayout
<1>2. prove(x).claim = x /\ prove(x).public = public(x, openings)
  BY DEF prove
<1> QED BY ONLY <1>1, <1>2 DEF verify

\* A record's account, owners and property are entitled to their registration.
LEMMA OwnerEntitled ==
    ASSUME EInv, attestation # NoLayout, asThisProver, NEW x \in Claims, x.phase = "register",
           layout = PolicyLayout["register"], x.subject = view.subject,
           x.property = word(layout, view.property_id, layout.property_id_width),
           somebody(view.account), view.account \in Range(view.owners)
    PROVE  satisfied(x) /\ signs(prove(x), x)
<1> DEFINE l == layout  w == l.account_width  a == accountOf(l, view)  n == l.owner_slots
           owners == read(shape.hidden[2])  pr == propertyOf(l, view)  m == l.property_id_width
           sh == policyShape["register"]
<1>1. /\ answered /\ LayoutInv /\ shape = sh /\ shape.hidden \in Seq(Ranges) /\ openings = valuesAt(shape)
      /\ \A i \in DOMAIN openings : Len(openings[i]) = shape.hidden[i].end - shape.hidden[i].start
      /\ check_shape(sh, <<Prefix(l), view.subject>>) /\ hiddenHashes(sh) = openings
  <2>1. "register" \in Phases
    BY DEF Phases
  <2> QED BY ONLY EInv, attestation # NoLayout, asThisProver, layout = PolicyLayout["register"], <2>1, OwnCommitments
<1>2. LoadedTitle(l)
  BY PolicyLoaded
<1>3. /\ l.padding \in Text /\ Len(l.padding) = 1 /\ l.kind = "title" /\ w \in Nat /\ w > 0
      /\ n \in Nat /\ n > 0 /\ m \in Nat
  BY <1>2, TitleNumbers
<1>4. ofTitle
  BY <1>3 DEF ofTitle
<1>5. layout \in LayoutFiles /\ view \in Views(layout) /\ titleRenders(l, view)
  BY <1>1, <1>3, LayoutKinds DEF LayoutInv, answered, renders
<1>6. view \in TitleView /\ view.subject = view.property_id
  BY <1>3, <1>5, LayoutAssumption, EvidenceAssumption
<1>7. TitleFits(l, view)
  BY <1>2, <1>5, <1>6, RenderedTitleFits
<1>8. Fitting(view.account, w) /\ Fitting(view.property_id, m)
  BY <1>7 DEF TitleFits
<1>9. DOMAIN shape.hidden = 1..3 /\ Len(openings) = 3
  <2>1. Len(shape.hidden) = 3
    BY <1>1, <1>4, HiddenType
  <2> DEFINE h == shape.hidden  S == {openings[i] : i \in DOMAIN openings}
  <2>2. h \in Seq(Ranges) /\ Len(h) = 3
    BY ONLY <1>1, <2>1
  <2> HIDE DEF h
  <2>3. DOMAIN h = 1..3
    BY ONLY <2>2
  <2>4. openings \in Seq(S)
    BY OpeningsSeq DEF EInv
  <2>5. DOMAIN openings = 1..3
    BY ONLY <1>1, <2>3 DEF valuesAt, h
  <2>6. Len(openings) = 3
    <3> HIDE DEF S
    <3> QED BY ONLY <2>4, <2>5
  <2> QED BY ONLY <2>3, <2>6 DEF h
<1>10. openings[1] = a /\ openings[2] = owners /\ openings[3] = pr
  <2>1. openings[1] = read(shape.hidden[1]) /\ openings[2] = owners /\ openings[3] = read(shape.hidden[3])
    <3>1. 1 \in 1..3 /\ 2 \in 1..3 /\ 3 \in 1..3
      OBVIOUS
    <3> QED BY ONLY <1>1, <1>9, <3>1 DEF valuesAt
  <2>2. read(shape.hidden[1]) = a /\ read(shape.hidden[3]) = pr
    BY <1>1, <1>4, LayoutInvReads DEF ReadersAgree, ReadersFindValues, accountOf, propertyOf
  <2> QED BY ONLY <2>1, <2>2
<1>11. /\ \A k \in 0..(n - 1) :
            SubSeq(owners, k * (w + 3) + 1, k * (w + 3) + w) = pad(l, owner(view, k + 1), w)
       /\ \A k \in 0..(n - 2) :
            SubSeq(owners, k * (w + 3) + w + 1, k * (w + 3) + w + 3) = <<Quote, Comma, Quote>>
  <2>1. CircuitFindsOwners
    BY <1>1, LayoutInvReads DEF ReadersAgree
  <2>2. owner_stride(layout, shape) = w + 3
    BY <1>1, <1>4, <2>1 DEF CircuitFindsOwners
  <2> QED BY <1>1, <1>4, <2>1, <2>2 DEF CircuitFindsOwners
<1>12. notEmpty(a, l)
  <2>1. a[1] = view.account[1] /\ view.account[1] # l.padding[1]
    BY <1>3, <1>8, PadBegins DEF somebody, accountOf
  <2> QED BY ONLY <2>1 DEF notEmpty
<1>13. \E k \in 0..(n - 1) : SubSeq(owners, k * (w + 3) + 1, k * (w + 3) + w) = a
  <2>1. PICK j \in DOMAIN view.owners : view.owners[j] = view.account
    BY DEF Range
  <2>2. view.owners \in Seq(Text) /\ Len(view.owners) <= n
    BY <1>5, <1>6 DEF TitleView, titleRenders
  <2> DEFINE o == view.owners
  <2>3. o \in Seq(Text) /\ Len(o) <= n /\ j \in DOMAIN o
    BY ONLY <2>1, <2>2
  <2>4. owner(view, j) = view.account
    BY ONLY <2>1 DEF owner
  <2> HIDE DEF o, n, w, owners, a
  <2>5. j - 1 \in 0..(n - 1) /\ (j - 1) + 1 = j
    <3>0. n \in Nat
      BY ONLY <1>3
    <3> QED BY ONLY <2>3, <3>0
  <2>6. SubSeq(owners, (j - 1) * (w + 3) + 1, (j - 1) * (w + 3) + w) = pad(l, owner(view, (j - 1) + 1), w)
    BY ONLY <1>11, <2>5
  <2>7. pad(l, owner(view, (j - 1) + 1), w) = a
    BY ONLY <2>4, <2>5 DEF a, accountOf, w
  <2> QED BY ONLY <2>5, <2>6, <2>7
<1>14. propertyIs(pr, x.property)
  <2>1. Digits(256, pr) /\ Len(pr) = m
    BY ONLY <1>3, <1>8, PadDigits DEF propertyOf
  <2>2. HALF < m /\ m <= WORD
    BY CircuitAssumption DEF main_circom
  <2>3. x.property = filled(pr, WORD - m)
    BY DEF word, filled, zeros, propertyOf
  <2>4. propertyIs(pr, filled(pr, WORD - Len(pr)))
    <3> HIDE DEF pr
    <3> QED BY ONLY <2>1, <2>2, OwnWord
  <2> QED BY ONLY <2>1, <2>3, <2>4
<1>15. PhiR(l, a, owners, pr, x.property)
  <2>1. \E k \in 0..(n - 1) : PackBytes(SubSeq(owners, k * (w + 3) + 1, k * (w + 3) + w)) = PackBytes(a)
    <3> HIDE DEF owners, n, w, a
    <3> QED BY ONLY <1>13
  <2> HIDE DEF owners, a, pr
  <2> QED BY ONLY <1>11, <1>12, <1>14, <2>1 DEF PhiR
<1>16. PhiRInput(openings, x)
  BY ONLY <1>9, <1>10, <1>15, layout = PolicyLayout["register"] DEF PhiRInput
<1>17. satisfied(x)
  <2>1. \A i \in DOMAIN openings \cap DOMAIN sh.hidden : Len(openings[i]) = sh.hidden[i].end - sh.hidden[i].start
    BY ONLY <1>1
  <2> HIDE DEF sh
  <2>2. policyShape[x.phase] = sh
    BY ONLY x.phase = "register" DEF sh
  <2> QED BY ONLY <1>16, <2>1, <2>2, x.phase = "register" DEF satisfied
<1>18. signsRegister(prove(x), x)
  <2>1. fits(x.subject, m) /\ word(l, x.subject, m) = x.property
    BY <1>5, <1>6 DEF titleRenders
  <2>2. check_shape(sh, <<Prefix(l), x.subject>>)
    BY ONLY <1>1, x.subject = view.subject
  <2>3. verify(prove(x), x, hiddenHashes(sh))
    BY ONLY <1>1, OwnProof
  <2> QED BY ONLY <2>1, <2>2, <2>3, layout = PolicyLayout["register"] DEF signsRegister
<1>19. signs(prove(x), x)
  BY ONLY <1>18, x.phase = "register" DEF signs
<1> QED BY ONLY <1>17, <1>19

\* A record that the policy asks for: what the prover's commitments open to, and that
\* its presentation passes.
LEMMA OwnRecord ==
    ASSUME EInv, attestation # NoLayout, asThisProver, NEW p \in {"apply", "settle"}, layout = PolicyLayout[p]
    PROVE  /\ answered /\ LayoutInv /\ RecordState /\ LoadedRecord(layout) /\ RecordFits(layout, view)
           /\ Len(openings) = 1 + Len(layout.fields)
           /\ openings[1] = accountOf(layout, view)
           /\ \A i \in 1..Len(layout.fields) : openings[i + 1] = valueOf(layout, view, i)
           /\ \A i \in DOMAIN openings \cap DOMAIN policyShape[p].hidden :
                Len(openings[i]) = policyShape[p].hidden[i].end - policyShape[p].hidden[i].start
           /\ check_shape(policyShape[p], <<Prefix(PolicyLayout[p]), view.subject>>)
           /\ hiddenHashes(policyShape[p]) = openings
<1> DEFINE l == layout  n == Len(l.fields)  sh == policyShape[p]
<1>1. /\ answered /\ LayoutInv /\ shape = sh /\ openings = valuesAt(shape)
      /\ \A i \in DOMAIN openings : Len(openings[i]) = shape.hidden[i].end - shape.hidden[i].start
      /\ check_shape(sh, <<Prefix(PolicyLayout[p]), view.subject>>) /\ hiddenHashes(sh) = openings
  <2>1. p \in Phases
    BY DEF Phases
  <2> QED BY ONLY EInv, attestation # NoLayout, asThisProver, layout = PolicyLayout[p], <2>1, OwnCommitments
<1>2. /\ RecordState /\ DOMAIN shape.hidden = 1..(1 + n)
      /\ read(shape.hidden[1]) = accountOf(l, view)
      /\ \A i \in 1..n : read(shape.hidden[i + 1]) = valueOf(l, view, i)
  BY ONLY <1>1, p \in {"apply", "settle"}, layout = PolicyLayout[p], PassedRecord
<1>3. LoadedRecord(l) /\ RecordFits(l, view)
  BY ONLY <1>2 DEF RecordState
<1>4. n \in Nat
  BY <1>3, RecordNumbers
<1>5. DOMAIN openings = 1..(1 + n) /\ \A i \in 1..(1 + n) : openings[i] = read(shape.hidden[i])
  BY ONLY <1>1, <1>2 DEF valuesAt
<1>6. Len(openings) = 1 + n
  <2> DEFINE S == {openings[i] : i \in DOMAIN openings}  f == openings
  <2>1. f \in Seq(S)
    BY OpeningsSeq DEF EInv
  <2>2. DOMAIN f = 1..(1 + n)
    BY ONLY <1>5
  <2> HIDE DEF S, f, n
  <2>3. Len(f) = 1 + n
    <3> DEFINE m == Len(f)
    <3>1. m \in Nat /\ DOMAIN f = 1..m
      BY ONLY <2>1
    <3> HIDE DEF m
    <3>2. 1..m = 1..(1 + n) /\ 1 + n \in 1..(1 + n)
      BY ONLY <1>4, <2>2, <3>1
    <3>3. 1 + n \in 1..m
      BY ONLY <3>2
    <3>4. m >= 1 /\ m \in 1..m
      BY ONLY <1>4, <3>1, <3>3
    <3>5. m \in 1..(1 + n)
      BY ONLY <3>2, <3>4
    <3>6. m = 1 + n
      BY ONLY <1>4, <3>1, <3>3, <3>5
    <3> QED BY ONLY <3>6 DEF m
  <2> QED BY ONLY <2>3 DEF f
<1>7. openings[1] = accountOf(l, view) /\ \A i \in 1..n : openings[i + 1] = valueOf(l, view, i)
  <2> HIDE DEF n
  <2>1. 1 \in 1..(1 + n) /\ \A i \in 1..n : i + 1 \in 1..(1 + n)
    BY ONLY <1>4
  <2> QED BY ONLY <1>2, <1>5, <2>1
<1>8. \A i \in DOMAIN openings \cap DOMAIN sh.hidden : Len(openings[i]) = sh.hidden[i].end - sh.hidden[i].start
  BY ONLY <1>1
<1> QED BY ONLY <1>1, <1>2, <1>3, <1>6, <1>7, <1>8

\* An applicant whose income is the multiple of the rent.
LEMMA IncomeEntitled ==
    ASSUME EInv, attestation # NoLayout, asThisProver, NEW x \in Claims, x.phase = "apply",
           layout = PolicyLayout["apply"], view.subject = <<>>, somebody(view.account), mockSigns(x),
           x.amount < AMOUNT_SIZE, IsDecimal(view.values[1]), Len(view.values[1]) = layout.fields[1].width
    PROVE  satisfied(x) /\ signs(prove(x), x)
<1> DEFINE l == layout  a == accountOf(l, view)  v == view.values[1]  m == x.amount  w == l.fields[1].width
           d == DecimalValue(v)  c == CMP_SIZE  y == MULTIPLE * m  sh == policyShape["apply"]
<1>1. /\ RecordState /\ LoadedRecord(l) /\ RecordFits(l, view) /\ Len(openings) = 1 + Len(l.fields)
      /\ openings[1] = a /\ \A i \in 1..Len(l.fields) : openings[i + 1] = valueOf(l, view, i)
      /\ \A i \in DOMAIN openings \cap DOMAIN sh.hidden :
            Len(openings[i]) = sh.hidden[i].end - sh.hidden[i].start
      /\ check_shape(sh, <<Prefix(PolicyLayout["apply"]), view.subject>>) /\ hiddenHashes(sh) = openings
  <2>1. "apply" \in {"apply", "settle"}
    OBVIOUS
  <2> QED BY ONLY EInv, attestation # NoLayout, asThisProver, layout = PolicyLayout["apply"], <2>1, OwnRecord
<1>2. Len(l.fields) = 1
  BY PolicyFields
<1>3. /\ l.padding \in Text /\ Len(l.padding) = 1 /\ l.account_width \in Nat /\ w \in Nat
      /\ Fitting(view.account, l.account_width) /\ Fitting(v, w)
  BY <1>1, <1>2, RecordNumbers DEF RecordFits
<1>4. valueOf(l, view, 1) = v
  <2>1. pad(l, v, w) = v
    BY ONLY <1>3, Len(view.values[1]) = layout.fields[1].width, PadBegins
  <2> QED BY ONLY <2>1 DEF valueOf
<1>5. Len(openings) = 2 /\ openings[2] = v
  <2>1. 1 \in 1..1 /\ 1 + 1 = 2
    OBVIOUS
  <2> QED BY ONLY <1>1, <1>2, <1>4, <2>1
<1>6. notEmpty(a, l)
  <2>1. a[1] = view.account[1] /\ view.account[1] # l.padding[1]
    BY <1>3, PadBegins DEF somebody, accountOf
  <2> QED BY ONLY <2>1 DEF notEmpty
<1>7. PackBytes(a) = x.cB.id /\ x.cB.wraps = 0 /\ d >= y
  BY ONLY x.phase = "apply", mockSigns(x) DEF mockSigns, accountOf
<1>8. m \in Nat
  <2>1. x \in Claim
    BY EvidenceAssumption
  <2> QED BY ONLY <2>1, x.phase = "apply" DEF Claim
<1>9. /\ y \in Nat /\ y <= c /\ c \in Nat /\ 2 * c < R /\ (MULTIPLE * (m % R)) % R = y /\ m % R = m
      /\ power(10, w) < c
  <2>1. /\ y \in Nat /\ y <= c /\ c \in Nat /\ 2 * c < R /\ (MULTIPLE * (m % R)) % R = y /\ m % R = m
        /\ power(10, PolicyLayout["apply"].fields[1].width) < c
    BY ONLY <1>8, x.amount < AMOUNT_SIZE, IncomeSizes
  <2> QED BY ONLY <2>1, layout = PolicyLayout["apply"]
<1>10. d \in Nat /\ d < power(10, w)
  <2>1. "apply" \in {"apply", "settle"} /\ 1 \in 1..Len(l.fields)
    BY ONLY <1>2
  <2>2. IsDecimal(valueOf(l, view, 1))
    BY ONLY <1>4, IsDecimal(view.values[1])
  <2> QED BY ONLY <1>1, <2>1, <2>2, layout = PolicyLayout["apply"], RecordNumber
<1>11. d < c
  <2> DEFINE z == power(10, w)
  <2>1. z \in Nat
    BY ONLY <1>3, PowerType, 10 \in Nat
  <2>2. d < z /\ z < c
    BY ONLY <1>9, <1>10
  <2> HIDE DEF z, d, c
  <2> QED BY ONLY <1>9, <1>10, <2>1, <2>2
<1>12. GreaterEqThan(c, d, y)
  <2> HIDE DEF c, d, y
  <2> QED BY ONLY <1>7, <1>9, <1>10, <1>11, GreaterEqMeans
<1>13. enough(v, m)
  BY ONLY <1>9, <1>12 DEF enough
<1>14. PhiA(l, a, v, x.cB, m)
  <2>1. m % R < AMOUNT_SIZE
    BY ONLY <1>9, x.amount < AMOUNT_SIZE
  <2> QED BY ONLY <1>6, <1>7, <1>13, <2>1, IsDecimal(view.values[1]) DEF PhiA
<1>15. amountFits(m) /\ field_element(x.cB)
  BY ONLY <1>7, x.amount < AMOUNT_SIZE DEF amountFits, field_element
<1>16. PhiAInput(openings, x)
  BY ONLY <1>1, <1>5, <1>14, <1>15, layout = PolicyLayout["apply"] DEF PhiAInput
<1>17. satisfied(x)
  <2> HIDE DEF sh
  <2>1. policyShape[x.phase] = sh
    BY ONLY x.phase = "apply" DEF sh
  <2> QED BY ONLY <1>1, <1>16, <2>1, x.phase = "apply" DEF satisfied
<1>18. publicInput(m)
  <2>1. m < R
    <3>1. m % R \in 0..(R - 1)
      BY ONLY <1>8, FieldOrder
    <3> QED BY ONLY <1>8, <1>9, <3>1, FieldOrder
  <2> QED BY ONLY <2>1 DEF publicInput
<1>19. signsApply(prove(x), x)
  <2>1. check_shape(sh, <<Prefix(PolicyLayout["apply"]), <<>> >>)
    BY ONLY <1>1, view.subject = <<>>
  <2>2. verify(prove(x), x, hiddenHashes(sh))
    BY ONLY <1>1, OwnProof
  <2> QED BY ONLY <1>15, <1>18, <2>1, <2>2 DEF signsApply
<1>20. signs(prove(x), x)
  BY ONLY <1>19, x.phase = "apply" DEF signs
<1> QED BY ONLY <1>17, <1>20

\* A settlement that is due.
LEMMA TenancyEntitled ==
    ASSUME EInv, attestation # NoLayout, asThisProver, NEW x \in Claims, x.phase = "settle",
           layout = PolicyLayout["settle"], x.subject = view.subject, check_subject(x.subject),
           somebody(view.values[2]), mockSigns(x)
    PROVE  satisfied(x) /\ signs(prove(x), x)
<1> DEFINE l == layout  v(i) == valueOf(l, view, i)  d == DecimalValue(view.values[3])  y == x.day
           c == DAY_SIZE  m == l.fields[1].width  q == x.property  sh == policyShape["settle"]  pr == v(1)
<1>1. /\ RecordState /\ LoadedRecord(l) /\ RecordFits(l, view) /\ Len(openings) = 1 + Len(l.fields)
      /\ \A i \in 1..Len(l.fields) : openings[i + 1] = v(i)
      /\ \A i \in DOMAIN openings \cap DOMAIN sh.hidden :
            Len(openings[i]) = sh.hidden[i].end - sh.hidden[i].start
      /\ check_shape(sh, <<Prefix(PolicyLayout["settle"]), view.subject>>) /\ hiddenHashes(sh) = openings
  <2>1. "settle" \in {"apply", "settle"}
    OBVIOUS
  <2> QED BY ONLY EInv, attestation # NoLayout, asThisProver, layout = PolicyLayout["settle"], <2>1, OwnRecord
<1>2. Len(l.fields) = 3
  BY PolicyFields
<1>3. Len(openings) = 4 /\ openings[2] = v(1) /\ openings[3] = v(2) /\ openings[4] = v(3)
  <2>1. 1 \in 1..3 /\ 2 \in 1..3 /\ 3 \in 1..3 /\ 1 + 1 = 2 /\ 2 + 1 = 3 /\ 3 + 1 = 4 /\ 1 + 3 = 4
    OBVIOUS
  <2> HIDE DEF v
  <2> QED BY ONLY <1>1, <1>2, <2>1
<1>4. 1 \in 1..Len(l.fields) /\ 2 \in 1..Len(l.fields) /\ 3 \in 1..Len(l.fields)
  BY ONLY <1>2
<1>5. /\ l.padding \in Text /\ Len(l.padding) = 1 /\ m \in Nat
      /\ l.fields[2].width \in Nat /\ l.fields[3].width \in Nat
      /\ Fitting(view.values[1], m) /\ Fitting(view.values[2], l.fields[2].width)
      /\ Fitting(view.values[3], l.fields[3].width)
  BY <1>1, <1>4, RecordNumbers DEF RecordFits
<1>6. l.fields[2].width = l.account_width /\ l.fields[3].width = 1 /\ HALF < m /\ m <= WORD
  BY CircuitAssumption DEF main_circom_phi_s
<1>7. /\ PackBytes(pad(l, view.values[2], l.account_width)) = x.cB.id /\ x.cB.wraps = 0
      /\ word(l, view.values[1], m) = q /\ isDay(view.values[3]) /\ d >= y
  BY ONLY x.phase = "settle", mockSigns(x) DEF mockSigns
<1>8. y \in Nat
  <2>1. x \in Claim
    BY EvidenceAssumption
  <2> QED BY ONLY <2>1, x.phase = "settle" DEF Claim
<1>9. v(3) = view.values[3] /\ IsDecimal(v(3))
  <2>1. Len(view.values[3]) = l.fields[3].width /\ IsDecimal(view.values[3])
    BY ONLY <1>6, <1>7 DEF isDay
  <2>2. pad(l, view.values[3], l.fields[3].width) = view.values[3]
    BY ONLY <1>5, <2>1, PadBegins
  <2> QED BY ONLY <2>1, <2>2 DEF valueOf
<1>10. d \in Nat /\ d < 10
  <2>1. "settle" \in {"apply", "settle"}
    OBVIOUS
  <2>2. d \in Nat /\ d < power(10, l.fields[3].width)
    BY ONLY <1>1, <1>4, <1>9, <2>1, layout = PolicyLayout["settle"], RecordNumber
  <2>3. power(10, 0) = 1
    BY ONLY PowerZero, 10 \in Nat
  <2>4. power(10, 0 + 1) = power(10, 0) * 10
    BY ONLY PowerNext, 10 \in Nat, 0 \in Nat
  <2>5. 0 + 1 = 1 /\ 1 * 10 = 10
    OBVIOUS
  <2>6. power(10, l.fields[3].width) = 10
    BY ONLY <1>6, <2>3, <2>4, <2>5
  <2> QED BY ONLY <2>2, <2>6
<1>11. c = 16 /\ y < c /\ y <= c /\ d < c /\ c \in Nat /\ 2 * c < R /\ y < R
  <2>1. c = 16
    BY DEF DAY_SIZE
  <2> HIDE DEF d, y, c
  <2> QED BY ONLY <1>7, <1>8, <1>10, <2>1, FieldOrder
<1>12. y % R = y
  BY ONLY <1>8, <1>11, FieldOrder, SmallMod
<1>13. GreaterEqThan(c, d, y)
  <2> HIDE DEF c, d, y
  <2> QED BY ONLY <1>7, <1>8, <1>10, <1>11, GreaterEqMeans
<1>14. notEmpty(v(2), l) /\ PackBytes(v(2)) = x.cB.id
  <2>1. v(2)[1] = view.values[2][1] /\ view.values[2][1] # l.padding[1]
    BY <1>5, PadBegins DEF somebody, valueOf
  <2> QED BY ONLY <1>6, <1>7, <2>1 DEF notEmpty, valueOf
<1>15. propertyIs(pr, q)
  <2>1. Digits(256, pr) /\ Len(pr) = m
    BY ONLY <1>5, PadDigits DEF valueOf
  <2>2. q = filled(pr, WORD - m)
    BY ONLY <1>7 DEF word, filled, zeros, valueOf
  <2>3. propertyIs(pr, filled(pr, WORD - Len(pr)))
    <3> HIDE DEF pr
    <3> QED BY ONLY <1>6, <2>1, OwnWord
  <2> QED BY ONLY <2>1, <2>2, <2>3
<1>16. PhiS(l, v(1), v(2), v(3), q, x.cB, y)
  <2>1. GreaterEqThan(DAY_SIZE, DecimalValue(v(3)), y % R) /\ y % R < DAY_SIZE
    BY ONLY <1>9, <1>11, <1>12, <1>13
  <2> HIDE DEF v
  <2> QED BY ONLY <1>9, <1>14, <1>15, <2>1 DEF PhiS, pr
<1>17. dayFits(y) /\ field_element(x.cB)
  BY ONLY <1>7, <1>11 DEF dayFits, field_element
<1>18. PhiSInput(openings, x)
  BY ONLY <1>3, <1>16, <1>17, layout = PolicyLayout["settle"] DEF PhiSInput
<1>19. satisfied(x)
  <2> HIDE DEF sh, v
  <2>1. policyShape[x.phase] = sh
    BY ONLY x.phase = "settle" DEF sh
  <2> QED BY ONLY <1>1, <1>18, <2>1, x.phase = "settle" DEF satisfied
<1>20. signsSettle(prove(x), x)
  <2>1. check_shape(sh, <<Prefix(PolicyLayout["settle"]), x.subject>>)
    BY ONLY <1>1, x.subject = view.subject
  <2>2. verify(prove(x), x, hiddenHashes(sh))
    BY ONLY <1>1, OwnProof
  <2> QED BY ONLY <1>17, <2>1, <2>2, check_subject(x.subject) DEF signsSettle
<1>21. signs(prove(x), x)
  BY ONLY <1>20, x.phase = "settle" DEF signs
<1> QED BY ONLY <1>19, <1>21

\* In every session, whatever records and layouts: see LayoutInv.
LEMMA LayoutInvariant == ESpec => []LayoutInv
<1>1. EInit => LayoutInv
  BY LayoutInvInit DEF EInit
<1>2. LayoutInv /\ [ENext]_evars => LayoutInv'
  BY LayoutInvNext, RegistryAnswers
<1> QED BY <1>1, <1>2, PTL DEF ESpec

\* For all layouts and records: those who take ranges from the rendering of an empty
\* record, the circuit's stride, the quotes and the keys all read the values that the
\* registry rendered (render_response, shape, PhiRParams::from_layout, index_of).
THEOREM ReadersCorrect == ESpec => []ReadersAgree
<1>1. LayoutInv => ReadersAgree
  BY LayoutInvReads
<1> QED BY <1>1, LayoutInvariant, PTL

\* For all layouts and records: what a presentation reveals is in the template and
\* overlaps no value, and the committed values do not overlap (reveal_ranges,
\* hidden_ranges of layout.rs and record.rs).
THEOREM RevealsCorrect == ESpec => []RevealsNoValue
<1>1. LayoutInv => RevealsNoValue
  BY LayoutInvReads
<1> QED BY <1>1, LayoutInvariant, PTL

\* For all layouts, records, claims and field orders: a statement a notary signs is
\* true of the record that the registry rendered.  Who registers is among its owners
\* and names its property, the applicant's income is at least the multiple of the rent,
\* a notation on the property names the tenant and is dated no earlier than the
\* engagement, and the mock notary signs it too (sign_register_timed, sign_apply_timed, sign_settle_timed,
\* check_shape, hidden_hashes, phi_r.circom, phi_a.circom, phi_s.circom, mock.rs).
THEOREM SignedCorrect == ESpec => []SignedIsTrue
<1>1. EInv => SignedIsTrue
  BY OwnerSigned, MockSigned DEF SignedIsTrue
<1> QED BY <1>1, EvidenceInvariant, PTL

\* For all layouts, records and field orders: nobody entitled is turned away.  An owner,
\* an applicant with the income and a settlement that is due have a witness of the
\* circuit and are signed, when the prover commits to the layout's ranges (run_mpc,
\* generate_witness, sign_register_timed, sign_apply_timed, sign_settle_timed).
THEOREM EntitledCorrect == ESpec => []EntitledIsSigned
<1>1. ASSUME EInv PROVE EntitledIsSigned
  <2> SUFFICES ASSUME attestation # NoLayout, asThisProver, NEW x \in Claims,
          CASE x.phase = "register" ->
                /\ layout = PolicyLayout["register"] /\ x.subject = view.subject
                /\ x.property = word(layout, view.property_id, layout.property_id_width)
                /\ somebody(view.account) /\ view.account \in Range(view.owners)
            [] x.phase = "apply" ->
                /\ layout = PolicyLayout["apply"] /\ view.subject = <<>>
                /\ somebody(view.account) /\ mockSigns(x) /\ x.amount < AMOUNT_SIZE
                /\ IsDecimal(view.values[1]) /\ Len(view.values[1]) = layout.fields[1].width
            [] x.phase = "settle" ->
                /\ layout = PolicyLayout["settle"] /\ x.subject = view.subject
                /\ check_subject(x.subject) /\ somebody(view.values[2]) /\ mockSigns(x)
               PROVE  satisfied(x) /\ signs(prove(x), x)
    BY DEF EntitledIsSigned
  <2>1. x.phase = "register" \/ x.phase = "apply" \/ x.phase = "settle"
    <3>1. x \in Claim
      BY EvidenceAssumption
    <3> QED BY <3>1 DEF Claim
  <2>2. CASE x.phase = "register"
    BY <1>1, <2>2, OwnerEntitled
  <2>3. CASE x.phase = "apply"
    BY <1>1, <2>3, IncomeEntitled
  <2>4. CASE x.phase = "settle"
    BY <1>1, <2>4, TenancyEntitled
  <2> QED BY <2>1, <2>2, <2>3, <2>4
<1> QED BY <1>1, EvidenceInvariant, PTL

-----------------------------------------------------------------------------
(* The calendar.  First the reference calendar and the forward conversion:   *)
(* both go on by days, months, years and eras.  Then the mock notary's day   *)
(* count, which inverts it, and the comparison that Settle makes in three    *)
(* places: dates written as numbers grow with the days, so comparing either  *)
(* is the same.                                                              *)


LEMMA EraOfCycle ==
    ASSUME NEW z \in Int
    PROVE  (z + 146097) \div 146097 = (z \div 146097) + 1
  BY Z3

\* civil_from_days, calendar.rs:9-22, repeats: 146097 days later the month and the
\* day are the same, and the year is 400 more.
THEOREM CivilRepeats ==
    ASSUME NEW days \in Int
    PROVE  civil(days + 146097) = [civil(days) EXCEPT !.y = civil(days).y + 400]
<1> DEFINE z   == days + 719468
           era == z \div 146097
           doe == z - era * 146097
           yoe == yearOfEra(doe)
           doy == doe - (365 * yoe + yoe \div 4 - yoe \div 100)
           mp  == (5 * doy + 2) \div 153
           m   == IF mp < 10 THEN mp + 3 ELSE mp - 9
<1> HIDE DEF z
<1>1. z \in Int /\ days + 146097 + 719468 = z + 146097
  BY DEF z
<1>2. (z + 146097) \div 146097 = era + 1 /\ era \in Int
  BY <1>1, EraOfCycle
<1>3. (z + 146097) - (era + 1) * 146097 = doe /\ doe \in Int
  BY <1>1, <1>2
<1>4. yoe \in Int
  <2> HIDE DEF era, doe
  <2> QED BY <1>3 DEF yearOfEra
<1>5. (yoe + (era + 1) * 400) + (IF m <= 2 THEN 1 ELSE 0)
      = (yoe + era * 400 + (IF m <= 2 THEN 1 ELSE 0)) + 400
  <2>1. (IF m <= 2 THEN 1 ELSE 0) \in Int
    OBVIOUS
  <2> HIDE DEF era, yoe, m
  <2> QED BY <2>1, <1>2, <1>4
<1>6. civil(days) = [y |-> yoe + era * 400 + (IF m <= 2 THEN 1 ELSE 0), m |-> m,
                     d |-> doy - (153 * mp + 2) \div 5 + 1]
  BY DEF civil, z
<1>7. civil(days + 146097)
      = [y |-> yoe + (era + 1) * 400 + (IF m <= 2 THEN 1 ELSE 0), m |-> m,
         d |-> doy - (153 * mp + 2) \div 5 + 1]
  BY <1>1, <1>2, <1>3 DEF civil
<1> QED
  <2> HIDE DEF era, doe, yoe, doy, mp, m
  <2> QED BY <1>5, <1>6, <1>7

\* So does the reference calendar: length of months, and with it the next day.
THEOREM ReferenceRepeats ==
    ASSUME NEW t \in Date
    PROVE  following([t EXCEPT !.y = t.y + 400]) = [following(t) EXCEPT !.y = following(t).y + 400]
<1>1. isLeap(t.y + 400) <=> isLeap(t.y)
  <2>1. t.y \in Int
    BY DEF Date
  <2>2. /\ (t.y + 400) % 4 = t.y % 4
        /\ (t.y + 400) % 100 = t.y % 100
        /\ (t.y + 400) % 400 = t.y % 400
    BY <2>1
  <2> QED BY <2>2 DEF isLeap
<1>2. length(t.y + 400, t.m) = length(t.y, t.m)
  BY <1>1 DEF length
<1> DEFINE u == [t EXCEPT !.y = t.y + 400]
<1>3. /\ t = [y |-> t.y, m |-> t.m, d |-> t.d]
      /\ t.y \in Int /\ t.m \in 1..12 /\ t.d \in 1..31
      /\ u = [y |-> t.y + 400, m |-> t.m, d |-> t.d]
  BY DEF Date
<1>4. length(u.y, u.m) = length(t.y, t.m)
  BY <1>2, <1>3
<1> HIDE DEF u
<1>5. CASE t.d < length(t.y, t.m)
  <2>1. following(t) = [y |-> t.y, m |-> t.m, d |-> t.d + 1]
    BY <1>3, <1>5 DEF following
  <2>2. following(u) = [y |-> t.y + 400, m |-> t.m, d |-> t.d + 1]
    <3>1. u.d < length(u.y, u.m)
      BY <1>3, <1>4, <1>5
    <3>2. following(u) = [u EXCEPT !.d = u.d + 1]
      BY <3>1 DEF following
    <3> QED BY <1>3, <3>2
  <2> QED BY <2>1, <2>2 DEF u
<1>6. CASE ~ (t.d < length(t.y, t.m)) /\ t.m < 12
  BY <1>3, <1>4, <1>6 DEF following
<1>7. CASE ~ (t.d < length(t.y, t.m)) /\ ~ (t.m < 12)
  BY <1>3, <1>4, <1>7 DEF following
<1> QED BY <1>5, <1>6, <1>7 DEF u

\* day_number of the mock notary, mock.rs:264-305, repeats with them.
THEOREM DayNumberRepeats ==
    ASSUME NEW y \in Int, NEW m \in 1..12, NEW d \in 1..31
    PROVE  day_number(y + 400, m, d) = day_number(y, m, d) + 146097
<1> DEFINE yy == IF m <= 2 THEN y - 1 ELSE y
<1>1. yy \in Int /\ (IF m <= 2 THEN y + 400 - 1 ELSE y + 400) = yy + 400
  OBVIOUS
<1>2. (yy + 400) \div 400 = (yy \div 400) + 1 /\ yy \div 400 \in Int
  <2> HIDE DEF yy
  <2> QED BY <1>1
<1>3. (yy + 400) - ((yy \div 400) + 1) * 400 = yy - (yy \div 400) * 400
  <2> HIDE DEF yy
  <2> QED BY <1>1, <1>2
<1> QED
  <2> HIDE DEF yy
  <2> QED BY <1>1, <1>2, <1>3 DEF day_number, yy

\* The circuit's leap years, date.circom, are those of the calendar for every
\* year that four digits can write.
THEOREM CircuitLeapYears ==
    ASSUME NEW c \in 0..99, NEW y \in 0..99
    PROVE  leapCircuit(c, y) <=> isLeap(100 * c + y)
<1>1. (100 * c + y) % 4 = y % 4 /\ (100 * c + y) % 100 = y
  OBVIOUS
<1>2. (100 * c + y) % 400 = 0 <=> (y = 0 /\ c % 4 = 0)
  OBVIOUS
<1>3. y = 0 => y % 4 = 0
  OBVIOUS
<1> QED BY <1>1, <1>2, <1>3 DEF leapCircuit, isLeap, DivisibleBy4

\* What CircuitDatesAreReal checks year by year: the circuit takes exactly the
\* dates of the calendar.
THEOREM CircuitTakesRealDates ==
    ASSUME NEW c \in 0..99, NEW y \in 0..99, NEW m \in 0..99, NEW d \in 0..99
    PROVE  CalendarDate(c, y, m, d) <=> Real(100 * c + y, m, d)
<1> DEFINE L == monthLength(c, y, m)
<1>1. L \in 28..31
  BY DEF monthLength
<1>2. ASSUME m \in 1..12
      PROVE  L = length(100 * c + y, m)
  <2>1. leapCircuit(c, y) <=> isLeap(100 * c + y)
    BY CircuitLeapYears
  <2>2. CASE m = 2
    BY <2>1, <2>2 DEF monthLength, length
  <2>3. CASE m \in {4, 6, 9, 11}
    BY <2>3 DEF monthLength, length
  <2>4. CASE m \in {1, 3, 5, 7, 8, 10, 12}
    BY <2>4 DEF monthLength, length
  <2> QED BY <1>2, <2>2, <2>3, <2>4
<1> HIDE DEF L
<1>3. LessThanBits(bits7, m, 13) <=> m < 13
  BY DEF LessThanBits, bits7
<1>4. LessThanBits(bits7, d, L + 1) <=> d < L + 1
  BY <1>1 DEF LessThanBits, bits7
<1>5. CalendarDate(c, y, m, d) <=> m \in 1..12 /\ d \in 1..L
  BY <1>1, <1>3, <1>4 DEF CalendarDate, L
<1> QED BY <1>2, <1>5 DEF Real

-----------------------------------------------------------------------------
(* civil_from_days steps through the calendar.  Within an era a day is a     *)
(* year k, counted from March, and a day D of that year.                     *)

YearStart(k) == 365 * k + k \div 4 - k \div 100

MonthStart(j) == (153 * j + 2) \div 5

\* The date of day D of the year k of the era e.
marchDate(e, k, D) ==
    LET mp == (5 * D + 2) \div 153
        m  == IF mp < 10 THEN mp + 3 ELSE mp - 9
    IN [y |-> k + e * 400 + (IF m <= 2 THEN 1 ELSE 0), m |-> m, d |-> D - MonthStart(mp) + 1]

LEMMA YearOfDay ==
    ASSUME NEW n \in Int, 0 <= n, n <= 146096
    PROVE  /\ yearOfEra(n) \in Int /\ 0 <= yearOfEra(n) /\ yearOfEra(n) <= 399
           /\ YearStart(yearOfEra(n)) <= n
           /\ n < YearStart(yearOfEra(n) + 1) \/ (yearOfEra(n) = 399 /\ n = 146096)
<1> DEFINE a == n \div 1460
           b == n \div 36524
           c == n \div 146096
           k == (n - a + b - c) \div 365
           p == k \div 4
           q == k \div 100
           u == (k + 1) \div 4
           v == (k + 1) \div 100
\* Every quotient by its two bounds; the rest is linear.
<1>1. /\ a \in Int /\ 1460 * a <= n /\ n <= 1460 * a + 1459
      /\ b \in Int /\ 36524 * b <= n /\ n <= 36524 * b + 36523
      /\ c \in Int /\ 146096 * c <= n /\ n <= 146096 * c + 146095
  BY SMT
<1> HIDE DEF a, b, c
<1>2. k \in Int /\ 365 * k <= n - a + b - c /\ n - a + b - c <= 365 * k + 364
  BY <1>1, SMT
<1> HIDE DEF k
<1>3. /\ p \in Int /\ 4 * p <= k /\ k <= 4 * p + 3
      /\ q \in Int /\ 100 * q <= k /\ k <= 100 * q + 99
      /\ u \in Int /\ 4 * u <= k + 1 /\ k + 1 <= 4 * u + 3
      /\ v \in Int /\ 100 * v <= k + 1 /\ k + 1 <= 100 * v + 99
  BY <1>2, SMT
<1> HIDE DEF p, q, u, v
<1>4. 0 <= k /\ k <= 399
  BY <1>1, <1>2, SMT
<1>5. 365 * k + p - q <= n
  BY <1>1, <1>2, <1>3, SMT
<1>6. n < 365 * (k + 1) + u - v \/ (k = 399 /\ n = 146096)
  <2>1. b = 0 \/ b = 1 \/ b = 2 \/ b = 3 \/ b = 4
    BY <1>1, SMT
  <2>2. CASE b = 0
    BY <1>1, <1>2, <1>3, <1>4, <2>2, SMT
  <2>3. CASE b = 1
    BY <1>1, <1>2, <1>3, <1>4, <2>3, SMT
  <2>4. CASE b = 2
    BY <1>1, <1>2, <1>3, <1>4, <2>4, SMT
  <2>5. CASE b = 3
    BY <1>1, <1>2, <1>3, <1>4, <2>5, SMT
  <2>6. CASE b = 4
    BY <1>1, <1>2, <1>3, <1>4, <2>6, SMT
  <2> QED BY <2>1, <2>2, <2>3, <2>4, <2>5, <2>6
<1>7. yearOfEra(n) = k
  BY DEF yearOfEra, a, b, c, k
<1>8. YearStart(k) = 365 * k + p - q /\ YearStart(k + 1) = 365 * (k + 1) + u - v
  BY DEF YearStart, p, q, u, v
<1> QED BY <1>2, <1>4, <1>5, <1>6, <1>7, <1>8

LEMMA YearStartGrows ==
    ASSUME NEW i \in Int, NEW j \in Int, 0 <= i, i <= j
    PROVE  YearStart(i) <= YearStart(j) /\ YearStart(i) \in Int /\ YearStart(j) \in Int
  BY DEF YearStart

LEMMA YearOfDayUnique ==
    ASSUME NEW n \in Int, 0 <= n, n <= 146096, NEW k \in Int, 0 <= k, k <= 399,
           YearStart(k) <= n, n < YearStart(k + 1) \/ (k = 399 /\ n = 146096)
    PROVE  yearOfEra(n) = k
<1> DEFINE h == yearOfEra(n)
<1>1. /\ h \in Int /\ 0 <= h /\ h <= 399 /\ YearStart(h) <= n
      /\ n < YearStart(h + 1) \/ (h = 399 /\ n = 146096)
  BY YearOfDay
<1> HIDE DEF h
<1>2. ~ (h < k)
  <2> SUFFICES ASSUME h < k PROVE FALSE
    OBVIOUS
  <2>1. YearStart(h + 1) <= YearStart(k) /\ YearStart(h + 1) \in Int /\ YearStart(k) \in Int
    BY <1>1, YearStartGrows
  <2> QED BY <1>1, <2>1
<1>3. ~ (k < h)
  <2> SUFFICES ASSUME k < h PROVE FALSE
    OBVIOUS
  <2>1. YearStart(k + 1) <= YearStart(h) /\ YearStart(k + 1) \in Int /\ YearStart(h) \in Int
    BY <1>1, YearStartGrows
  <2> QED BY <1>1, <2>1
<1>4. h = k
  BY <1>1, <1>2, <1>3
<1> QED BY <1>4 DEF h

LEMMA YearLength ==
    ASSUME NEW k \in Int, 0 <= k, k <= 399, NEW y \in Int, y % 400 = (k + 1) % 400
    PROVE  /\ isLeap(y) <=> (YearStart(k + 1) - YearStart(k) = 366 \/ k = 399)
           /\ YearStart(k + 1) - YearStart(k) \in {365, 366}
<1>1. y % 4 = (k + 1) % 4 /\ y % 100 = (k + 1) % 100
  OBVIOUS
<1>2. isLeap(y) <=> isLeap(k + 1)
  BY <1>1 DEF isLeap
<1>3. isLeap(k + 1) <=> (YearStart(k + 1) - YearStart(k) = 366 \/ k = 399)
  BY DEF isLeap, YearStart
<1>4. YearStart(k + 1) - YearStart(k) \in {365, 366}
  BY DEF YearStart
<1> QED BY <1>2, <1>3, <1>4

LEMMA MonthOfDay ==
    ASSUME NEW D \in Int, 0 <= D, D <= 365
    PROVE  /\ (5 * D + 2) \div 153 \in 0..11
           /\ MonthStart((5 * D + 2) \div 153) <= D
           /\ D < MonthStart((5 * D + 2) \div 153 + 1)
  BY DEF MonthStart

LEMMA MonthOfDayUnique ==
    ASSUME NEW D \in Int, 0 <= D, D <= 365, NEW j \in 0..11, MonthStart(j) <= D, D < MonthStart(j + 1)
    PROVE  (5 * D + 2) \div 153 = j
  BY DEF MonthStart

\* The length of the months but February: those before it in a year from March.
LEMMA MonthLength ==
    ASSUME NEW j \in 0..10, NEW y \in Int
    PROVE  length(y, IF j < 10 THEN j + 3 ELSE j - 9) = MonthStart(j + 1) - MonthStart(j)
<1>1. \/ j = 0 \/ j = 1 \/ j = 2 \/ j = 3 \/ j = 4 \/ j = 5 \/ j = 6 \/ j = 7 \/ j = 8 \/ j = 9
      \/ j = 10
  OBVIOUS
<1> QED BY <1>1 DEF length, MonthStart

\* The date of a day from its era, its day of the era and the year that holds it.
LEMMA CivilOfYear ==
    ASSUME NEW days \in Int, NEW e \in Int, NEW n \in Int, 0 <= n, n <= 146096,
           days + 719468 = e * 146097 + n,
           NEW k \in Int, 0 <= k, k <= 399,
           YearStart(k) <= n, n < YearStart(k + 1) \/ (k = 399 /\ n = 146096)
    PROVE  civil(days) = marchDate(e, k, n - YearStart(k))
<1>1. (days + 719468) \div 146097 = e
  OBVIOUS
<1>2. (days + 719468) - e * 146097 = n
  OBVIOUS
<1>3. yearOfEra(n) = k
  BY YearOfDayUnique
<1> DEFINE era == (days + 719468) \div 146097
           doe == (days + 719468) - era * 146097
           yoe == yearOfEra(doe)
<1>4. era = e /\ doe = n /\ yoe = k
  BY <1>1, <1>2, <1>3
<1>5. civil(days) = marchDate(era, yoe, doe - YearStart(yoe))
  BY DEF civil, marchDate, YearStart, MonthStart
<1> HIDE DEF era, doe, yoe
<1> QED BY <1>4, <1>5

LEMMA EraOfDay ==
    ASSUME NEW days \in Int
    PROVE  \E e, n \in Int : 0 <= n /\ n <= 146096 /\ days + 719468 = e * 146097 + n
<1> DEFINE z == days + 719468
<1>1. /\ z \div 146097 \in Int /\ z - (z \div 146097) * 146097 \in Int
      /\ 0 <= z - (z \div 146097) * 146097 /\ z - (z \div 146097) * 146097 <= 146096
  OBVIOUS
<1> DEFINE e == z \div 146097
           n == z - (z \div 146097) * 146097
<1>2. e \in Int /\ n \in Int /\ 0 <= n /\ n <= 146096 /\ days + 719468 = e * 146097 + n
  BY <1>1
<1> HIDE DEF e, n
<1> QED BY <1>2

\* The day after a day of the same month; the first of the next month but March.
LEMMA WithinYear ==
    ASSUME NEW e \in Int, NEW k \in Int, 0 <= k, k <= 399, NEW D \in Int, 0 <= D, D <= 364,
           D = 364 => isLeap(k + e * 400 + 1), NEW N \in Int, N = D + 1
    PROVE  following(marchDate(e, k, D)) = marchDate(e, k, N)
<1> DEFINE mp == (5 * D + 2) \div 153
           np == (5 * N + 2) \div 153
           m  == IF mp < 10 THEN mp + 3 ELSE mp - 9
           y  == k + e * 400 + (IF m <= 2 THEN 1 ELSE 0)
           nm == IF np < 10 THEN np + 3 ELSE np - 9
           ny == k + e * 400 + (IF nm <= 2 THEN 1 ELSE 0)
<1>0. D \in Int /\ 0 <= D /\ D <= 365 /\ 0 <= N /\ N <= 365
  OBVIOUS
<1>1. mp \in 0..11 /\ MonthStart(mp) <= D /\ D < MonthStart(mp + 1)
  BY <1>0, MonthOfDay, Zenon
<1>2. marchDate(e, k, D) = [y |-> y, m |-> m, d |-> D - MonthStart(mp) + 1]
  BY DEF marchDate
<1>3. marchDate(e, k, N) = [y |-> ny, m |-> nm, d |-> N - MonthStart(np) + 1]
  BY DEF marchDate
<1>4. \A j \in 0..11 : MonthStart(j) <= N /\ N < MonthStart(j + 1) => np = j
  BY MonthOfDayUnique
<1> HIDE DEF mp, np
<1>5. y \in Int /\ m \in 1..12 /\ MonthStart(mp) \in Int /\ MonthStart(mp + 1) \in Int
  BY <1>1 DEF MonthStart
<1>6. CASE D + 1 < MonthStart(mp + 1)
  <2>1. np = mp
    BY <1>1, <1>4, <1>5, <1>6
  <2>2. nm = m /\ ny = y
    BY <2>1
  <2>3. D - MonthStart(mp) + 1 < length(y, m)
    <3>1. CASE mp \in 0..10
      <4>1. length(y, m) = MonthStart(mp + 1) - MonthStart(mp)
        BY <1>5, <3>1, MonthLength
      <4> HIDE DEF m, y
      <4> QED BY <1>5, <1>6, <4>1
    <3>2. CASE mp = 11
      <4>1. m = 2 /\ y = k + e * 400 + 1 /\ MonthStart(mp) = 337
        BY <3>2 DEF MonthStart
      <4> HIDE DEF m, y
      <4>2. CASE D = 364
        <5>1. length(y, m) = 29
          BY <4>1, <4>2 DEF length
        <5> QED BY <4>1, <4>2, <5>1
      <4>3. CASE D # 364
        <5>1. length(y, m) \in {28, 29}
          BY <4>1 DEF length
        <5> QED BY <4>1, <4>3, <5>1
      <4> QED BY <4>2, <4>3
    <3> QED BY <1>1, <3>1, <3>2
  <2> HIDE DEF m, y, nm, ny
  <2>4. marchDate(e, k, N) = [y |-> y, m |-> m, d |-> D - MonthStart(mp) + 1 + 1]
    BY <1>3, <1>5, <2>1, <2>2
  <2> QED BY <1>2, <2>3, <2>4 DEF following
<1>7. CASE ~ (D + 1 < MonthStart(mp + 1))
  <2>1. mp \in 0..10 /\ D + 1 = MonthStart(mp + 1)
    BY <1>1, <1>5, <1>7 DEF MonthStart
  <2>2. MonthStart(mp + 1) < MonthStart(mp + 1 + 1)
    BY <2>1 DEF MonthStart
  <2>3. np = mp + 1
    BY <1>4, <2>1, <2>2
  <2>4. length(y, m) = MonthStart(mp + 1) - MonthStart(mp)
    BY <1>5, <2>1, MonthLength
  <2>5. marchDate(e, k, N) = [y |-> ny, m |-> nm, d |-> 1]
    <3> HIDE DEF nm, ny
    <3> QED BY <1>3, <1>5, <2>1, <2>3
  <2>6. CASE m < 12
    <3>1. nm = m + 1 /\ ny = y
      BY <2>1, <2>3, <2>6
    <3> HIDE DEF m, y, nm, ny
    <3>2. ~ (D - MonthStart(mp) + 1 < length(y, m))
      BY <1>5, <2>1, <2>4
    <3> QED BY <1>2, <2>5, <2>6, <3>1, <3>2 DEF following
  <2>7. CASE ~ (m < 12)
    <3>1. nm = 1 /\ ny = y + 1
      BY <2>1, <2>3, <2>7
    <3> HIDE DEF m, y, nm, ny
    <3>2. ~ (D - MonthStart(mp) + 1 < length(y, m))
      BY <1>5, <2>1, <2>4
    <3> QED BY <1>2, <2>5, <2>7, <3>1, <3>2 DEF following
  <2> QED BY <2>6, <2>7
<1> QED BY <1>6, <1>7

\* The last day of February is followed by the first of March.
LEMMA YearEnds ==
    ASSUME NEW e \in Int, NEW k \in Int, NEW D \in {364, 365},
           D = 365 <=> isLeap(k + e * 400 + 1)
    PROVE  following(marchDate(e, k, D)) = [y |-> k + e * 400 + 1, m |-> 3, d |-> 1]
<1> DEFINE y == k + e * 400 + 1
<1>1. marchDate(e, k, D) = [y |-> y, m |-> 2, d |-> D - 336]
  <2>1. (5 * D + 2) \div 153 = 11 /\ MonthStart(11) = 337
    BY DEF MonthStart
  <2> QED BY <2>1 DEF marchDate
<1>2. length(y, 2) = D - 336
  <2>1. length(y, 2) = IF isLeap(y) THEN 29 ELSE 28
    BY DEF length
  <2> QED BY <2>1
<1> HIDE DEF y
<1>3. following([y |-> y, m |-> 2, d |-> D - 336]) = [y |-> y, m |-> 3, d |-> 1]
  BY <1>2 DEF following
<1> QED BY <1>1, <1>3 DEF y

LEMMA YearBegins ==
    ASSUME NEW e \in Int, NEW k \in Int
    PROVE  marchDate(e, k, 0) = [y |-> k + e * 400, m |-> 3, d |-> 1]
<1>1. (5 * 0 + 2) \div 153 = 0 /\ MonthStart(0) = 0
  BY DEF MonthStart
<1> QED BY <1>1 DEF marchDate

\* civil_from_days in calendar.rs is the calendar: on every day, however far from
\* 1970 and on either side of it, the date of the next day is the date that follows.
THEOREM CivilFollows ==
    ASSUME NEW days \in Int
    PROVE  following(civil(days)) = civil(days + 1)
<1>1. PICK e \in Int, n \in Int : 0 <= n /\ n <= 146096 /\ days + 719468 = e * 146097 + n
  BY EraOfDay
<1>2. PICK k \in Int : /\ 0 <= k /\ k <= 399 /\ YearStart(k) <= n
                       /\ n < YearStart(k + 1) \/ (k = 399 /\ n = 146096)
  BY <1>1, YearOfDay
<1> DEFINE D == n - YearStart(k)
<1>3. civil(days) = marchDate(e, k, D)
  BY ONLY days \in Int, <1>1, <1>2, CivilOfYear
<1>4. YearStart(399) = 145731 /\ YearStart(400) = 146096 /\ YearStart(0) = 0 /\ YearStart(1) = 365
  BY DEF YearStart
<1>5. /\ isLeap(k + e * 400 + 1) <=> (YearStart(k + 1) - YearStart(k) = 366 \/ k = 399)
      /\ YearStart(k + 1) - YearStart(k) \in {365, 366}
  <2> DEFINE y == k + e * 400 + 1
  <2>1. y \in Int /\ y % 400 = (k + 1) % 400
    BY <1>1, <1>2
  <2> HIDE DEF y
  <2>2. /\ isLeap(y) <=> (YearStart(k + 1) - YearStart(k) = 366 \/ k = 399)
        /\ YearStart(k + 1) - YearStart(k) \in {365, 366}
    BY <1>2, <2>1, YearLength
  <2> QED BY <2>2 DEF y
<1>6. YearStart(k) \in Int /\ YearStart(k + 1) \in Int
  BY <1>2, YearStartGrows
<1>7. CASE n = 146096
  <2>1. k = 399
    <3> SUFFICES ASSUME k < 399 PROVE FALSE
      BY <1>2
    <3>1. YearStart(k + 1) <= YearStart(399)
      BY <1>2, YearStartGrows
    <3> QED BY <1>2, <1>4, <1>6, <1>7, <3>1
  <2>2. D = 365
    BY <1>4, <1>7, <2>1
  <2>3. following(marchDate(e, k, 365)) = [y |-> k + e * 400 + 1, m |-> 3, d |-> 1]
    BY <1>5, <2>1, YearEnds
  <2>4. civil(days + 1) = marchDate(e + 1, 0, 0)
    <3>1. e + 1 \in Int /\ days + 1 \in Int /\ days + 1 + 719468 = (e + 1) * 146097 + 0
      BY <1>1, <1>7
    <3>2. YearStart(0) <= 0 /\ 0 < YearStart(0 + 1) /\ 0 - YearStart(0) = 0
      BY <1>4
    <3>3. civil(days + 1) = marchDate(e + 1, 0, 0 - YearStart(0))
      BY <3>1, <3>2, CivilOfYear
    <3> QED BY <3>2, <3>3
  <2>5. marchDate(e + 1, 0, 0) = [y |-> 0 + (e + 1) * 400, m |-> 3, d |-> 1]
    BY YearBegins
  <2>6. k + e * 400 + 1 = 0 + (e + 1) * 400
    BY <2>1
  <2> QED BY <1>3, <2>2, <2>3, <2>4, <2>5, <2>6
<1>8. CASE n # 146096 /\ (n + 1 < YearStart(k + 1) \/ k = 399)
  <2>1. n + 1 < YearStart(k + 1) \/ (k = 399 /\ n + 1 = 146096)
    BY <1>2, <1>4, <1>8
  <2>2. D \in Int /\ 0 <= D /\ D <= 364 /\ (n + 1) - YearStart(k) = D + 1
    BY <1>2, <1>4, <1>5, <1>6, <2>1
  <2>3. D = 364 => isLeap(k + e * 400 + 1)
    BY <1>2, <1>4, <1>5, <1>6, <2>1
  <2>4. civil(days + 1) = marchDate(e, k, (n + 1) - YearStart(k))
    <3>1. /\ days + 1 \in Int /\ n + 1 \in Int /\ 0 <= n + 1 /\ n + 1 <= 146096
          /\ days + 1 + 719468 = e * 146097 + (n + 1) /\ YearStart(k) <= n + 1
      BY <1>1, <1>2, <1>6, <1>8
    <3> DEFINE next == days + 1
               n1   == n + 1
    <3> HIDE DEF next, n1
    <3>2. /\ next \in Int /\ n1 \in Int /\ 0 <= n1 /\ n1 <= 146096
          /\ next + 719468 = e * 146097 + n1 /\ YearStart(k) <= n1
          /\ n1 < YearStart(k + 1) \/ (k = 399 /\ n1 = 146096)
          /\ k \in Int /\ 0 <= k /\ k <= 399 /\ e \in Int
      BY <1>1, <1>2, <2>1, <3>1 DEF next, n1
    <3>3. civil(next) = marchDate(e, k, n1 - YearStart(k))
      BY <3>2, CivilOfYear
    <3> QED BY <3>3 DEF next, n1
  <2> HIDE DEF D
  <2>5. following(marchDate(e, k, D)) = marchDate(e, k, D + 1)
    BY <1>2, <2>2, <2>3, WithinYear
  <2> QED BY <1>3, <2>2, <2>4, <2>5
<1>9. CASE k < 399 /\ ~ (n + 1 < YearStart(k + 1))
  <2>1. n + 1 = YearStart(k + 1) /\ D = YearStart(k + 1) - YearStart(k) - 1
    BY <1>2, <1>6, <1>9
  <2>2. D \in {364, 365} /\ (D = 365 <=> isLeap(k + e * 400 + 1))
    BY <1>5, <1>6, <1>9, <2>1
  <2> HIDE DEF D
  <2>3. following(marchDate(e, k, D)) = [y |-> k + e * 400 + 1, m |-> 3, d |-> 1]
    BY <2>2, YearEnds
  <2>4. civil(days + 1) = marchDate(e, k + 1, 0)
    <3>1. /\ days + 1 \in Int /\ n + 1 \in Int /\ 0 <= n + 1
          /\ days + 1 + 719468 = e * 146097 + (n + 1)
          /\ k + 1 \in Int /\ 0 <= k + 1 /\ k + 1 <= 399
      BY <1>1, <1>2, <1>9
    <3>2. n + 1 <= 146096
      <4>1. YearStart(k + 1) <= YearStart(400)
        BY <1>2, <1>9, YearStartGrows
      <4> QED BY <1>4, <2>1, <4>1
    <3>3. YearStart(k + 1) <= n + 1 /\ n + 1 < YearStart(k + 1 + 1)
      <4>1. YearStart(k + 1 + 1) - YearStart(k + 1) \in {365, 366}
        BY <3>1, YearLength
      <4>2. YearStart(k + 1 + 1) \in Int
        BY <3>1, YearStartGrows
      <4> QED BY <1>6, <2>1, <4>1, <4>2
    <3>4. civil(days + 1) = marchDate(e, k + 1, (n + 1) - YearStart(k + 1))
      <4> DEFINE next == days + 1
                 n1   == n + 1
                 k1   == k + 1
      <4> HIDE DEF next, n1, k1
      <4>1. /\ next \in Int /\ n1 \in Int /\ 0 <= n1 /\ n1 <= 146096
            /\ next + 719468 = e * 146097 + n1 /\ YearStart(k1) <= n1
            /\ k1 \in Int /\ 0 <= k1 /\ k1 <= 399 /\ n1 < YearStart(k1 + 1)
        BY <3>1, <3>2, <3>3 DEF next, n1, k1
      <4>2. civil(next) = marchDate(e, k1, n1 - YearStart(k1))
        BY <1>1, <4>1, CivilOfYear
      <4> QED BY <4>2 DEF next, n1, k1
    <3>5. (n + 1) - YearStart(k + 1) = 0
      BY <1>6, <2>1
    <3> QED BY <3>4, <3>5
  <2>5. marchDate(e, k + 1, 0) = [y |-> k + 1 + e * 400, m |-> 3, d |-> 1]
    BY YearBegins
  <2>6. k + 1 + e * 400 = k + e * 400 + 1
    OBVIOUS
  <2> QED BY <1>3, <2>3, <2>4, <2>5, <2>6
<1> QED BY <1>2, <1>7, <1>8, <1>9

\* Day 0 is 1970-01-01.
THEOREM CivilBegins == civil(0) = [y |-> 1970, m |-> 1, d |-> 1]
<1>1. (0 + 719468) \div 146097 = 4 /\ (0 + 719468) - 4 * 146097 = 135080
  OBVIOUS
<1>2. yearOfEra(135080) = 369
  BY DEF yearOfEra
<1>3. 135080 - (365 * 369 + 369 \div 4 - 369 \div 100) = 306
  OBVIOUS
<1>4. (5 * 306 + 2) \div 153 = 10 /\ (153 * 10 + 2) \div 5 = 306
  OBVIOUS
<1> QED BY <1>1, <1>2, <1>3, <1>4 DEF civil

dated == date = civil(day) /\ day \in Int

\* On every walk that begins on a right date, of any length and in either direction
\* from 1970, calendar.rs names every day by its date.
THEOREM DateCorrect ==
    ASSUME \A w \in Walks : w.date = civil(w.first)
    PROVE  WalkSpec => []DateAgrees
<1>1. FirstDay => dated
  BY CalendarAssumption DEF FirstDay, dated
<1>2. dated /\ [NextDay]_walkVars => dated'
  <2> SUFFICES ASSUME dated, [NextDay]_walkVars PROVE dated'
    OBVIOUS
  <2>1. CASE Tick
    <3>1. following(civil(day)) = civil(day + 1)
      BY CivilFollows DEF dated
    <3> QED BY <2>1, <3>1 DEF Tick, dated
  <2>2. CASE UNCHANGED walkVars
    BY <2>2 DEF walkVars, dated
  <2> QED BY <2>1, <2>2 DEF NextDay
<1>3. dated => DateAgrees
  BY DEF dated, DateAgrees, ymd_of_days
<1> QED BY <1>1, <1>2, <1>3, PTL DEF WalkSpec

\* In every year that four digits can spell, the circuit takes exactly the dates
\* there are.
THEOREM CircuitCorrect == WalkSpec => []CircuitDatesAreReal
<1>1. CircuitDatesAreReal
  <2> SUFFICES ASSUME fourDigits(date.y), NEW m \in 0..99, NEW d \in 0..99
               PROVE  CalendarDate(date.y \div 100, date.y % 100, m, d) <=> Real(date.y, m, d)
    BY DEF CircuitDatesAreReal
  <2> DEFINE c == date.y \div 100
             y == date.y % 100
  <2>1. c \in 0..99 /\ y \in 0..99 /\ 100 * c + y = date.y
    BY DEF fourDigits
  <2> HIDE DEF c, y
  <2>2. CalendarDate(c, y, m, d) <=> Real(100 * c + y, m, d)
    BY <2>1, CircuitTakesRealDates
  <2> QED BY <2>1, <2>2 DEF c, y
<1> QED BY <1>1, PTL
-----------------------------------------------------------------------------
(* The rule of Settle.  The day count of the mock notary inverts             *)
(* civil_from_days, and the numbers Y * 10000 + M * 100 + D grow with the    *)
(* days, so comparing the one is comparing the other.                        *)

\* A day of the calendar in the form in which both conversions meet it.
LEMMA MarchForm ==
    ASSUME NEW days \in Int
    PROVE  \E e, k, D \in Int :
             /\ 0 <= k /\ k <= 399 /\ 0 <= D /\ D <= 365
             /\ D = 365 => isLeap(k + e * 400 + 1)
             /\ days + 719468 = e * 146097 + YearStart(k) + D
             /\ civil(days) = marchDate(e, k, D)
<1>1. PICK e, n \in Int : 0 <= n /\ n <= 146096 /\ days + 719468 = e * 146097 + n
  BY EraOfDay
<1> DEFINE k == yearOfEra(n)
           D == n - YearStart(k)
<1>2. /\ k \in Int /\ 0 <= k /\ k <= 399 /\ YearStart(k) <= n
      /\ n < YearStart(k + 1) \/ (k = 399 /\ n = 146096)
  BY <1>1, YearOfDay
<1>3. civil(days) = marchDate(e, k, D)
  <2> HIDE DEF k
  <2> QED BY ONLY days \in Int, <1>1, <1>2, CivilOfYear
<1>4. /\ isLeap(k + e * 400 + 1) <=> (YearStart(k + 1) - YearStart(k) = 366 \/ k = 399)
      /\ YearStart(k + 1) - YearStart(k) \in {365, 366}
  <2> HIDE DEF k
  <2>1. (k + e * 400 + 1) % 400 = (k + 1) % 400
    BY <1>2
  <2> QED BY <1>2, <2>1, YearLength
<1>5. YearStart(k) \in Int /\ YearStart(k + 1) \in Int /\ YearStart(399) = 145731
  <2> HIDE DEF k
  <2> QED BY <1>2 DEF YearStart
<1> HIDE DEF k
<1>6. D \in Int /\ 0 <= D /\ D <= 365 /\ (D = 365 => isLeap(k + e * 400 + 1))
  BY <1>1, <1>2, <1>4, <1>5
<1>7. days + 719468 = e * 146097 + YearStart(k) + D
  BY <1>1, <1>5
<1> HIDE DEF D
<1> QED BY <1>2, <1>3, <1>6, <1>7

\* A date in that form is a date of the reference calendar, and days_from_civil
\* (mock.rs:38-47) takes it back to its day.
LEMMA MarchDateReal ==
    ASSUME NEW e \in Int, NEW k \in Int, 0 <= k, k <= 399, NEW D \in Int, 0 <= D, D <= 365,
           D = 365 => isLeap(k + e * 400 + 1), NEW t, t = marchDate(e, k, D)
    PROVE  /\ t.y \in Int /\ t.m \in 1..12 /\ t.d \in 1..31
           /\ Real(t.y, t.m, t.d)
           /\ day_number(t.y, t.m, t.d) = e * 146097 + YearStart(k) + D - 719468
<1> DEFINE mp == (5 * D + 2) \div 153
           m  == IF mp < 10 THEN mp + 3 ELSE mp - 9
           y  == k + e * 400 + (IF m <= 2 THEN 1 ELSE 0)
           d  == D - MonthStart(mp) + 1
<1>1. mp \in 0..11 /\ MonthStart(mp) <= D /\ D < MonthStart(mp + 1)
  BY MonthOfDay
<1>2. t.y = y /\ t.m = m /\ t.d = d
  BY DEF marchDate
<1> HIDE DEF mp
<1>3. MonthStart(mp) \in Int /\ MonthStart(mp + 1) \in Int /\ MonthStart(11) = 337
      /\ MonthStart(mp + 1) - MonthStart(mp) <= 31
  BY <1>1 DEF MonthStart
<1>4. m \in 1..12 /\ y \in Int /\ d \in Int /\ 1 <= d /\ d <= 31
  BY <1>1, <1>3
<1>5. d <= length(y, m)
  <2>1. CASE mp \in 0..10
    <3>1. length(y, m) = MonthStart(mp + 1) - MonthStart(mp)
      BY <1>4, <2>1, MonthLength
    <3> QED BY <1>1, <1>3, <3>1
  <2>2. CASE mp = 11
    <3>1. m = 2 /\ y = k + e * 400 + 1 /\ d = D - 336
      BY <1>3, <2>2
    <3>2. length(y, m) = IF isLeap(y) THEN 29 ELSE 28
      BY <3>1 DEF length
    <3> QED BY <3>1, <3>2
  <2> QED BY <1>1, <2>1, <2>2
<1>6. Real(y, m, d)
  <2>1. length(y, m) \in Int
    BY <1>4 DEF length
  <2> QED BY <1>4, <1>5, <2>1 DEF Real
<1>7. (IF m <= 2 THEN y - 1 ELSE y) = k + e * 400
  BY <1>1
<1>8. (k + e * 400) \div 400 = e /\ (k + e * 400) - e * 400 = k
  OBVIOUS
<1>9. (m + 9) % 12 = mp
  BY <1>1
<1>10. day_number(y, m, d) = e * 146097 + (k * 365 + k \div 4 - k \div 100 + (MonthStart(mp) + d - 1)) - 719468
  <2> DEFINE yy  == IF m <= 2 THEN y - 1 ELSE y
             era == yy \div 400
             yoe == yy - era * 400
             mm  == (m + 9) % 12
  <2>1. yy = k + e * 400 /\ era = e /\ yoe = k /\ mm = mp
    BY <1>7, <1>8, <1>9
  <2>2. day_number(y, m, d)
        = era * 146097 + (yoe * 365 + yoe \div 4 - yoe \div 100 + (MonthStart(mm) + d - 1)) - 719468
    <3> HIDE DEF y, m, d
    <3> QED BY DEF day_number, MonthStart
  <2> HIDE DEF y, m, d, yy, era, yoe, mm
  <2> QED BY <2>1, <2>2
<1>11. MonthStart(mp) + d - 1 = D
  BY <1>3
<1>12. k \div 4 \in Int /\ k \div 100 \in Int
  OBVIOUS
<1>13. day_number(y, m, d) = e * 146097 + YearStart(k) + D - 719468
  <2> HIDE DEF y, m, d
  <2> QED BY <1>3, <1>4, <1>10, <1>11, <1>12 DEF YearStart
<1> HIDE DEF y, m, d
<1> QED BY <1>2, <1>4, <1>6, <1>13

\* day_number (mock.rs:263-305) undoes civil_from_days (calendar.rs:9-22) on every
\* day, before and after 1970, and every date that civil_from_days returns is real.
THEOREM DayNumberInverts ==
    ASSUME NEW days \in Int, NEW t, t = civil(days)
    PROVE  /\ t.y \in Int /\ t.m \in 1..12 /\ t.d \in 1..31
           /\ Real(t.y, t.m, t.d)
           /\ day_number(t.y, t.m, t.d) = days
<1>1. PICK e, k, D \in Int :
        /\ 0 <= k /\ k <= 399 /\ 0 <= D /\ D <= 365
        /\ D = 365 => isLeap(k + e * 400 + 1)
        /\ days + 719468 = e * 146097 + YearStart(k) + D
        /\ t = marchDate(e, k, D)
  BY MarchForm
<1>2. /\ t.y \in Int /\ t.m \in 1..12 /\ t.d \in 1..31
      /\ Real(t.y, t.m, t.d)
      /\ day_number(t.y, t.m, t.d) = e * 146097 + YearStart(k) + D - 719468
  BY <1>1, MarchDateReal, SMTT(60)
<1>3. YearStart(k) \in Int
  BY <1>1 DEF YearStart
<1> QED BY <1>1, <1>2, <1>3

\* The date after a real date is written with a larger number.
LEMMA FollowingGrows ==
    ASSUME NEW y \in Int, NEW m \in 1..12, NEW d \in 1..31, Real(y, m, d),
           NEW t, t = following([y |-> y, m |-> m, d |-> d])
    PROVE  ymd(y, m, d) < ymd(t.y, t.m, t.d) /\ t.y \in {y, y + 1}
<1>1. CASE d < length(y, m)
  <2>1. t.y = y /\ t.m = m /\ t.d = d + 1
    BY <1>1 DEF following
  <2> QED BY <2>1 DEF ymd
<1>2. CASE ~ (d < length(y, m)) /\ m < 12
  <2>1. t.y = y /\ t.m = m + 1 /\ t.d = 1
    BY <1>2 DEF following
  <2> QED BY <2>1 DEF ymd
<1>3. CASE ~ (d < length(y, m)) /\ ~ (m < 12)
  <2>1. t.y = y + 1 /\ t.m = 1 /\ t.d = 1
    BY <1>3 DEF following
  <2> QED BY <2>1 DEF ymd
<1> QED BY <1>1, <1>2, <1>3

LEMMA CivilRecord ==
    ASSUME NEW days \in Int, NEW t, t = civil(days)
    PROVE  t = [y |-> t.y, m |-> t.m, d |-> t.d]
  BY DEF civil

\* From one day to the next the date is written with a larger number, and the year
\* stays or is the next.
LEMMA CivilGrows ==
    ASSUME NEW days \in Int, NEW s, s = civil(days), NEW t, t = civil(days + 1)
    PROVE  /\ ymd(s.y, s.m, s.d) < ymd(t.y, t.m, t.d)
           /\ t.y = s.y \/ t.y = s.y + 1
<1> DEFINE y == s.y
           m == s.m
           d == s.d
<1>1. y \in Int /\ m \in 1..12 /\ d \in 1..31 /\ Real(y, m, d)
  BY DayNumberInverts
<1>2. s = [y |-> y, m |-> m, d |-> d]
  BY CivilRecord
<1>3. t = following([y |-> y, m |-> m, d |-> d])
  BY <1>2, CivilFollows
<1> HIDE DEF y, m, d
<1>4. ymd(y, m, d) < ymd(t.y, t.m, t.d) /\ t.y \in {y, y + 1}
  BY <1>1, <1>3, FollowingGrows, ZenonT(60)
<1> QED BY <1>4 DEF y, m, d

\* The last date of four digits, as a number.
lastYmd == 99991231

\* Step (4) of phi_s.circom compares a real date of a year of four digits with the
\* engagement day as numbers; 27 bits hold both.
LEMMA NotBeforeCompares ==
    ASSUME NEW t, t.y \in Int, t.m \in 1..12, t.d \in 1..31, Real(t.y, t.m, t.d), fourDigits(t.y),
           NEW E \in Int, E <= lastYmd
    PROVE  NotBefore(t, E) <=> (0 <= E /\ E <= ymd(t.y, t.m, t.d))
<1> DEFINE c == t.y \div 100
           y == t.y % 100
           n == (c * 100 + y) * 10000 + t.m * 100 + t.d
<1>1. c \in 0..99 /\ y \in 0..99 /\ 100 * c + y = t.y
  BY SMTT(30) DEF fourDigits
<1>2. CalendarDate(c, y, t.m, t.d)
  <2> HIDE DEF c, y
  <2>1. t.m \in 0..99 /\ t.d \in 0..99 /\ Real(100 * c + y, t.m, t.d)
    BY <1>1
  <2> QED BY <1>1, <2>1, CircuitTakesRealDates
<1>3. n = ymd(t.y, t.m, t.d) /\ n \in Int /\ 0 <= n /\ n <= lastYmd
  <2> HIDE DEF c, y
  <2>1. c * 100 + y = t.y
    BY <1>1
  <2> QED BY <2>1, SMT DEF ymd, fourDigits, lastYmd
<1>4. NotBefore(t, E) <=> E \in 0..(bits27 - 1) /\ GreaterEqThanBits(bits27, n, E)
  <2>1. NotBefore(t, E) <=> /\ CalendarDate(c, y, t.m, t.d) /\ E \in 0..(bits27 - 1)
                            /\ GreaterEqThanBits(bits27, n, E)
    BY DEF NotBefore
  <2> QED BY <1>2, <2>1
<1> HIDE DEF n
<1>5. ASSUME 0 <= E PROVE GreaterEqThanBits(bits27, n, E) <=> E <= n
  <2> DEFINE x == E + 134217728 - (n + 1)
  <2>1. x \in Int /\ 0 <= x /\ x < 268435456 /\ (x < 134217728 <=> E <= n)
    BY <1>3, <1>5, SMT DEF lastYmd
  <2>2. GreaterEqThanBits(bits27, n, E) <=> (x \div 134217728) % 2 = 0
    BY SMT DEF GreaterEqThanBits, LessThanBits, bits27
  <2> HIDE DEF x
  <2>3. (x \div 134217728) % 2 = 0 <=> x < 134217728
    BY <2>1, SMT
  <2> QED BY <2>1, <2>2, <2>3, SMT
<1>6. E \in 0..(bits27 - 1) <=> 0 <= E
  <2> HIDE DEF c, y
  <2>1. bits27 - 1 = 134217727
    BY SMT DEF bits27
  <2>2. E <= 134217727
    BY SMT DEF lastYmd
  <2> QED BY <2>1, <2>2, SMT
<1> QED BY <1>3, <1>4, <1>5, <1>6

\* The quotient of a moment of a day by the length of the day.
LEMMA DayOfMoment ==
    ASSUME NEW S \in Nat, S > 0, NEW d \in Int, NEW s \in Int, 0 <= s, s < S
    PROVE  (d * S + s) \div S = d
<1> DEFINE q == (d * S + s) \div S
           r == (d * S + s) % S
<1>1. d * S + s \in Int
  OBVIOUS
<1>2. q \in Int /\ r \in Int /\ 0 <= r /\ r < S /\ d * S + s = S * q + r
  BY <1>1, Z3
<1> HIDE DEF q, r
<1>3. ~ (q < d)
  <2> SUFFICES ASSUME q <= d - 1 PROVE FALSE
    BY <1>2
  <2>1. S * q <= S * (d - 1)
    BY <1>2, Z3
  <2> QED BY <1>2, <2>1, Z3
<1>4. ~ (d < q)
  <2> SUFFICES ASSUME d + 1 <= q PROVE FALSE
    BY <1>2
  <2>1. S * (d + 1) <= S * q
    BY <1>2, Z3
  <2> QED BY <1>2, <2>1, Z3
<1>5. q = d
  BY <1>2, <1>3, <1>4
<1> QED BY <1>5 DEF q

\* engagement_day (calendar.rs:23-34) gives an engagement the local day on which it
\* happened, at every moment of it and in every time zone.
LEMMA EngagedToday ==
    ASSUME day \in Int, NEW second \in moments, NEW offset \in Offsets,
           expiry(second, offset) >= TauLock
    PROVE  /\ engagement_day(expiry(second, offset), TauLock, offset) = ymd_of_days(day)
           /\ (expiry(second, offset) - TauLock + offset) \div SECS_PER_DAY = day
<1>1. /\ SECS_PER_DAY \in Nat /\ SECS_PER_DAY > 0 /\ TauLock \in Int /\ offset \in Int
  BY CalendarAssumption
<1>2. second \in Int /\ 0 <= second /\ second < SECS_PER_DAY
  BY <1>1 DEF moments
<1>3. expiry(second, offset) - TauLock + offset = day * SECS_PER_DAY + second
  <2>1. day * SECS_PER_DAY \in Int
    BY <1>1
  <2> QED BY <1>1, <1>2, <2>1 DEF expiry
<1>4. (day * SECS_PER_DAY + second) \div SECS_PER_DAY = day
  BY <1>1, <1>2, DayOfMoment
<1>5. expiry(second, offset) \in Int
  <2>1. day * SECS_PER_DAY \in Int
    BY <1>1
  <2> QED BY <1>1, <1>2, <2>1 DEF expiry
<1>6. ~ (expiry(second, offset) < TauLock)
  BY <1>1, <1>5
<1> QED BY <1>3, <1>4, <1>6 DEF engagement_day

\* The circuit takes the record of a day exactly when that day is not before the
\* engagement's: for the day itself and its two neighbours.
LEMMA CircuitComparesDays ==
    ASSUME NEW days \in Int, NEW n \in {days - 1, days, days + 1}, NEW t, t = civil(n),
           fourDigits(t.y), n <= days \/ t.y # 0
    PROVE  NotBefore(t, ymd_of_days(days)) <=> n >= days
<1> DEFINE c == civil(days)
<1>1. c.y \in Int /\ c.m \in 1..12 /\ c.d \in 1..31 /\ Real(c.y, c.m, c.d)
  BY DayNumberInverts
<1>2. t.y \in Int /\ t.m \in 1..12 /\ t.d \in 1..31 /\ Real(t.y, t.m, t.d)
  BY DayNumberInverts
<1>3. ASSUME n = days - 1 PROVE ymd(t.y, t.m, t.d) < ymd(c.y, c.m, c.d)
  <2>1. n \in Int /\ c = civil(n + 1)
    BY <1>3
  <2> HIDE DEF c
  <2> QED BY <2>1, CivilGrows
<1>4. ASSUME n = days + 1
      PROVE  ymd(c.y, c.m, c.d) < ymd(t.y, t.m, t.d) /\ (t.y = c.y \/ t.y = c.y + 1)
  <2>1. c = civil(days) /\ t = civil(days + 1)
    BY <1>4
  <2> HIDE DEF c
  <2> QED BY <2>1, CivilGrows
<1>5. ASSUME n = days PROVE t = c
  BY <1>5
<1>6. ymd_of_days(days) = IF fourDigits(c.y) THEN ymd(c.y, c.m, c.d) ELSE NoDay
  BY DEF ymd_of_days
<1> HIDE DEF c
<1>7. CASE fourDigits(c.y)
  <2> DEFINE E == ymd(c.y, c.m, c.d)
  <2>1. E \in Int /\ 0 <= E /\ E <= lastYmd
    BY <1>1, <1>7, SMTT(30) DEF ymd, fourDigits, lastYmd
  <2>2. ymd(t.y, t.m, t.d) \in Int
    BY <1>2 DEF ymd
  <2>3. ymd_of_days(days) = E
    BY <1>6, <1>7
  <2>4. NotBefore(t, E) <=> E <= ymd(t.y, t.m, t.d)
    <3> HIDE DEF E
    <3> QED BY <1>2, <2>1, NotBeforeCompares
  <2> QED BY <1>3, <1>4, <1>5, <2>1, <2>2, <2>3, <2>4
<1>8. CASE ~ fourDigits(c.y)
  <2>1. ymd_of_days(days) = -1
    BY <1>6, <1>8 DEF NoDay
  <2>2. ~ NotBefore(t, -1)
    BY DEF NotBefore
  <2>3. ~ (n >= days)
    BY <1>1, <1>2, <1>4, <1>5, <1>8 DEF fourDigits
  <2> QED BY <2>1, <2>2, <2>3
<1> QED BY <1>7, <1>8

\* The record of the engagement's own day settles it; that of the day before does not.
LEMMA SettlesFromToday ==
    ASSUME NEW days \in Int, NEW t, t = civil(days), NEW s, s = civil(days - 1), fourDigits(t.y), t.y # 0
    PROVE  NotBefore(t, ymd_of_days(days)) /\ ~ NotBefore(s, ymd_of_days(days))
<1>1. NotBefore(t, ymd_of_days(days))
  <2>1. days \in {days - 1, days, days + 1} /\ days <= days /\ days >= days
    OBVIOUS
  <2> QED BY <2>1, CircuitComparesDays
<1>2. ~ NotBefore(s, ymd_of_days(days))
  <2> DEFINE n == days - 1
  <2>1. n \in Int /\ n \in {days - 1, days, days + 1} /\ n <= days /\ ~ (n >= days) /\ n + 1 = days
    OBVIOUS
  <2>2. s = civil(n) /\ t = civil(n + 1)
    BY <2>1
  <2> HIDE DEF n
  <2>3. s.y \in Int /\ (t.y = s.y \/ t.y = s.y + 1)
    BY <2>1, <2>2, CivilGrows, DayNumberInverts
  <2>4. fourDigits(s.y)
    BY <2>3 DEF fourDigits
  <2> QED BY <2>1, <2>2, <2>4, CircuitComparesDays
<1> QED BY <1>1, <1>2

\* The walk's two dates are those of its day and of the day before, but on its
\* first day, when they are the same.
walked == dated /\ (yesterday = date \/ yesterday = civil(day - 1))

LEMMA SettleDateRuleHolds == walked => SettleDateRule
<1> SUFFICES ASSUME walked, NEW second \in moments, NEW offset \in Offsets,
                    expiry(second, offset) >= TauLock, yesterday # date, fourDigits(date.y), date.y # 0
             PROVE  LET today == engagement_day(expiry(second, offset), TauLock, offset)
                    IN NotBefore(date, today) /\ ~ NotBefore(yesterday, today)
  BY DEF SettleDateRule
<1>1. day \in Int /\ date = civil(day) /\ yesterday = civil(day - 1)
  BY DEF walked, dated
<1>2. engagement_day(expiry(second, offset), TauLock, offset) = ymd_of_days(day)
  BY <1>1, EngagedToday
<1>3. NotBefore(date, ymd_of_days(day)) /\ ~ NotBefore(yesterday, ymd_of_days(day))
  BY <1>1, SettlesFromToday
<1> QED BY <1>2, <1>3

\* The mock notary (mock.rs:216-228) and the circuit answer alike.
LEMMA MockComparesDays ==
    ASSUME day \in Int, NEW second \in moments, NEW offset \in Offsets,
           expiry(second, offset) >= TauLock,
           NEW n \in {day - 1, day, day + 1}, NEW t, t = civil(n), fourDigits(t.y), t.y # 0
    PROVE  MockNotBefore(t, expiry(second, offset), TauLock, offset)
           <=> NotBefore(t, engagement_day(expiry(second, offset), TauLock, offset))
<1>1. Real(t.y, t.m, t.d) /\ day_number(t.y, t.m, t.d) = n
  <2>1. n \in Int
    OBVIOUS
  <2> QED BY <2>1, DayNumberInverts
<1>2. NotBefore(t, ymd_of_days(day)) <=> n >= day
  BY CircuitComparesDays
<1>3. /\ engagement_day(expiry(second, offset), TauLock, offset) = ymd_of_days(day)
      /\ (expiry(second, offset) - TauLock + offset) \div SECS_PER_DAY = day
  BY EngagedToday
<1>4. MockNotBefore(t, expiry(second, offset), TauLock, offset) <=> n >= day
  BY <1>1, <1>3 DEF MockNotBefore
<1> QED BY <1>2, <1>3, <1>4

LEMMA MockAgreesHolds == walked => MockAgrees
<1> SUFFICES ASSUME walked PROVE MockAgrees
  OBVIOUS
<1>1. day \in Int /\ date = civil(day)
  BY DEF walked, dated
<1>2. ASSUME NEW t \in {date, yesterday, following(date)}
      PROVE  \E n \in {day - 1, day, day + 1} : t = civil(n)
  <2>1. following(date) = civil(day + 1)
    BY <1>1, CivilFollows
  <2> QED BY <1>1, <2>1 DEF walked
<1>3. day_number(date.y, date.m, date.d) = day
  BY <1>1, DayNumberInverts
<1> QED BY <1>1, <1>2, <1>3, MockComparesDays, Zenon DEF MockAgrees

\* On every such walk, for every length of the day, time zone and lock window: the
\* notary's engagement day, the circuit and the mock notary draw the line of Settle
\* between the same two records, the last of yesterday's and the first of today's.
THEOREM SettleDatesCorrect ==
    ASSUME \A w \in Walks : w.date = civil(w.first)
    PROVE  WalkSpec => []SettleDatesAgree
<1>1. FirstDay => walked
  BY CalendarAssumption DEF FirstDay, walked, dated
<1>2. walked /\ [NextDay]_walkVars => walked'
  <2> SUFFICES ASSUME walked, [NextDay]_walkVars PROVE walked'
    OBVIOUS
  <2>1. CASE Tick
    <3>1. following(civil(day)) = civil(day + 1) /\ (day + 1) - 1 = day
      BY CivilFollows DEF walked, dated
    <3> QED BY <2>1, <3>1 DEF Tick, walked, dated
  <2>2. CASE UNCHANGED walkVars
    BY <2>2 DEF walkVars, walked, dated
  <2> QED BY <2>1, <2>2 DEF NextDay
<1>3. walked => SettleDatesAgree
  BY SettleDateRuleHolds, MockAgreesHolds DEF SettleDatesAgree
<1> QED BY <1>1, <1>2, <1>3, PTL DEF WalkSpec
=============================================================================
