--------------------------- MODULE SequenceLemmas ---------------------------
(***************************************************************************)
(* Facts about numbers and sequences that the proofs about a byte stream   *)
(* need: induction stated for a set of numbers, functions defined by       *)
(* recursion on 0..m, the two halves of a sequence, and FlattenSeq.        *)
(***************************************************************************)
EXTENDS SequencesExt, SequenceTheorems, WellFoundedInduction, TLAPS

-----------------------------------------------------------------------------
(* Induction, for a set of numbers in place of a predicate.                *)

LEMMA LessThanWellFounded ==
  IsWellFoundedOn({ss \in Nat \X Nat : ss[1] < ss[2]}, Nat)
BY NatLessThanWellFounded DEF OpToRel

LEMMA LeastNumber ==
  ASSUME NEW T, T \subseteq Nat, T # {}
  PROVE  \E x \in T : \A y \in T : x <= y
<1>1. PICK R : R = {ss \in Nat \X Nat : ss[1] < ss[2]}
  OBVIOUS
<1>2. IsWellFoundedOn(R, Nat)
  BY <1>1, LessThanWellFounded
<1>3. \E x \in T : \A y \in T : ~(<<y, x>> \in R)
  BY <1>2, WFMin
<1>4. \A x, y \in Nat : <<x, y>> \in R <=> x < y
  BY <1>1
<1>5. PICK x \in T : \A y \in T : ~(<<y, x>> \in R)
  BY <1>3
<1>6. ASSUME NEW y \in T PROVE x <= y
  <2>1. x \in Nat /\ y \in Nat
    OBVIOUS
  <2>2. <<y, x>> \notin R
    BY <1>5
  <2>3. ~(y < x)
    BY <1>4, <2>1, <2>2
  <2> QED BY <2>1, <2>3
<1> QED BY <1>6

LEMMA Induction ==
  ASSUME NEW S, 0 \in S, \A n \in Nat : n \in S => n + 1 \in S
  PROVE  Nat \subseteq S
<1> DEFINE T == Nat \ S
<1>1. SUFFICES ASSUME T # {} PROVE FALSE
  OBVIOUS
<1>2. T \subseteq Nat
  OBVIOUS
<1>3. PICK x \in T : \A y \in T : x <= y
  <2> HIDE DEF T
  <2> QED BY <1>1, <1>2, LeastNumber
<1>4. x \in Nat /\ x # 0 /\ x \notin S
  OBVIOUS
<1>5. x - 1 \in Nat /\ x - 1 \notin S
  BY <1>4
<1>6. x <= x - 1
  BY <1>3, <1>5
<1> QED BY <1>4, <1>6

(* g begins with base and takes the i-th step by the function h[i].         *)
Recurs(g, X, base, m, h) ==
  g \in [0..m -> X] /\ g[0] = base /\ \A i \in 1..m : g[i] = h[i][g[i - 1]]

LEMMA Recursion ==
  ASSUME NEW X, NEW base \in X, NEW m \in Nat, NEW h,
         h \in [1..m -> [X -> X]]
  PROVE  \E g : Recurs(g, X, base, m, h)
<1> DEFINE Upto(n, g) == g[0] = base /\ \A i \in 1..n : g[i] = h[i][g[i - 1]]
           S == {n \in Nat : n <= m => \E g \in [0..n -> X] : Upto(n, g)}
<1>1. 0 \in S
  <2>1. [i \in 0..0 |-> base] \in [0..0 -> X] /\ Upto(0, [i \in 0..0 |-> base])
    OBVIOUS
  <2> QED BY <2>1
<1>2. ASSUME NEW n \in Nat, n \in S PROVE n + 1 \in S
  <2>1. SUFFICES ASSUME n + 1 <= m PROVE \E g \in [0..(n + 1) -> X] : Upto(n + 1, g)
    OBVIOUS
  <2>2. PICK g \in [0..n -> X] : Upto(n, g)
    BY <1>2, <2>1
  <2>3. n + 1 \in 1..m /\ g[n] \in X
    BY <2>1
  <2>4. h[n + 1][g[n]] \in X
    BY <2>3
  <2> DEFINE k == [i \in 0..(n + 1) |-> IF i <= n THEN g[i] ELSE h[n + 1][g[n]]]
  <2>5. k \in [0..(n + 1) -> X]
    BY <2>4
  <2>6. k[0] = base
    BY <2>2
  <2>7. ASSUME NEW i \in 1..(n + 1) PROVE k[i] = h[i][k[i - 1]]
    <3>1. CASE i <= n
      BY <2>2, <3>1
    <3>2. CASE i = n + 1
      <4>1. k[i] = h[n + 1][g[n]] /\ k[i - 1] = g[n]
        BY <3>2
      <4> QED BY <3>2, <4>1
    <3> QED BY <3>1, <3>2
  <2> QED BY <2>5, <2>6, <2>7
<1>3. Nat \subseteq S
  <2> HIDE DEF S
  <2> QED BY <1>1, <1>2, Induction
<1>4. \E g \in [0..m -> X] : Upto(m, g)
  BY <1>3
<1> QED BY <1>4 DEF Recurs

-----------------------------------------------------------------------------
(* The two halves of a sequence, read up to its j-th element.              *)
Pre(s, j) == SubSeq(s, 1, j)
Post(s, j) == SubSeq(s, j + 1, Len(s))

LEMMA Halves ==
  ASSUME NEW A, NEW s \in Seq(A), NEW j \in 0..Len(s)
  PROVE  /\ Pre(s, j) \in Seq(A) /\ Len(Pre(s, j)) = j
         /\ Post(s, j) \in Seq(A) /\ Len(Post(s, j)) = Len(s) - j
         /\ \A i \in 1..j : Pre(s, j)[i] = s[i]
         /\ \A i \in 1..(Len(s) - j) : Post(s, j)[i] = s[j + i]
<1>1. Len(s) \in Nat /\ s \in [1..Len(s) -> A]
  BY LenProperties
<1>2. \A i \in 1..j : s[i] \in A
  BY <1>1
<1>3. \A i \in (j + 1)..Len(s) : s[i] \in A
  BY <1>1
<1>4. /\ Pre(s, j) \in Seq(A) /\ Len(Pre(s, j)) = j
      /\ \A i \in 1..j : Pre(s, j)[i] = s[i]
  BY <1>1, <1>2, SubSeqProperties DEF Pre
<1>5. /\ Post(s, j) \in Seq(A) /\ Len(Post(s, j)) = Len(s) - j
      /\ \A i \in 1..(Len(s) - j) : Post(s, j)[i] = s[j + i]
  <2>1. /\ SubSeq(s, j + 1, Len(s)) \in Seq(A)
        /\ Len(SubSeq(s, j + 1, Len(s))) = IF j + 1 <= Len(s) THEN Len(s) - (j + 1) + 1 ELSE 0
        /\ \A i \in 1..(Len(s) - (j + 1) + 1) : SubSeq(s, j + 1, Len(s))[i] = s[(j + 1) + i - 1]
    <3>1. j + 1 \in Int /\ Len(s) \in Int
      BY <1>1
    <3> QED BY <1>3, <3>1, SubSeqProperties
  <2> QED BY <1>1, <2>1 DEF Post
<1> QED BY <1>4, <1>5

LEMMA LastPart ==
  ASSUME NEW A, NEW s \in Seq(A), NEW j \in 0..Len(s)
  PROVE  /\ Post(s, j) \in Seq(A) /\ Len(Post(s, j)) = Len(s) - j
         /\ \A i \in 1..(Len(s) - j) : Post(s, j)[i] = s[j + i]
BY Halves

LEMMA WholeSequence ==
  ASSUME NEW A, NEW s \in Seq(A)
  PROVE  Pre(s, 0) = <<>> /\ Post(s, 0) = s /\ Pre(s, Len(s)) = s /\ Post(s, Len(s)) = <<>>
<1>1. Len(s) \in Nat
  BY LenProperties
<1>2. Pre(s, 0) = <<>> /\ Post(s, Len(s)) = <<>>
  BY <1>1, SubSeqEmpty DEF Pre, Post
<1>3. Post(s, 0) = s /\ Pre(s, Len(s)) = s
  BY <1>1, SubSeqFull DEF Pre, Post
<1> QED BY <1>2, <1>3

LEMMA PreStep ==
  ASSUME NEW A, NEW s \in Seq(A), NEW j \in 0..(Len(s) - 1)
  PROVE  Pre(s, j + 1) = Append(Pre(s, j), s[j + 1])
<1>1. Len(s) \in Nat /\ j + 1 \in 0..Len(s) /\ j \in 0..Len(s) /\ s[j + 1] \in A
  BY LenProperties
<1>2. /\ Pre(s, j) \in Seq(A) /\ Len(Pre(s, j)) = j
      /\ \A i \in 1..j : Pre(s, j)[i] = s[i]
  BY <1>1, Halves
<1>3. /\ Pre(s, j + 1) \in Seq(A) /\ Len(Pre(s, j + 1)) = j + 1
      /\ \A i \in 1..(j + 1) : Pre(s, j + 1)[i] = s[i]
  BY <1>1, Halves
<1>4. /\ Append(Pre(s, j), s[j + 1]) \in Seq(A) /\ Len(Append(Pre(s, j), s[j + 1])) = j + 1
      /\ \A i \in 1..j : Append(Pre(s, j), s[j + 1])[i] = Pre(s, j)[i]
      /\ Append(Pre(s, j), s[j + 1])[j + 1] = s[j + 1]
  BY <1>1, <1>2, AppendProperties
<1>5. \A i \in 1..(j + 1) : Pre(s, j + 1)[i] = Append(Pre(s, j), s[j + 1])[i]
  <2> SUFFICES ASSUME NEW i \in 1..(j + 1)
               PROVE  Pre(s, j + 1)[i] = Append(Pre(s, j), s[j + 1])[i]
    OBVIOUS
  <2>1. CASE i \in 1..j
    BY <1>2, <1>3, <1>4, <2>1
  <2>2. CASE i = j + 1
    BY <1>3, <1>4, <2>2
  <2>3. i \in 1..j \/ i = j + 1
    BY <1>1
  <2> QED BY <2>1, <2>2, <2>3
<1> QED BY <1>3, <1>4, <1>5, SeqEqual

(* What comes next in a stream x \o y.                                     *)
LEMMA NextOfConcat ==
  ASSUME NEW A, NEW x \in Seq(A), NEW y \in Seq(A), x # <<>>
  PROVE  x \o y # <<>> /\ Head(x \o y) = x[1] /\ Tail(x \o y) = Tail(x) \o y
<1>1. Len(x) \in Nat \ {0} /\ Len(y) \in Nat
  BY EmptySeq, LenProperties
<1>2. /\ x \o y \in Seq(A) /\ Len(x \o y) = Len(x) + Len(y)
      /\ \A i \in 1..(Len(x) + Len(y)) :
           (x \o y)[i] = IF i <= Len(x) THEN x[i] ELSE y[i - Len(x)]
  BY ConcatProperties
<1>3. x \o y # <<>>
  BY <1>1, <1>2, EmptySeq
<1>4. Head(x \o y) = x[1]
  <2>1. Head(x \o y) = (x \o y)[1]
    OBVIOUS
  <2> QED BY <1>1, <1>2, <2>1
<1>5. /\ Tail(x \o y) \in Seq(A) /\ Len(Tail(x \o y)) = Len(x) + Len(y) - 1
      /\ \A i \in 1..(Len(x) + Len(y) - 1) : Tail(x \o y)[i] = (x \o y)[i + 1]
  <2>1. /\ Tail(x \o y) \in Seq(A) /\ Len(Tail(x \o y)) = Len(x \o y) - 1
        /\ \A i \in 1..Len(Tail(x \o y)) : Tail(x \o y)[i] = (x \o y)[i + 1]
    BY <1>2, <1>3, HeadTailProperties
  <2> QED BY <1>2, <2>1
<1>6. /\ Tail(x) \in Seq(A) /\ Len(Tail(x)) = Len(x) - 1
      /\ \A i \in 1..(Len(x) - 1) : Tail(x)[i] = x[i + 1]
  <2>1. /\ Tail(x) \in Seq(A) /\ Len(Tail(x)) = Len(x) - 1
        /\ \A i \in 1..Len(Tail(x)) : Tail(x)[i] = x[i + 1]
    BY HeadTailProperties
  <2> QED BY <2>1
<1>7. /\ Tail(x) \o y \in Seq(A) /\ Len(Tail(x) \o y) = Len(x) - 1 + Len(y)
      /\ \A i \in 1..(Len(x) - 1 + Len(y)) :
           (Tail(x) \o y)[i] = IF i <= Len(x) - 1 THEN Tail(x)[i] ELSE y[i - (Len(x) - 1)]
  BY <1>6, ConcatProperties
<1>8. \A i \in 1..(Len(x) + Len(y) - 1) : Tail(x \o y)[i] = (Tail(x) \o y)[i]
  <2> SUFFICES ASSUME NEW i \in 1..(Len(x) + Len(y) - 1)
               PROVE  Tail(x \o y)[i] = (Tail(x) \o y)[i]
    OBVIOUS
  <2>1. Tail(x \o y)[i] = (x \o y)[i + 1] /\ i + 1 \in 1..(Len(x) + Len(y))
    BY <1>1, <1>5
  <2>2. CASE i <= Len(x) - 1
    <3>1. (x \o y)[i + 1] = x[i + 1]
      BY <1>1, <1>2, <2>1, <2>2
    <3>2. (Tail(x) \o y)[i] = x[i + 1]
      BY <1>1, <1>6, <1>7, <2>2
    <3> QED BY <2>1, <3>1, <3>2
  <2>3. CASE ~(i <= Len(x) - 1)
    <3>1. (x \o y)[i + 1] = y[i + 1 - Len(x)]
      BY <1>1, <1>2, <2>1, <2>3
    <3>2. (Tail(x) \o y)[i] = y[i - (Len(x) - 1)]
      BY <1>1, <1>7, <2>3
    <3>3. i + 1 - Len(x) = i - (Len(x) - 1)
      BY <1>1
    <3> QED BY <2>1, <3>1, <3>2, <3>3
  <2> QED BY <2>2, <2>3
<1>9. Tail(x \o y) = Tail(x) \o y
  <2>1. Len(Tail(x \o y)) = Len(Tail(x) \o y)
    BY <1>1, <1>5, <1>7
  <2> QED BY <1>5, <1>7, <1>8, <2>1, SeqEqual
<1> QED BY <1>3, <1>4, <1>9

LEMMA TailOfPost ==
  ASSUME NEW A, NEW s \in Seq(A), NEW j \in 0..(Len(s) - 1)
  PROVE  Post(s, j) # <<>> /\ Post(s, j)[1] = s[j + 1] /\ Tail(Post(s, j)) = Post(s, j + 1)
<1>1. Len(s) \in Nat /\ j \in 0..Len(s) /\ j + 1 \in 0..Len(s)
  BY LenProperties
<1>2. /\ Post(s, j) \in Seq(A) /\ Len(Post(s, j)) = Len(s) - j
      /\ \A i \in 1..(Len(s) - j) : Post(s, j)[i] = s[j + i]
  BY <1>1, Halves
<1>3. /\ Post(s, j + 1) \in Seq(A) /\ Len(Post(s, j + 1)) = Len(s) - (j + 1)
      /\ \A i \in 1..(Len(s) - (j + 1)) : Post(s, j + 1)[i] = s[(j + 1) + i]
  BY <1>1, Halves
<1>4. Post(s, j) # <<>>
  BY <1>1, <1>2, EmptySeq
<1>5. /\ Tail(Post(s, j)) \in Seq(A) /\ Len(Tail(Post(s, j))) = Len(s) - j - 1
      /\ \A i \in 1..(Len(s) - j - 1) : Tail(Post(s, j))[i] = Post(s, j)[i + 1]
  <2>1. /\ Tail(Post(s, j)) \in Seq(A) /\ Len(Tail(Post(s, j))) = Len(Post(s, j)) - 1
        /\ \A i \in 1..Len(Tail(Post(s, j))) : Tail(Post(s, j))[i] = Post(s, j)[i + 1]
    BY <1>2, <1>4, HeadTailProperties
  <2> QED BY <1>2, <2>1
<1>6. \A i \in 1..(Len(s) - j - 1) : Tail(Post(s, j))[i] = Post(s, j + 1)[i]
  <2> SUFFICES ASSUME NEW i \in 1..(Len(s) - j - 1)
               PROVE  Tail(Post(s, j))[i] = Post(s, j + 1)[i]
    OBVIOUS
  <2>1. Tail(Post(s, j))[i] = Post(s, j)[i + 1] /\ i + 1 \in 1..(Len(s) - j)
    BY <1>1, <1>5
  <2>2. Post(s, j)[i + 1] = s[j + (i + 1)]
    BY <1>2, <2>1
  <2>3. Post(s, j + 1)[i] = s[(j + 1) + i]
    BY <1>1, <1>3
  <2>4. j + (i + 1) = (j + 1) + i
    BY <1>1
  <2> QED BY <2>1, <2>2, <2>3, <2>4
<1>7. Tail(Post(s, j)) = Post(s, j + 1)
  <2>1. Len(Tail(Post(s, j))) = Len(Post(s, j + 1))
    BY <1>1, <1>3, <1>5
  <2>2. \A i \in 1..Len(Tail(Post(s, j))) : Tail(Post(s, j))[i] = Post(s, j + 1)[i]
    BY <1>5, <1>6
  <2> QED BY <1>3, <1>5, <2>1, <2>2, SeqEqual
<1>8. Post(s, j)[1] = s[j + 1]
  BY <1>1, <1>2
<1> QED BY <1>4, <1>7, <1>8

(* Taking one element of a stream of which j elements of s are taken.      *)
LEMMA TakeOne ==
  ASSUME NEW A, NEW s \in Seq(A), NEW y \in Seq(A), NEW j \in 0..(Len(s) - 1)
  PROVE  /\ Post(s, j) \o y # <<>> /\ Head(Post(s, j) \o y) = s[j + 1]
         /\ Tail(Post(s, j) \o y) = Post(s, j + 1) \o y
<1>1. Post(s, j) \in Seq(A)
  <2>1. j \in 0..Len(s)
    BY LenProperties
  <2> QED BY <2>1, Halves
<1>2. Post(s, j) # <<>> /\ Post(s, j)[1] = s[j + 1] /\ Tail(Post(s, j)) = Post(s, j + 1)
  BY TailOfPost
<1>3. /\ Post(s, j) \o y # <<>> /\ Head(Post(s, j) \o y) = Post(s, j)[1]
      /\ Tail(Post(s, j) \o y) = Tail(Post(s, j)) \o y
  BY <1>1, <1>2, NextOfConcat
<1> QED BY <1>2, <1>3

LEMMA TakeFirst ==
  ASSUME NEW A, NEW c \in A, NEW y \in Seq(A)
  PROVE  <<c>> \o y # <<>> /\ Head(<<c>> \o y) = c /\ Tail(<<c>> \o y) = y
<1>1. <<c>> \in Seq(A) /\ <<c>> # <<>> /\ <<c>>[1] = c
  OBVIOUS
<1>2. Tail(<<c>>) = <<>>
  OBVIOUS
<1> QED BY <1>1, <1>2, NextOfConcat, ConcatEmptySeq

(* A sequence is its two halves.                                           *)
LEMMA HalvesJoin ==
  ASSUME NEW A, NEW s \in Seq(A), NEW j \in 0..Len(s)
  PROVE  Pre(s, j) \o Post(s, j) = s
<1>1. Len(s) \in Nat
  BY LenProperties
<1>2. SubSeq(s, 1, j) \o SubSeq(s, j + 1, Len(s)) = SubSeq(s, 1, Len(s))
  <2>1. 1 \in 1..(Len(s) + 1) /\ j \in (1 - 1)..Len(s) /\ Len(s) \in j..Len(s)
    BY <1>1
  <2> QED BY <2>1, ConcatAdjacentSubSeq
<1> QED BY <1>2, SubSeqFull DEF Pre, Post

(* Concatenation is associative, as one fact about three sequences.        *)
Assoc(x, y, z) == (x \o y) \o z = x \o (y \o z)

LEMMA Associates == ASSUME NEW A PROVE \A x, y, z \in Seq(A) : Assoc(x, y, z)
<1> SUFFICES ASSUME NEW x \in Seq(A), NEW y \in Seq(A), NEW z \in Seq(A)
             PROVE  Assoc(x, y, z)
  OBVIOUS
<1> QED BY ConcatAssociative DEF Assoc

(* Two ways to cut one stream agree on the shorter first part.             *)
SameAfter(u, v, x, y, n) ==
  Pre(u, n) = Pre(x, n) /\ Post(u, n) \o v = Post(x, n) \o y

LEMMA SameStream ==
  ASSUME NEW A, NEW u \in Seq(A), NEW v \in Seq(A), NEW x \in Seq(A), NEW y \in Seq(A),
         u \o v = x \o y, NEW n \in Nat, n <= Len(u), n <= Len(x)
  PROVE  SameAfter(u, v, x, y, n)
<1>1. /\ Len(u) \in Nat /\ Len(v) \in Nat /\ Len(x) \in Nat /\ Len(y) \in Nat
      /\ n \in 0..Len(u) /\ n \in 0..Len(x)
  BY LenProperties
<1>2. /\ Len(u \o v) = Len(u) + Len(v)
      /\ \A i \in 1..(Len(u) + Len(v)) :
           (u \o v)[i] = IF i <= Len(u) THEN u[i] ELSE v[i - Len(u)]
  BY ConcatProperties
<1>3. /\ Len(x \o y) = Len(x) + Len(y)
      /\ \A i \in 1..(Len(x) + Len(y)) :
           (x \o y)[i] = IF i <= Len(x) THEN x[i] ELSE y[i - Len(x)]
  BY ConcatProperties
<1>4. /\ Pre(u, n) \in Seq(A) /\ Len(Pre(u, n)) = n
      /\ Post(u, n) \in Seq(A) /\ Len(Post(u, n)) = Len(u) - n
      /\ \A i \in 1..n : Pre(u, n)[i] = u[i]
      /\ \A i \in 1..(Len(u) - n) : Post(u, n)[i] = u[n + i]
  BY <1>1, Halves
<1>5. /\ Pre(x, n) \in Seq(A) /\ Len(Pre(x, n)) = n
      /\ Post(x, n) \in Seq(A) /\ Len(Post(x, n)) = Len(x) - n
      /\ \A i \in 1..n : Pre(x, n)[i] = x[i]
      /\ \A i \in 1..(Len(x) - n) : Post(x, n)[i] = x[n + i]
  BY <1>1, Halves
<1>6. Len(u) + Len(v) = Len(x) + Len(y)
  BY <1>2, <1>3
<1>7. Pre(u, n) = Pre(x, n)
  <2>1. \A i \in 1..n : u[i] = x[i]
    BY <1>1, <1>2, <1>3, <1>6
  <2> QED BY <1>4, <1>5, <2>1, SeqEqual
<1>8. /\ Post(u, n) \o v \in Seq(A) /\ Len(Post(u, n) \o v) = Len(u) - n + Len(v)
      /\ \A i \in 1..(Len(u) - n + Len(v)) :
           (Post(u, n) \o v)[i] = IF i <= Len(u) - n THEN Post(u, n)[i] ELSE v[i - (Len(u) - n)]
  <2> DEFINE p == Post(u, n)
  <2>1. p \in Seq(A) /\ Len(p) = Len(u) - n
    BY <1>4
  <2> HIDE DEF p
  <2>2. /\ p \o v \in Seq(A) /\ Len(p \o v) = Len(p) + Len(v)
        /\ \A i \in 1..(Len(p) + Len(v)) :
             (p \o v)[i] = IF i <= Len(p) THEN p[i] ELSE v[i - Len(p)]
    BY <2>1, ConcatProperties
  <2>3. /\ p \o v \in Seq(A) /\ Len(p \o v) = Len(u) - n + Len(v)
        /\ \A i \in 1..(Len(u) - n + Len(v)) :
             (p \o v)[i] = IF i <= Len(u) - n THEN p[i] ELSE v[i - (Len(u) - n)]
    BY <2>1, <2>2
  <2> QED BY <2>3 DEF p
<1>9. /\ Post(x, n) \o y \in Seq(A) /\ Len(Post(x, n) \o y) = Len(x) - n + Len(y)
      /\ \A i \in 1..(Len(x) - n + Len(y)) :
           (Post(x, n) \o y)[i] = IF i <= Len(x) - n THEN Post(x, n)[i] ELSE y[i - (Len(x) - n)]
  <2> DEFINE p == Post(x, n)
  <2>1. p \in Seq(A) /\ Len(p) = Len(x) - n
    BY <1>5
  <2> HIDE DEF p
  <2>2. /\ p \o y \in Seq(A) /\ Len(p \o y) = Len(p) + Len(y)
        /\ \A i \in 1..(Len(p) + Len(y)) :
             (p \o y)[i] = IF i <= Len(p) THEN p[i] ELSE y[i - Len(p)]
    BY <2>1, ConcatProperties
  <2>3. /\ p \o y \in Seq(A) /\ Len(p \o y) = Len(x) - n + Len(y)
        /\ \A i \in 1..(Len(x) - n + Len(y)) :
             (p \o y)[i] = IF i <= Len(x) - n THEN p[i] ELSE y[i - (Len(x) - n)]
    BY <2>1, <2>2
  <2> QED BY <2>3 DEF p
<1>10. ASSUME NEW i \in 1..(Len(u) - n + Len(v)) PROVE (Post(u, n) \o v)[i] = (u \o v)[n + i]
  <2>1. i \in Nat /\ n + i \in 1..(Len(u) + Len(v))
    BY <1>1
  <2>2. CASE i <= Len(u) - n
    <3>1. i \in 1..(Len(u) - n) /\ n + i <= Len(u)
      BY <1>1, <2>2
    <3>2. (Post(u, n) \o v)[i] = u[n + i]
      BY <1>4, <1>8, <2>2, <3>1
    <3> QED BY <1>2, <2>1, <3>1, <3>2
  <2>3. CASE ~(i <= Len(u) - n)
    <3>1. ~(n + i <= Len(u)) /\ n + i - Len(u) = i - (Len(u) - n)
      BY <1>1, <2>1, <2>3
    <3>2. (Post(u, n) \o v)[i] = v[i - (Len(u) - n)]
      BY <1>8, <2>3
    <3>3. (u \o v)[n + i] = v[n + i - Len(u)]
      BY <1>2, <2>1, <3>1
    <3> QED BY <3>1, <3>2, <3>3
  <2> QED BY <2>2, <2>3
<1>11. ASSUME NEW i \in 1..(Len(x) - n + Len(y)) PROVE (Post(x, n) \o y)[i] = (x \o y)[n + i]
  <2>1. i \in Nat /\ n + i \in 1..(Len(x) + Len(y))
    BY <1>1
  <2>2. CASE i <= Len(x) - n
    <3>1. i \in 1..(Len(x) - n) /\ n + i <= Len(x)
      BY <1>1, <2>2
    <3>2. (Post(x, n) \o y)[i] = x[n + i]
      BY <1>5, <1>9, <2>2, <3>1
    <3> QED BY <1>3, <2>1, <3>1, <3>2
  <2>3. CASE ~(i <= Len(x) - n)
    <3>1. ~(n + i <= Len(x)) /\ n + i - Len(x) = i - (Len(x) - n)
      BY <1>1, <2>1, <2>3
    <3>2. (Post(x, n) \o y)[i] = y[i - (Len(x) - n)]
      BY <1>9, <2>3
    <3>3. (x \o y)[n + i] = y[n + i - Len(x)]
      BY <1>3, <2>1, <3>1
    <3> QED BY <3>1, <3>2, <3>3
  <2> QED BY <2>2, <2>3
<1>12. Len(Post(u, n) \o v) = Len(Post(x, n) \o y)
  BY <1>1, <1>6, <1>8, <1>9
<1>13. \A i \in 1..Len(Post(u, n) \o v) : (Post(u, n) \o v)[i] = (Post(x, n) \o y)[i]
  <2> SUFFICES ASSUME NEW i \in 1..Len(Post(u, n) \o v)
               PROVE  (Post(u, n) \o v)[i] = (Post(x, n) \o y)[i]
    OBVIOUS
  <2>1. i \in 1..(Len(u) - n + Len(v)) /\ i \in 1..(Len(x) - n + Len(y))
    BY <1>8, <1>9, <1>12
  <2> QED BY <1>10, <1>11, <2>1
<1>14. Post(u, n) \o v = Post(x, n) \o y
  BY <1>8, <1>9, <1>12, <1>13, SeqEqual
<1> QED BY <1>7, <1>14 DEF SameAfter

(* Halves of halves.                                                       *)
LEMMA HalvesAdd ==
  ASSUME NEW A, NEW s \in Seq(A), NEW j \in 0..Len(s), NEW n \in 0..(Len(s) - j)
  PROVE  Pre(s, j) \o Pre(Post(s, j), n) = Pre(s, j + n) /\ Post(Post(s, j), n) = Post(s, j + n)
<1>1. Len(s) \in Nat /\ j + n \in 0..Len(s) /\ j \in Nat /\ n \in Nat
  BY LenProperties
<1>2. /\ Pre(s, j) \in Seq(A) /\ Len(Pre(s, j)) = j
      /\ Post(s, j) \in Seq(A) /\ Len(Post(s, j)) = Len(s) - j
      /\ \A i \in 1..j : Pre(s, j)[i] = s[i]
      /\ \A i \in 1..(Len(s) - j) : Post(s, j)[i] = s[j + i]
  BY <1>1, Halves
<1>3. /\ Pre(s, j + n) \in Seq(A) /\ Len(Pre(s, j + n)) = j + n
      /\ Post(s, j + n) \in Seq(A) /\ Len(Post(s, j + n)) = Len(s) - (j + n)
      /\ \A i \in 1..(j + n) : Pre(s, j + n)[i] = s[i]
      /\ \A i \in 1..(Len(s) - (j + n)) : Post(s, j + n)[i] = s[(j + n) + i]
  BY <1>1, Halves
<1>4. /\ Pre(Post(s, j), n) \in Seq(A) /\ Len(Pre(Post(s, j), n)) = n
      /\ Post(Post(s, j), n) \in Seq(A)
      /\ Len(Post(Post(s, j), n)) = Len(s) - j - n
      /\ \A i \in 1..n : Pre(Post(s, j), n)[i] = Post(s, j)[i]
      /\ \A i \in 1..(Len(s) - j - n) : Post(Post(s, j), n)[i] = Post(s, j)[n + i]
  <2>1. n \in 0..Len(Post(s, j))
    BY <1>2
  <2> DEFINE p == Post(s, j)
  <2>2. p \in Seq(A) /\ n \in 0..Len(p) /\ Len(p) = Len(s) - j
    BY <1>2, <2>1
  <2> HIDE DEF p
  <2>3. /\ Pre(p, n) \in Seq(A) /\ Len(Pre(p, n)) = n
        /\ Post(p, n) \in Seq(A) /\ Len(Post(p, n)) = Len(p) - n
        /\ \A i \in 1..n : Pre(p, n)[i] = p[i]
        /\ \A i \in 1..(Len(p) - n) : Post(p, n)[i] = p[n + i]
    BY <2>2, Halves
  <2>4. /\ Pre(p, n) \in Seq(A) /\ Len(Pre(p, n)) = n
        /\ Post(p, n) \in Seq(A) /\ Len(Post(p, n)) = Len(s) - j - n
        /\ \A i \in 1..n : Pre(p, n)[i] = p[i]
        /\ \A i \in 1..(Len(s) - j - n) : Post(p, n)[i] = p[n + i]
    BY <2>2, <2>3
  <2> QED BY <2>4 DEF p
<1>5. Post(Post(s, j), n) = Post(s, j + n)
  <2>1. Len(Post(Post(s, j), n)) = Len(Post(s, j + n))
    BY <1>1, <1>3, <1>4
  <2>2. ASSUME NEW i \in 1..Len(Post(Post(s, j), n))
        PROVE  Post(Post(s, j), n)[i] = Post(s, j + n)[i]
    <3>1. /\ i \in 1..(Len(s) - j - n) /\ n + i \in 1..(Len(s) - j)
          /\ i \in 1..(Len(s) - (j + n)) /\ j + (n + i) = (j + n) + i
      BY <1>1, <1>4
    <3>2. Post(Post(s, j), n)[i] = s[j + (n + i)]
      BY <1>2, <1>4, <3>1
    <3> QED BY <1>3, <3>1, <3>2
  <2> QED BY <1>3, <1>4, <2>1, <2>2, SeqEqual
<1>6. Pre(s, j) \o Pre(Post(s, j), n) = Pre(s, j + n)
  <2>1. /\ Pre(s, j) \o Pre(Post(s, j), n) \in Seq(A)
        /\ Len(Pre(s, j) \o Pre(Post(s, j), n)) = j + n
        /\ \A i \in 1..(j + n) : (Pre(s, j) \o Pre(Post(s, j), n))[i]
             = IF i <= j THEN Pre(s, j)[i] ELSE Pre(Post(s, j), n)[i - j]
    <3> DEFINE p == Pre(s, j)
               q == Pre(Post(s, j), n)
    <3>1. p \in Seq(A) /\ q \in Seq(A) /\ Len(p) = j /\ Len(q) = n
      BY <1>2, <1>4
    <3> HIDE DEF p, q
    <3>2. /\ p \o q \in Seq(A) /\ Len(p \o q) = Len(p) + Len(q)
          /\ \A i \in 1..(Len(p) + Len(q)) :
               (p \o q)[i] = IF i <= Len(p) THEN p[i] ELSE q[i - Len(p)]
      BY <3>1, ConcatProperties
    <3>3. /\ p \o q \in Seq(A) /\ Len(p \o q) = j + n
          /\ \A i \in 1..(j + n) : (p \o q)[i] = IF i <= j THEN p[i] ELSE q[i - j]
      BY <3>1, <3>2
    <3> QED BY <3>3 DEF p, q
  <2>2. ASSUME NEW i \in 1..(j + n)
        PROVE  (Pre(s, j) \o Pre(Post(s, j), n))[i] = Pre(s, j + n)[i]
    <3>1. CASE i <= j
      <4>1. i \in 1..j
        BY <3>1
      <4> QED BY <1>2, <1>3, <2>1, <3>1, <4>1
    <3>2. CASE ~(i <= j)
      <4>1. /\ i - j \in 1..n /\ i - j \in 1..(Len(s) - j) /\ j + (i - j) = i
        BY <1>1, <3>2
      <4>2. (Pre(s, j) \o Pre(Post(s, j), n))[i] = Pre(Post(s, j), n)[i - j]
        BY <2>1, <3>2
      <4>3. Pre(Post(s, j), n)[i - j] = s[j + (i - j)]
        BY <1>2, <1>4, <4>1
      <4> QED BY <1>3, <4>1, <4>2, <4>3
    <3> QED BY <3>1, <3>2
  <2> QED BY <1>3, <2>1, <2>2, SeqEqual
<1> QED BY <1>5, <1>6

-----------------------------------------------------------------------------
(* FlattenSeq: the recursive function of its definition exists, ...        *)
IsFlat(g, s) ==
  g = [i \in 1..Len(s) |-> IF i = 1 THEN s[i] ELSE g[i - 1] \o s[i]]

LEMMA FlatExists ==
  ASSUME NEW B, NEW s \in Seq(Seq(B)), s # <<>>
  PROVE  \E g \in [1..Len(s) -> Seq(B)] : IsFlat(g, s)
<1> DEFINE m == Len(s)
           h == [i \in 1..m |-> [x \in Seq(B) |-> x \o s[i]]]
<1>1. m \in Nat /\ \A i \in 1..m : s[i] \in Seq(B)
  BY LenProperties
<1>2. <<>> \in Seq(B)
  OBVIOUS
<1>3. \A i \in 1..m, x \in Seq(B) : h[i][x] = x \o s[i] /\ h[i][x] \in Seq(B)
  BY <1>1, ConcatProperties
<1>4. PICK f \in [0..m -> Seq(B)] :
         f[0] = <<>> /\ \A i \in 1..m : f[i] = h[i][f[i - 1]]
  <2> DEFINE X == Seq(B)
             base == <<>>
  <2>1. m \in Nat
    BY <1>1
  <2>2. base \in X
    BY <1>2
  <2>3. h \in [1..m -> [X -> X]]
    BY <1>3
  <2> HIDE DEF X, base, m, h
  <2>4. \E f : Recurs(f, X, base, m, h)
    BY <2>1, <2>2, <2>3, Recursion
  <2> QED BY <2>4 DEF X, base, Recurs
<1> HIDE DEF h
<1> DEFINE g == [i \in 1..m |-> f[i]]
<1>5. g \in [1..m -> Seq(B)]
  BY <1>1
<1>6. ASSUME NEW i \in 1..m PROVE g[i] = IF i = 1 THEN s[i] ELSE g[i - 1] \o s[i]
  <2>1. i - 1 \in 0..m /\ f[i - 1] \in Seq(B) /\ f[i] = f[i - 1] \o s[i]
    <3>1. i - 1 \in 0..m
      BY <1>1
    <3>2. f[i - 1] \in Seq(B)
      BY <3>1
    <3>3. f[i] = h[i][f[i - 1]] /\ h[i][f[i - 1]] = f[i - 1] \o s[i]
      BY <1>3, <1>4, <3>2
    <3> QED BY <3>1, <3>2, <3>3
  <2>2. CASE i = 1
    <3>1. f[i] = <<>> \o s[i] /\ s[i] \in Seq(B)
      BY SMTT(30), <1>1, <1>4, <2>1, <2>2
    <3>2. f[i] = s[i]
      BY <3>1, ConcatEmptySeq
    <3> QED BY <2>2, <3>2
  <2>3. CASE i # 1
    <3>1. i - 1 \in 1..m
      BY <1>1, <2>3
    <3> QED BY <2>1, <2>3, <3>1
  <2> QED BY <2>2, <2>3
<1>7. g = [i \in 1..m |-> IF i = 1 THEN s[i] ELSE g[i - 1] \o s[i]]
  <2>1. \A i \in 1..m : g[i] = IF i = 1 THEN s[i] ELSE g[i - 1] \o s[i]
    BY <1>6
  <2>2. g = [i \in 1..m |-> g[i]]
    OBVIOUS
  <2> HIDE DEF g
  <2> QED BY <2>1, <2>2
<1> HIDE DEF g
<1> QED BY <1>5, <1>7 DEF IsFlat

(* ... has sequences as its values, ...                                    *)
LEMMA FlatTyped ==
  ASSUME NEW B, NEW s \in Seq(Seq(B)), NEW g, IsFlat(g, s), NEW n \in 1..Len(s)
  PROVE  g[n] \in Seq(B)
<1>1. Len(s) \in Nat /\ \A i \in 1..Len(s) : s[i] \in Seq(B)
  BY LenProperties
<1>2. \A i \in 1..Len(s) : g[i] = IF i = 1 THEN s[i] ELSE g[i - 1] \o s[i]
  BY DEF IsFlat
<1> DEFINE S == {k \in Nat : k \in 1..Len(s) => g[k] \in Seq(B)}
<1>3. 0 \in S
  OBVIOUS
<1>4. ASSUME NEW k \in Nat, k \in S PROVE k + 1 \in S
  <2>1. SUFFICES ASSUME k + 1 \in 1..Len(s) PROVE g[k + 1] \in Seq(B)
    OBVIOUS
  <2>2. CASE k = 0
    BY <1>1, <1>2, <2>1, <2>2
  <2>3. CASE k # 0
    <3>1. k \in 1..Len(s) /\ (k + 1) - 1 = k /\ k + 1 # 1
      BY <1>1, <2>1, <2>3
    <3>2. g[k] \in Seq(B) /\ g[k + 1] = g[k] \o s[k + 1] /\ s[k + 1] \in Seq(B)
      BY <1>1, <1>2, <1>4, <2>1, <3>1
    <3> QED BY <3>2, ConcatProperties
  <2> QED BY <2>2, <2>3
<1>5. Nat \subseteq S
  <2> HIDE DEF S
  <2> QED BY <1>3, <1>4, Induction
<1>6. n \in Nat
  BY <1>1
<1> QED BY <1>5, <1>6

(* ... and is the one that FlattenSeq chooses.                             *)
LEMMA FlatChosen ==
  ASSUME NEW B, NEW s \in Seq(Seq(B)), s # <<>>
  PROVE  \E g : IsFlat(g, s) /\ FlattenSeq(s) = g[Len(s)]
<1>1. Len(s) \in Nat /\ Len(s) # 0
  BY EmptySeq, LenProperties
<1> DEFINE g == CHOOSE flatten : IsFlat(flatten, s)
<1>2. \E flatten : IsFlat(flatten, s)
  BY FlatExists
<1>3. IsFlat(g, s)
  BY <1>2
<1>4. FlattenSeq(s) = g[Len(s)]
  BY <1>1 DEF FlattenSeq, IsFlat
<1> QED BY <1>3, <1>4

LEMMA FlattenEmpty == FlattenSeq(<<>>) = <<>>
BY DEF FlattenSeq

LEMMA FlattenTyped ==
  ASSUME NEW B, NEW s \in Seq(Seq(B))
  PROVE  FlattenSeq(s) \in Seq(B)
<1>1. CASE s = <<>>
  <2>1. <<>> \in Seq(B)
    OBVIOUS
  <2> QED BY <1>1, <2>1, FlattenEmpty, Zenon
<1>2. CASE s # <<>>
  <2>1. Len(s) \in 1..Len(s)
    BY <1>2, EmptySeq, LenProperties
  <2> QED BY <1>2, <2>1, FlatChosen, FlatTyped
<1> QED BY <1>1, <1>2

(* What is left when the first sequence has been taken away.               *)
LEMMA FlattenFirst ==
  ASSUME NEW B, NEW s \in Seq(Seq(B)), s # <<>>
  PROVE  FlattenSeq(s) = s[1] \o FlattenSeq(Tail(s))
<1> DEFINE m == Len(s)
           t == Tail(s)
<1>1. m \in Nat /\ m # 0 /\ \A i \in 1..m : s[i] \in Seq(B)
  BY EmptySeq, LenProperties
<1>2. t \in Seq(Seq(B)) /\ Len(t) = m - 1 /\ \A i \in 1..(m - 1) : t[i] = s[i + 1]
  <2>1. /\ Tail(s) \in Seq(Seq(B)) /\ Len(Tail(s)) = Len(s) - 1
        /\ \A i \in 1..Len(Tail(s)) : Tail(s)[i] = s[i + 1]
    BY HeadTailProperties
  <2> QED BY <2>1
<1>3. PICK g : IsFlat(g, s) /\ FlattenSeq(s) = g[m]
  BY FlatChosen
<1>4. \A i \in 1..m : g[i] = IF i = 1 THEN s[i] ELSE g[i - 1] \o s[i]
  BY <1>3 DEF IsFlat
<1> HIDE DEF t
<1>5. CASE m = 1
  <2>1. t = <<>>
    BY <1>2, <1>5, EmptySeq
  <2>2. g[m] = s[1] /\ s[1] \in Seq(B)
    BY <1>1, <1>4, <1>5
  <2>3. s[1] \o <<>> = s[1]
    BY <2>2, ConcatEmptySeq
  <2>4. FlattenSeq(t) = <<>>
    BY <2>1, FlattenEmpty, Zenon
  <2> QED BY <1>3, <2>2, <2>3, <2>4 DEF t
<1>6. CASE m # 1
  <2>1. t # <<>> /\ Len(t) \in Nat /\ m - 1 \in 1..Len(t)
    BY <1>1, <1>2, <1>6, EmptySeq
  <2>2. PICK f : IsFlat(f, t) /\ FlattenSeq(t) = f[Len(t)]
    BY <1>2, <2>1, FlatChosen
  <2>3. \A i \in 1..(m - 1) : f[i] = IF i = 1 THEN t[i] ELSE f[i - 1] \o t[i]
    BY <1>2, <2>2 DEF IsFlat
  <2>4. \A i \in 1..(m - 1) : f[i] \in Seq(B)
    BY <1>2, <2>2, FlatTyped
  <2>0. \A x, y, z \in Seq(B) : Assoc(x, y, z)
    BY Associates
  <2> DEFINE J(i) == g[i + 1] = s[1] \o f[i]
             S == {i \in Nat : i \in 1..(m - 1) => J(i)}
  <2>5. ASSUME 1 \in 1..(m - 1) PROVE J(1)
    <3>1. /\ 2 \in 1..m /\ 1 \in 1..m /\ 1 + 1 = 2 /\ 2 - 1 = 1 /\ 2 # 1
          /\ s[2] = t[1]
      BY <1>1, <1>2, <2>5
    <3>2. g[2] = g[1] \o s[2] /\ g[1] = s[1] /\ f[1] = t[1]
      BY <1>4, <2>3, <2>5, <3>1
    <3>3. g[2] = s[1] \o f[1]
      BY <3>1, <3>2, Zenon
    <3> QED BY <3>1, <3>3
  <2>6. ASSUME NEW i \in 1..(m - 1), J(i), i + 1 \in 1..(m - 1) PROVE J(i + 1)
    <3>1. /\ (i + 1) + 1 \in 1..m /\ (i + 1) + 1 # 1 /\ ((i + 1) + 1) - 1 = i + 1
          /\ t[i + 1] = s[(i + 1) + 1] /\ i + 1 # 1 /\ (i + 1) - 1 = i
      BY <1>1, <1>2, <2>6
    <3>2. g[(i + 1) + 1] = g[i + 1] \o t[i + 1]
      BY <1>4, <3>1
    <3>3. f[i + 1] = f[i] \o t[i + 1]
      BY <2>3, <2>6, <3>1
    <3>4. f[i] \in Seq(B) /\ t[i + 1] \in Seq(B) /\ s[1] \in Seq(B)
      BY <1>1, <2>4, <3>1
    <3>5. (s[1] \o f[i]) \o t[i + 1] = s[1] \o (f[i] \o t[i + 1])
      <4>1. Assoc(s[1], f[i], t[i + 1])
        BY <2>0, <3>4, Zenon
      <4> QED BY <4>1, Zenon DEF Assoc
    <3>6. g[i + 1] = s[1] \o f[i]
      BY <2>6
    <3> QED BY <3>2, <3>3, <3>5, <3>6, Zenon
  <2> HIDE DEF J
  <2>7. Nat \subseteq S
    <3>1. 0 \in S
      OBVIOUS
    <3>2. ASSUME NEW i \in Nat, i \in S PROVE i + 1 \in S
      <4>1. CASE i + 1 \notin 1..(m - 1)
        BY <4>1
      <4>2. CASE i = 0
        BY <2>5, <4>2
      <4>3. CASE i + 1 \in 1..(m - 1) /\ i # 0
        <5>1. i \in 1..(m - 1)
          BY <1>1, <4>3
        <5>2. J(i)
          BY <3>2, <5>1
        <5> QED BY <2>6, <4>3, <5>1, <5>2
      <4> QED BY <4>1, <4>2, <4>3
    <3> HIDE DEF S
    <3> QED BY <3>1, <3>2, Induction
  <2>8. m - 1 \in Nat /\ m - 1 \in 1..(m - 1) /\ (m - 1) + 1 = m /\ Len(t) = m - 1
    BY <1>1, <1>2, <1>6
  <2>9. g[m] = s[1] \o f[m - 1]
    <3>1. m - 1 \in S
      BY <2>7, <2>8
    <3>2. g[(m - 1) + 1] = s[1] \o f[m - 1]
      BY <2>8, <3>1 DEF J
    <3> QED BY <2>8, <3>2
  <2> QED BY <1>3, <2>2, <2>8, <2>9 DEF t
<1> QED BY <1>5, <1>6
=============================================================================
