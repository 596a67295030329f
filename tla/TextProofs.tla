----------------------------- MODULE TextProofs -----------------------------
(***************************************************************************)
(* What the helpers on texts give, for every text: how a concatenation is  *)
(* laid out, where a text is partitioned, that unescaping undoes escaping  *)
(* and that splitting a line of words gives the words.                     *)
(***************************************************************************)
EXTENDS Text, SequenceTheorems, WellFoundedInduction, TLAPS

\* Numbers have a least one.
LEMMA LeastNumber ==
  ASSUME NEW S \in SUBSET Nat, S # {}
  PROVE  \E x \in S : \A y \in S : x <= y
<1>1. PICK Less : Less = {ss \in Nat \X Nat : ss[1] < ss[2]}
  OBVIOUS
<1>2. IsWellFoundedOn(Less, Nat)
  BY NatLessThanWellFounded, <1>1 DEF OpToRel
<1>3. S \subseteq Nat
  OBVIOUS
<1>4. PICK x \in S : \A y \in S : ~ (<<y, x>> \in Less)
  BY <1>2, <1>3, WFMin, Zenon
<1>5. \A y \in S : ~ (y < x)
  BY <1>1, <1>4
<1> QED BY <1>5

\* A set of numbers that has 0, and with each number the next, has them all.
LEMMA Induction ==
  ASSUME NEW S, 0 \in S, \A n \in Nat : n \in S => n + 1 \in S
  PROVE  Nat \subseteq S
<1> SUFFICES ASSUME Nat \ S # {} PROVE FALSE
  OBVIOUS
<1>1. PICK x \in Nat \ S : \A y \in Nat \ S : x <= y
  BY LeastNumber
<1>2. x # 0 /\ x - 1 \in Nat /\ (x - 1) + 1 = x
  OBVIOUS
<1> QED BY <1>1, <1>2

\* A concatenation has the elements of the one and then those of the other.
LEMMA Concat ==
  ASSUME NEW T, NEW a \in Seq(T), NEW b \in Seq(T)
  PROVE  /\ a \o b \in Seq(T) /\ Len(a) \in Nat /\ Len(b) \in Nat
         /\ Len(a \o b) = Len(a) + Len(b)
         /\ \A j \in 1..Len(a) : (a \o b)[j] = a[j]
         /\ \A j \in 1..Len(b) : (a \o b)[Len(a) + j] = b[j]
OBVIOUS

LEMMA Tuples ==
  ASSUME NEW T, NEW a \in T, NEW b \in T, NEW c \in T
  PROVE  /\ <<a>> \in Seq(T) /\ Len(<<a>>) = 1
         /\ <<a, b>> \in Seq(T) /\ Len(<<a, b>>) = 2
         /\ <<a, b, c>> \in Seq(T) /\ Len(<<a, b, c>>) = 3
OBVIOUS

LEMMA Element ==
  ASSUME NEW T, NEW seq \in Seq(T), NEW i \in 1..Len(seq)
  PROVE  seq[i] \in T
OBVIOUS

LEMMA OneTuple ==
  ASSUME NEW T, NEW a \in T
  PROVE  \E u \in Seq(T) : u = <<a>> /\ Len(u) = 1 /\ u[1] = a
<1>1. <<a>> \in Seq(T) /\ Len(<<a>>) = 1 /\ <<a>>[1] = a
  OBVIOUS
<1> QED BY <1>1

LEMMA EmptySequence ==
  ASSUME NEW T
  PROVE  \E u \in Seq(T) : u = <<>> /\ Len(u) = 0
<1>1. <<>> \in Seq(T) /\ Len(<<>>) = 0
  OBVIOUS
<1> QED BY <1>1

LEMMA HeadAndTail ==
  ASSUME NEW T, NEW s \in Seq(T), NEW n \in Nat \ {0}, Len(s) = n
  PROVE  /\ Head(s) \in T /\ Head(s) = s[1]
         /\ Tail(s) \in Seq(T) /\ Len(Tail(s)) = n - 1
         /\ \A k \in 1..(n - 1) : Tail(s)[k] = s[k + 1]
<1>1. s # <<>>
  OBVIOUS
<1>2. /\ Head(s) \in T /\ Head(s) = s[1]
      /\ Tail(s) \in Seq(T) /\ Len(Tail(s)) = n - 1
  BY <1>1
<1>3. \A k \in 1..(n - 1) : Tail(s)[k] = s[k + 1]
  BY <1>1
<1> QED BY <1>2, <1>3

\* q is b with x before it.
Prepended(T, x, b, q) ==
  /\ q \in Seq(T) /\ Len(q) = Len(b) + 1 /\ q[1] = x
  /\ \A k \in 1..Len(b) : q[1 + k] = b[k]

LEMMA Prepend ==
  ASSUME NEW T, NEW x \in T, NEW b \in Seq(T)
  PROVE  Prepended(T, x, b, <<x>> \o b)
<1>1. PICK u \in Seq(T) : u = <<x>> /\ Len(u) = 1 /\ u[1] = x
  BY OneTuple
<1>2. PICK q \in Seq(T) : q = u \o b
  BY Concat
<1>3. /\ Len(q) = Len(u) + Len(b) /\ \A j \in 1..Len(u) : q[j] = u[j]
      /\ \A j \in 1..Len(b) : q[Len(u) + j] = b[j]
  BY <1>2, Concat
<1>4. Len(q) = Len(b) + 1 /\ q[1] = x /\ \A k \in 1..Len(b) : q[1 + k] = b[k]
  <2>1. 1 \in 1..1 /\ 1 + Len(b) = Len(b) + 1
    OBVIOUS
  <2> QED BY <1>1, <1>3, <2>1
<1> QED BY <1>1, <1>2, <1>4 DEF Prepended

LEMMA TwoTuples ==
  ASSUME NEW T, NEW a \in T, NEW b \in T
  PROVE  <<a>> \o <<b>> = <<a, b>>
<1>1. PICK x \in Seq(T), y \in Seq(T), z \in Seq(T) : x = <<a>> /\ y = <<b>> /\ z = <<a, b>>
  BY Tuples
<1>2. Len(x) = 1 /\ Len(y) = 1 /\ Len(z) = 2 /\ x[1] = a /\ y[1] = b /\ z[1] = a /\ z[2] = b
  BY <1>1
<1>3. PICK s \in Seq(T) : s = x \o y
  BY Concat
<1>4. Len(s) = 2 /\ s[1] = a /\ s[2] = b
  <2>1. 1 \in 1..1 /\ 1 + 1 = 2
    OBVIOUS
  <2>2. /\ Len(s) = Len(x) + Len(y) /\ \A j \in 1..Len(x) : s[j] = x[j]
        /\ \A j \in 1..Len(y) : s[Len(x) + j] = y[j]
    BY <1>3, Concat
  <2> QED BY <1>2, <2>1, <2>2
<1>5. \A i \in 1..2 : s[i] = z[i]
  BY <1>2, <1>4
<1>6. s = z
  BY <1>2, <1>4, <1>5, SeqEqual
<1> QED BY <1>1, <1>3, <1>6

LEMMA ThreeTuples ==
  ASSUME NEW T, NEW a \in T, NEW b \in T, NEW c \in T
  PROVE  <<a>> \o <<b, c>> = <<a, b, c>>
<1>1. PICK x \in Seq(T), y \in Seq(T), z \in Seq(T) : x = <<a>> /\ y = <<b, c>> /\ z = <<a, b, c>>
  BY Tuples
<1>2. /\ Len(x) = 1 /\ Len(y) = 2 /\ Len(z) = 3
      /\ x[1] = a /\ y[1] = b /\ y[2] = c /\ z[1] = a /\ z[2] = b /\ z[3] = c
  BY <1>1
<1>3. PICK s \in Seq(T) : s = x \o y
  BY Concat
<1>4. Len(s) = 3 /\ s[1] = a /\ s[2] = b /\ s[3] = c
  <2>1. 1 \in 1..1 /\ 1 + 1 = 2 /\ 1 + 2 = 3 /\ 1 \in 1..2 /\ 2 \in 1..2
    OBVIOUS
  <2>2. /\ Len(s) = Len(x) + Len(y) /\ \A j \in 1..Len(x) : s[j] = x[j]
        /\ \A j \in 1..Len(y) : s[Len(x) + j] = y[j]
    BY <1>3, Concat
  <2> QED BY <1>2, <2>1, <2>2
<1>5. \A i \in 1..3 : s[i] = z[i]
  BY <1>2, <1>4
<1>6. s = z
  BY <1>2, <1>4, <1>5, SeqEqual
<1> QED BY <1>1, <1>3, <1>6

LEMMA OfThree ==
  ASSUME NEW T, NEW str, NEW a \in T, NEW b \in T, NEW c \in T, str = <<a, b, c>>
  PROVE  /\ str \in Seq(T) /\ DOMAIN str = 1..3 /\ Len(str) = 3
         /\ str[1] = a /\ str[2] = b /\ str[3] = c /\ SubSeq(str, 3, 3) = <<c>>
<1>1. DOMAIN str = 1..3 /\ Len(str) = 3 /\ str[1] = a /\ str[2] = b /\ str[3] = c /\ str \in Seq(T)
  BY Tuples
<1>2. PICK s \in Seq(T) : s = SubSeq(str, 3, 3) /\ Len(s) = 1 /\ s[1] = c
  <2>1. \A i \in 3..3 : str[i] \in T
    BY <1>1
  <2>2. /\ SubSeq(str, 3, 3) \in Seq(T)
        /\ Len(SubSeq(str, 3, 3)) = (IF 3 <= 3 THEN 3 - 3 + 1 ELSE 0)
        /\ \A i \in 1..(3 - 3 + 1) : SubSeq(str, 3, 3)[i] = str[3 + i - 1]
    BY <1>1, <2>1, SubSeqProperties
  <2>3. 3 - 3 + 1 = 1 /\ 3 + 1 - 1 = 3 /\ 3 <= 3 /\ 1 \in 1..(3 - 3 + 1)
    OBVIOUS
  <2>4. Len(SubSeq(str, 3, 3)) = 1
    BY <2>2, <2>3, Zenon
  <2>5. SubSeq(str, 3, 3)[1] = str[3]
    BY <2>2, <2>3, Zenon
  <2> QED BY <1>1, <2>2, <2>4, <2>5, Zenon
<1>3. Len(s) = 1 /\ s[1] = c
  BY <1>2
<1>4. PICK x \in Seq(T) : x = <<c>>
  BY Tuples
<1>5. Len(x) = 1 /\ x[1] = c
  BY <1>4
<1>6. s = x
  BY <1>3, <1>5, SeqEqual
<1> QED BY <1>1, <1>2, <1>4, <1>6

LEMMA EmptyConcat ==
  ASSUME NEW T, NEW s \in Seq(T)
  PROVE  <<>> \o s = s /\ s \o <<>> = s
OBVIOUS

----------------------------------------------------------------------------
(* FlattenSeq *)

\* The concatenations of the first one, two, ... parts.
Concats(seqs, n, f) ==
  f = [i \in 1..n |-> IF i = 1 THEN seqs[i] ELSE f[i - 1] \o seqs[i]]

LEMMA ConcatsExist ==
  ASSUME NEW seqs, NEW n \in Nat
  PROVE  \E f : Concats(seqs, n, f)
<1>1. PICK S : S = {m \in Nat : \E f : Concats(seqs, m, f)}
  OBVIOUS
<1>2. 0 \in S
  <2>1. Concats(seqs, 0, <<>>)
    BY DEF Concats
  <2> QED BY <1>1, <2>1
<1>3. ASSUME NEW m \in Nat, m \in S
      PROVE  m + 1 \in S
  <2>1. PICK f : Concats(seqs, m, f)
    BY <1>1, <1>3
  <2>2. PICK g : g = [i \in 1..(m + 1) |->
                        IF i = m + 1 THEN IF i = 1 THEN seqs[i] ELSE f[m] \o seqs[i]
                        ELSE f[i]]
    OBVIOUS
  <2>3. ASSUME NEW i \in 1..(m + 1)
        PROVE  g[i] = IF i = 1 THEN seqs[i] ELSE g[i - 1] \o seqs[i]
    <3>1. CASE i = m + 1
      BY <2>2, <3>1
    <3>2. CASE i # m + 1
      <4>1. i \in 1..m
        BY <3>2
      <4>2. f[i] = IF i = 1 THEN seqs[i] ELSE f[i - 1] \o seqs[i]
        BY <2>1, <4>1 DEF Concats
      <4> QED BY <2>2, <4>1, <4>2
    <3> QED BY <3>1, <3>2
  <2>4. g = [i \in 1..(m + 1) |-> IF i = 1 THEN seqs[i] ELSE g[i - 1] \o seqs[i]]
    BY <2>2, <2>3
  <2>5. Concats(seqs, m + 1, g)
    BY <2>4 DEF Concats
  <2> QED BY <1>1, <2>5
<1> QED BY <1>1, <1>2, <1>3, Induction

LEMMA FlattenSeqIsConcat ==
  ASSUME NEW seqs, Len(seqs) \in Nat \ {0}
  PROVE  \E f : Concats(seqs, Len(seqs), f) /\ FlattenSeq(seqs) = f[Len(seqs)]
<1>1. \E f : Concats(seqs, Len(seqs), f)
  BY ConcatsExist
<1>2. Concats(seqs, Len(seqs), CHOOSE f : Concats(seqs, Len(seqs), f))
  BY <1>1, Zenon
<1>3. FlattenSeq(seqs) = (CHOOSE f : Concats(seqs, Len(seqs), f))[Len(seqs)]
  BY DEF FlattenSeq, Concats
<1> QED BY <1>2, <1>3

\* Each part of a concatenation begins where the one before it ends.
Layout(seqs, all, off) ==
  /\ off \in [1..(Len(seqs) + 1) -> Nat]
  /\ off[1] = 0
  /\ \A i \in 1..Len(seqs) :
       /\ off[i + 1] = off[i] + Len(seqs[i])
       /\ \A j \in 1..Len(seqs[i]) : all[off[i] + j] = seqs[i][j]
  /\ Len(all) = off[Len(seqs) + 1]

LEMMA FlattenSeqEmpty == FlattenSeq(<<>>) = <<>>
BY DEF FlattenSeq

LEMMA ConcatsLayout ==
  ASSUME NEW T, NEW seqs \in Seq(Seq(T)), NEW f, Concats(seqs, Len(seqs), f),
         NEW n \in 1..Len(seqs)
  PROVE  /\ f[n] \in Seq(T)
         /\ \A i \in 1..n : /\ f[i] \in Seq(T) /\ Len(f[i]) <= Len(f[n])
                            /\ \A j \in 1..Len(f[i]) : f[n][j] = f[i][j]
<1>1. PICK S : S = {m \in Nat : m + 1 \in 1..Len(seqs) =>
                      /\ f[m + 1] \in Seq(T)
                      /\ \A i \in 1..(m + 1) :
                           /\ f[i] \in Seq(T) /\ Len(f[i]) <= Len(f[m + 1])
                           /\ \A j \in 1..Len(f[i]) : f[m + 1][j] = f[i][j]}
  OBVIOUS
<1>2. \A i \in 1..Len(seqs) : seqs[i] \in Seq(T)
  OBVIOUS
<1>3. \A i \in 1..Len(seqs) : f[i] = IF i = 1 THEN seqs[i] ELSE f[i - 1] \o seqs[i]
  BY DEF Concats
<1>4. 0 \in S
  <2>1. 1 \in 1..Len(seqs) => f[1] = seqs[1] /\ seqs[1] \in Seq(T)
    BY <1>2, <1>3
  <2>2. 1 \in 1..Len(seqs) => Len(f[1]) \in Nat
    BY <2>1
  <2> QED BY <1>1, <2>1, <2>2
<1>5. ASSUME NEW m \in Nat, m \in S
      PROVE  m + 1 \in S
  <2> SUFFICES ASSUME m + 2 \in 1..Len(seqs)
               PROVE  /\ f[m + 2] \in Seq(T)
                      /\ \A i \in 1..(m + 2) :
                           /\ f[i] \in Seq(T) /\ Len(f[i]) <= Len(f[m + 2])
                           /\ \A j \in 1..Len(f[i]) : f[m + 2][j] = f[i][j]
    BY <1>1, (m + 1) + 1 = m + 2
  <2>1. m + 1 \in 1..Len(seqs)
    OBVIOUS
  <2>2. /\ f[m + 1] \in Seq(T)
        /\ \A i \in 1..(m + 1) :
             /\ f[i] \in Seq(T) /\ Len(f[i]) <= Len(f[m + 1])
             /\ \A j \in 1..Len(f[i]) : f[m + 1][j] = f[i][j]
    BY <1>1, <1>5, <2>1
  <2>3. f[m + 2] = f[m + 1] \o seqs[m + 2] /\ seqs[m + 2] \in Seq(T)
    <3>1. m + 2 # 1 /\ (m + 2) - 1 = m + 1
      OBVIOUS
    <3> QED BY <1>2, <1>3, <3>1
  <2>4. PICK a \in Seq(T), b \in Seq(T) : a = f[m + 1] /\ b = seqs[m + 2]
    BY <2>2, <2>3
  <2>5. PICK c : c = f[m + 2]
    OBVIOUS
  <2>6. /\ c \in Seq(T) /\ Len(a) \in Nat /\ Len(b) \in Nat /\ Len(c) = Len(a) + Len(b)
        /\ \A j \in 1..Len(a) : c[j] = a[j]
    <3>1. c = a \o b
      BY <2>3, <2>4, <2>5
    <3> QED BY <3>1, Concat
  <2>7. ASSUME NEW i \in 1..(m + 2)
        PROVE  /\ f[i] \in Seq(T) /\ Len(f[i]) <= Len(c)
               /\ \A j \in 1..Len(f[i]) : c[j] = f[i][j]
    <3>1. CASE i = m + 2
      <4>1. f[i] = c
        BY <2>5, <3>1
      <4>2. Len(c) <= Len(c)
        BY <2>6
      <4> QED BY <2>6, <4>1, <4>2
    <3>2. CASE i # m + 2
      <4>1. i \in 1..(m + 1)
        BY <3>2
      <4>2. PICK d \in Seq(T) : d = f[i]
        BY <2>2, <4>1
      <4>3. Len(d) \in Nat /\ Len(d) <= Len(a) /\ \A j \in 1..Len(d) : a[j] = d[j]
        BY <2>2, <2>4, <4>1, <4>2
      <4>4. PICK k \in Nat, l \in Nat, n2 \in Nat : k = Len(a) /\ l = Len(b) /\ n2 = Len(d)
        BY <2>6, <4>3
      <4>5. n2 <= k + l /\ \A j \in 1..n2 : j \in 1..k
        <5>1. n2 <= k
          BY <4>3, <4>4
        <5> QED BY <5>1
      <4>6. Len(d) <= Len(c)
        BY <2>6, <4>4, <4>5
      <4>7. \A j \in 1..Len(d) : c[j] = d[j]
        BY <2>6, <4>3, <4>4, <4>5, Zenon
      <4> QED BY <4>2, <4>6, <4>7
    <3> QED BY <3>1, <3>2
  <2> QED BY <2>4, <2>5, <2>6, <2>7
<1>6. n - 1 \in S
  <2>1. \A m \in Nat : m \in S => m + 1 \in S
    BY <1>5
  <2>2. Nat \subseteq S
    BY <1>4, <2>1, Induction
  <2>3. n - 1 \in Nat
    OBVIOUS
  <2> QED BY <2>2, <2>3
<1>7. (n - 1) + 1 = n
  OBVIOUS
<1> QED BY <1>1, <1>6, <1>7

LEMMA FlattenSeqLayout ==
  ASSUME NEW T, NEW seqs \in Seq(Seq(T))
  PROVE  /\ FlattenSeq(seqs) \in Seq(T)
         /\ \E off : Layout(seqs, FlattenSeq(seqs), off)
<1>1. CASE seqs = <<>>
  <2>1. PICK off : off = [i \in 1..1 |-> 0]
    OBVIOUS
  <2>2. Layout(seqs, <<>>, off)
    BY <1>1, <2>1 DEF Layout
  <2>3. <<>> \in Seq(T)
    OBVIOUS
  <2> QED BY <1>1, <2>2, <2>3, FlattenSeqEmpty
<1>2. CASE seqs # <<>>
  <2>1. Len(seqs) \in Nat \ {0}
    BY <1>2
  <2>2. PICK f : Concats(seqs, Len(seqs), f) /\ FlattenSeq(seqs) = f[Len(seqs)]
    BY <2>1, FlattenSeqIsConcat
  <2>3. PICK n \in Nat \ {0} : n = Len(seqs)
    BY <2>1
  <2>4. PICK all : all = f[n]
    OBVIOUS
  <2>5. /\ all \in Seq(T)
        /\ \A i \in 1..n : /\ f[i] \in Seq(T) /\ Len(f[i]) <= Len(all)
                           /\ \A j \in 1..Len(f[i]) : all[j] = f[i][j]
    <3>1. n \in 1..Len(seqs)
      BY <2>3
    <3> QED BY <2>2, <2>3, <2>4, <3>1, ConcatsLayout
  <2>6. PICK off : off = [i \in 1..(n + 1) |-> IF i = 1 THEN 0 ELSE Len(f[i - 1])]
    OBVIOUS
  <2>7. ASSUME NEW i \in 1..n
        PROVE  off[i] \in Nat /\ off[i + 1] = Len(f[i]) /\ Len(f[i]) \in Nat
    <3>1. i + 1 \in 1..(n + 1) /\ i + 1 # 1 /\ (i + 1) - 1 = i /\ i \in 1..(n + 1)
      OBVIOUS
    <3>2. i # 1 => i - 1 \in 1..n
      OBVIOUS
    <3>3. \A k \in 1..n : Len(f[k]) \in Nat
      BY <2>5
    <3> QED BY <2>6, <3>1, <3>2, <3>3
  <2>8. off[1] = 0 /\ Len(all) = off[n + 1] /\ off[n + 1] \in Nat
    BY <2>4, <2>6, <2>7
  <2>9. ASSUME NEW i \in 1..n
        PROVE  /\ off[i + 1] = off[i] + Len(seqs[i])
               /\ \A j \in 1..Len(seqs[i]) : all[off[i] + j] = seqs[i][j]
    <3>1. PICK b \in Seq(T) : b = seqs[i]
      BY <2>3
    <3>2. PICK c \in Seq(T) : c = f[i]
      BY <2>5
    <3>3. c = IF i = 1 THEN b ELSE f[i - 1] \o b
      BY <2>2, <2>3, <3>1, <3>2 DEF Concats
    <3>4. /\ off[i] \in Nat /\ Len(b) \in Nat /\ Len(c) = off[i] + Len(b)
          /\ \A j \in 1..Len(b) : c[off[i] + j] = b[j]
      <4>1. CASE i = 1
        BY <2>8, <3>3, <4>1
      <4>2. CASE i # 1
        <5>1. i - 1 \in 1..n /\ (i - 1) + 1 = i
          BY <4>2
        <5>2. PICK a \in Seq(T) : a = f[i - 1]
          BY <2>5, <5>1
        <5>3. off[i] = Len(a)
          BY <2>7, <5>1, <5>2
        <5>4. c = a \o b
          BY <3>3, <4>2, <5>2
        <5> QED BY <5>3, <5>4, Concat
      <4> QED BY <4>1, <4>2
    <3>5. Len(c) <= Len(all) /\ \A j \in 1..Len(c) : all[j] = c[j]
      BY <2>5, <3>2
    <3>6. \A j \in 1..Len(b) : off[i] + j \in 1..Len(c)
      BY <3>4
    <3> QED BY <2>7, <3>1, <3>2, <3>4, <3>5, <3>6
  <2>10. off \in [1..(n + 1) -> Nat]
    <3>1. \A i \in 1..(n + 1) : off[i] \in Nat
      BY <2>7, <2>8
    <3> QED BY <2>6, <3>1
  <2>11. Layout(seqs, all, off)
    BY <2>3, <2>8, <2>9, <2>10 DEF Layout
  <2> QED BY <2>2, <2>3, <2>4, <2>5, <2>11
<1> QED BY <1>1, <1>2

LEMMA FlattenSeqOfTwo ==
  ASSUME NEW a, NEW b
  PROVE  FlattenSeq(<<a, b>>) = a \o b
<1>1. PICK seqs : seqs = <<a, b>>
  OBVIOUS
<1>2. Len(seqs) = 2 /\ seqs[1] = a /\ seqs[2] = b
  BY <1>1
<1>3. PICK f : Concats(seqs, 2, f) /\ FlattenSeq(seqs) = f[2]
  <2>1. Len(seqs) \in Nat \ {0}
    BY <1>2
  <2> QED BY <1>2, <2>1, FlattenSeqIsConcat
<1>4. f[1] = a
  BY <1>2, <1>3 DEF Concats
<1>5. f[2] = f[1] \o b
  BY <1>2, <1>3, 2 - 1 = 1 DEF Concats
<1> QED BY <1>1, <1>3, <1>4, <1>5

----------------------------------------------------------------------------
(* Texts *)

\* Every token is a string, but the provers must be told of the literals.
Literals ==
  {SP, CR, LF, Quote, Backslash, "r", "n", "=", "%!", ".", "-", "+", "*", "x",
   "2", "abc", "OK", "SETCONF", "GETCONF", "Nick", "Info",
   "250", "251", "451", "500", "510", "511", "512", "513", "514", "515", "550",
   "551", "552", "553", "554", "555", "650", "299"}
Tokens == STRING \cup Literals

\* What a line is made of.
Chars == Tokens \ {CR, LF}

Texts == Seq(Tokens)

LEMMA SubSeqOfText ==
  ASSUME NEW str \in Texts, NEW m \in Nat \ {0}, NEW n \in Int, n <= Len(str)
  PROVE  SubSeq(str, m, n) \in Texts
<1>1. \A i \in m..n : str[i] \in Tokens
  BY DEF Texts
<1> QED BY <1>1, SubSeqProperties DEF Texts

LEMMA JoinText ==
  ASSUME NEW T, NEW parts \in Seq(Seq(T)), NEW ch \in T
  PROVE  Join(parts, ch) \in Seq(T)
<1>1. PICK pieces : pieces = [i \in DOMAIN parts |-> (IF i = 1 THEN <<>> ELSE <<ch>>) \o parts[i]]
  OBVIOUS
<1>2. ASSUME NEW i \in DOMAIN parts
      PROVE  pieces[i] \in Seq(T)
  <2>1. parts[i] \in Seq(T)
    OBVIOUS
  <2> QED BY <1>1, <2>1
<1>3. pieces \in Seq(Seq(T))
  <2>1. DOMAIN parts = 1..Len(parts) /\ Len(parts) \in Nat
    OBVIOUS
  <2> QED BY <1>1, <1>2, <2>1
<1>4. FlattenSeq(pieces) \in Seq(T)
  BY <1>3, FlattenSeqLayout
<1> QED BY <1>1, <1>4 DEF Join

LEMMA EscapeText ==
  ASSUME NEW str \in Texts
  PROVE  EscapeSimpleQuotedString(str) \in Seq(Chars)
<1>1. PICK pieces : pieces = [i \in DOMAIN str |->
                CASE str[i] = CR -> <<Backslash, "r">>
                  [] str[i] = LF -> <<Backslash, "n">>
                  [] str[i] \in {Backslash, Quote} -> <<Backslash, str[i]>>
                  [] OTHER -> <<str[i]>>]
  OBVIOUS
<1>2. ASSUME NEW i \in DOMAIN str
      PROVE  pieces[i] \in Seq(Chars)
  <2>1. Backslash \in Chars /\ Quote \in Chars /\ "r" \in Chars /\ "n" \in Chars
    BY DEF Chars, Tokens, Literals, Backslash, Quote, CR, LF
  <2>2. str[i] \in {CR, LF} \/ str[i] \in Chars
    BY DEF Texts, Chars
  <2>3. CASE str[i] = CR
    BY <1>1, <2>1, <2>3
  <2>4. CASE str[i] = LF
    BY <1>1, <2>1, <2>4 DEF CR, LF
  <2>5. CASE str[i] \in Chars
    <3>1. str[i] # CR /\ str[i] # LF
      BY <2>5 DEF Chars
    <3>2. pieces[i] = <<Backslash, str[i]>> \/ pieces[i] = <<str[i]>>
      BY <1>1, <3>1
    <3>3. PICK ch \in Chars : ch = str[i]
      BY <2>5
    <3>4. <<Backslash, ch>> \in Seq(Chars) /\ <<ch>> \in Seq(Chars)
      BY <2>1
    <3> QED BY <3>2, <3>3, <3>4
  <2> QED BY <2>2, <2>3, <2>4, <2>5
<1>3. pieces \in Seq(Seq(Chars))
  <2>1. DOMAIN str = 1..Len(str) /\ Len(str) \in Nat
    BY DEF Texts
  <2> QED BY <1>1, <1>2, <2>1
<1>4. FlattenSeq(pieces) \in Seq(Chars)
  BY <1>3, FlattenSeqLayout
<1>5. EscapeSimpleQuotedStringContents(str) \in Seq(Chars)
  BY <1>1, <1>4 DEF EscapeSimpleQuotedStringContents
<1>6. <<Quote>> \in Seq(Chars)
  BY DEF Chars, Tokens, Literals, Quote, CR, LF
<1>7. <<Quote>> \o EscapeSimpleQuotedStringContents(str) \in Seq(Chars)
  BY <1>5, <1>6, Concat
<1> QED BY <1>6, <1>7, Concat DEF EscapeSimpleQuotedString

\* The parts of a text around the first of a token; when there is none, the
\* whole text is the first.
LEMMA PartitionText ==
  ASSUME NEW str \in Texts, NEW ch
  PROVE  /\ PartitionString(str, ch).head \in Texts
         /\ PartitionString(str, ch).tail \in Texts
         /\ PartitionString(str, ch).ok \in BOOLEAN
<1>1. PICK n : n = IF Positions(str, ch) = {} THEN 0
                   ELSE CHOOSE i \in Positions(str, ch) : \A j \in Positions(str, ch) : i <= j
  OBVIOUS
<1>2. n = 0 \/ n \in 1..Len(str)
  <2>1. Positions(str, ch) \subseteq Nat
    BY DEF Positions, Texts
  <2>2. ASSUME Positions(str, ch) # {}
        PROVE  \E i \in Positions(str, ch) : \A j \in Positions(str, ch) : i <= j
    BY <2>1, <2>2, LeastNumber
  <2> QED BY <1>1, <2>2 DEF Positions, Texts
<1>3. PartitionString(str, ch) = PartitionAt(str, n)
  BY <1>1 DEF PartitionString
<1>4. CASE n = 0
  BY <1>3, <1>4 DEF PartitionAt, Texts
<1>5. CASE n \in 1..Len(str)
  <2>1. SubSeq(str, 1, n - 1) \in Texts /\ SubSeq(str, n + 1, Len(str)) \in Texts
    BY <1>5, SubSeqOfText DEF Texts
  <2> QED BY <1>3, <1>5, <2>1 DEF PartitionAt
<1> QED BY <1>2, <1>4, <1>5

----------------------------------------------------------------------------
(* Escaping and unescaping *)

Start == [ret |-> <<>>, escaping |-> FALSE, err |-> FALSE]

\* The fold's function on the sets of the first positions.
Folded(str, n, f) ==
  f = [s \in SUBSET (1..n) |->
         IF s = {} THEN Start ELSE UnescapeToken(f[s \ {Max(s)}], str[Max(s)])]

LEMMA MaxOf ==
  ASSUME NEW S, NEW x \in S, \A y \in S : y \in Int /\ x >= y
  PROVE  Max(S) = x
<1>1. PICK m : m = Max(S)
  OBVIOUS
<1>2. m \in S /\ \A y \in S : m >= y
  BY <1>1 DEF Max
<1> QED BY <1>1, <1>2

LEMMA MaxIsIn ==
  ASSUME NEW n \in Nat, NEW S \in SUBSET (1..n), S # {}
  PROVE  Max(S) \in S
<1>1. PICK S2 : S2 = {n - x : x \in S}
  OBVIOUS
<1>2. S2 \in SUBSET Nat /\ S2 # {}
  <2>1. \A x \in S : n - x \in Nat
    OBVIOUS
  <2>2. S2 \in SUBSET Nat
    BY <1>1, <2>1, Zenon
  <2>3. PICK x : x \in S
    OBVIOUS
  <2>4. n - x \in S2
    BY <1>1, <2>3
  <2> QED BY <2>2, <2>4
<1>3. PICK y \in S2 : \A z \in S2 : y <= z
  BY <1>2, LeastNumber
<1>4. PICK x \in S : y = n - x
  BY <1>1
<1>5. \A z \in S : z \in Int /\ x >= z
  BY <1>1, <1>3, <1>4
<1> QED BY <1>5, MaxOf

LEMMA FoldedExists ==
  ASSUME NEW str, NEW n \in Nat
  PROVE  \E f : Folded(str, n, f)
<1>1. PICK S : S = {m \in Nat : \E f : Folded(str, m, f)}
  OBVIOUS
<1>2. 0 \in S
  <2>1. PICK f : f = [s \in SUBSET (1..0) |-> Start]
    OBVIOUS
  <2>2. SUBSET (1..0) = {{}}
    OBVIOUS
  <2>3. Folded(str, 0, f)
    BY <2>1, <2>2 DEF Folded
  <2> QED BY <1>1, <2>3
<1>3. ASSUME NEW m \in Nat, m \in S
      PROVE  m + 1 \in S
  <2>1. PICK f : Folded(str, m, f)
    BY <1>1, <1>3
  <2>2. PICK g : g = [s \in SUBSET (1..(m + 1)) |->
                        IF m + 1 \in s THEN UnescapeToken(f[s \ {m + 1}], str[m + 1])
                        ELSE f[s]]
    OBVIOUS
  <2>3. ASSUME NEW s \in SUBSET (1..(m + 1))
        PROVE  g[s] = IF s = {} THEN Start ELSE UnescapeToken(g[s \ {Max(s)}], str[Max(s)])
    <3>1. CASE m + 1 \in s
      <4>1. \A y \in s : y \in Int /\ m + 1 >= y
        OBVIOUS
      <4>2. Max(s) = m + 1
        BY <3>1, <4>1, MaxOf
      <4>3. PICK u : u = s \ {m + 1}
        OBVIOUS
      <4>4. u \in SUBSET (1..(m + 1)) /\ m + 1 \notin u
        BY <4>3
      <4>5. g[u] = f[u]
        BY <2>2, <4>4
      <4>6. g[s] = UnescapeToken(f[u], str[m + 1])
        BY <2>2, <3>1, <4>3, Zenon
      <4> QED BY <3>1, <4>2, <4>3, <4>5, <4>6, Zenon
    <3>2. CASE m + 1 \notin s /\ s # {}
      <4>1. s \in SUBSET (1..m)
        BY <3>2
      <4>2. PICK x \in s : x = Max(s)
        BY <3>2, <4>1, MaxIsIn
      <4>3. PICK u : u = s \ {x}
        OBVIOUS
      <4>4. u \in SUBSET (1..(m + 1)) /\ m + 1 \notin u
        BY <3>2, <4>3
      <4>5. g[u] = f[u]
        BY <2>2, <4>4
      <4>6. g[s] = f[s]
        BY <2>2, <3>2
      <4>7. f[s] = UnescapeToken(f[s \ {Max(s)}], str[Max(s)])
        BY <2>1, <3>2, <4>1, Zenon DEF Folded
      <4> QED BY <3>2, <4>2, <4>3, <4>5, <4>6, <4>7, Zenon
    <3>3. CASE s = {}
      <4>1. m + 1 \notin s /\ {} \in SUBSET (1..m)
        BY <3>3
      <4>2. g[s] = f[s]
        BY <2>2, <4>1
      <4>3. f[{}] = Start
        BY <2>1, <4>1, Zenon DEF Folded
      <4> QED BY <3>3, <4>2, <4>3
    <3> QED BY <3>1, <3>2, <3>3
  <2>4. g = [s \in SUBSET (1..(m + 1)) |->
               IF s = {} THEN Start ELSE UnescapeToken(g[s \ {Max(s)}], str[Max(s)])]
    <3>1. \E h : g = [s \in SUBSET (1..(m + 1)) |-> h[s]]
      <4>1. g = [s \in SUBSET (1..(m + 1)) |-> g[s]]
        BY <2>2
      <4> QED BY <4>1
    <3> QED BY <2>2, <2>3, <3>1
  <2>5. Folded(str, m + 1, g)
    BY <2>4 DEF Folded
  <2> QED BY <1>1, <2>5
<1> QED BY <1>1, <1>2, <1>3, Induction

\* The states of the loop over a text.
Loop(str, st) ==
  /\ st[0] = Start
  /\ \A k \in 1..Len(str) : st[k] = UnescapeToken(st[k - 1], str[k])

LEMMA UnescapeLoop ==
  ASSUME NEW T, NEW str \in Seq(T)
  PROVE  \E st : Loop(str, st) /\ FoldLeft(UnescapeToken, Start, str) = st[Len(str)]
<1>1. PICK n \in Nat : n = Len(str) /\ DOMAIN str = 1..n
  OBVIOUS
<1>2. \E f : Folded(str, n, f)
  BY FoldedExists
<1>3. PICK f : f = CHOOSE g : Folded(str, n, g)
  OBVIOUS
<1>4. Folded(str, n, f)
  BY <1>2, <1>3, Zenon
<1>5. FoldLeft(UnescapeToken, Start, str) = f[1..n]
  BY <1>1, <1>3, Zenon DEF FoldLeft, MapThenFoldSet, Folded
<1>6. PICK st : st = [k \in 0..n |-> f[1..k]]
  OBVIOUS
<1>7. st[0] = Start
  <2>1. 1..0 = {} /\ {} \in SUBSET (1..n) /\ 0 \in 0..n
    OBVIOUS
  <2>2. f[{}] = Start
    BY <1>4, <2>1, Zenon DEF Folded
  <2> QED BY <1>6, <2>1, <2>2
<1>8. ASSUME NEW k \in 1..n
      PROVE  st[k] = UnescapeToken(st[k - 1], str[k])
  <2>1. k \in 1..k /\ \A y \in 1..k : y \in Int /\ k >= y
    OBVIOUS
  <2>2. Max(1..k) = k
    BY <2>1, MaxOf
  <2>3. (1..k) \ {k} = 1..(k - 1) /\ k \in 0..n /\ k - 1 \in 0..n
    OBVIOUS
  <2>4. 1..k \in SUBSET (1..n) /\ 1..k # {}
    <3>1. \A y \in 1..k : y \in 1..n
      OBVIOUS
    <3>2. PICK S : S = 1..k
      OBVIOUS
    <3>3. k \in S /\ \A y \in S : y \in 1..n
      BY <2>1, <3>1, <3>2
    <3> QED BY <3>2, <3>3
  <2>5. f[1..k] = UnescapeToken(f[(1..k) \ {Max(1..k)}], str[Max(1..k)])
    BY <1>4, <2>4, Zenon DEF Folded
  <2>6. st[k] = f[1..k] /\ st[k - 1] = f[1..(k - 1)]
    BY <1>6, <2>3
  <2> QED BY <2>2, <2>3, <2>5, <2>6, Zenon
<1>9. Loop(str, st)
  BY <1>1, <1>7, <1>8 DEF Loop
<1>10. st[n] = f[1..n]
  BY <1>6
<1> QED BY <1>1, <1>5, <1>9, <1>10

State(ret, escaping) == [ret |-> ret, escaping |-> escaping, err |-> FALSE]

\* What the loop does with the tokens that escaping writes.
LEMMA UnescapeTokenCases ==
  ASSUME NEW ret
  PROVE  /\ \A ch : ch \notin Escapes =>
              UnescapeToken(State(ret, FALSE), ch) = State(Append(ret, ch), FALSE)
         /\ UnescapeToken(State(ret, FALSE), Backslash) = State(ret, TRUE)
         /\ UnescapeToken(State(ret, TRUE), "r") = State(Append(ret, CR), FALSE)
         /\ UnescapeToken(State(ret, TRUE), "n") = State(Append(ret, LF), FALSE)
         /\ \A ch \in {Backslash, Quote} :
              UnescapeToken(State(ret, TRUE), ch) = State(Append(ret, ch), FALSE)
<1>1. PICK s, t : s = State(ret, FALSE) /\ t = State(ret, TRUE)
  OBVIOUS
<1>2. /\ s = [ret |-> ret, escaping |-> FALSE, err |-> FALSE]
      /\ t = [ret |-> ret, escaping |-> TRUE, err |-> FALSE]
      /\ s.err = FALSE /\ t.err = FALSE /\ s.escaping = FALSE /\ t.escaping = TRUE
      /\ s.ret = ret /\ t.ret = ret
  BY <1>1 DEF State
<1>3. ASSUME NEW ch, ch \notin Escapes
      PROVE  UnescapeToken(s, ch) = State(Append(ret, ch), FALSE)
  BY <1>2, <1>3 DEF UnescapeToken, State, Escapes
<1>4. UnescapeToken(s, Backslash) = State(ret, TRUE)
  BY <1>2 DEF UnescapeToken, State, Backslash, Quote, CR, LF
<1>5. /\ UnescapeToken(t, "r") = State(Append(ret, CR), FALSE)
      /\ UnescapeToken(t, "n") = State(Append(ret, LF), FALSE)
  BY <1>2 DEF UnescapeToken, State, Backslash, Quote, CR, LF
<1>6. ASSUME NEW ch \in {Backslash, Quote}
      PROVE  UnescapeToken(t, ch) = State(Append(ret, ch), FALSE)
  BY <1>2 DEF UnescapeToken, State, Backslash, Quote, CR, LF
<1> QED BY <1>1, <1>3, <1>4, <1>5, <1>6

\* How a token is written.
EscapedToken(ch) ==
  CASE ch = CR -> <<Backslash, "r">>
    [] ch = LF -> <<Backslash, "n">>
    [] ch \in {Backslash, Quote} -> <<Backslash, ch>>
    [] OTHER -> <<ch>>

\* A token that is escaped is a backslash and what stands for it.
Stands(ch, x) ==
  \/ ch = CR /\ x = "r"
  \/ ch = LF /\ x = "n"
  \/ ch \in {Backslash, Quote} /\ x = ch

LEMMA EscapedTokenCases ==
  ASSUME NEW ch \in Tokens
  PROVE  /\ EscapedToken(ch) \in Texts
         /\ \/ /\ ch \notin Escapes
               /\ Len(EscapedToken(ch)) = 1 /\ EscapedToken(ch)[1] = ch
            \/ /\ Len(EscapedToken(ch)) = 2 /\ EscapedToken(ch)[1] = Backslash
               /\ Stands(ch, EscapedToken(ch)[2])
<1>1. Backslash \in Tokens /\ "r" \in Tokens /\ "n" \in Tokens
  BY DEF Tokens, Literals, Backslash
<1>2. CASE ch = CR
  <2>1. EscapedToken(ch) = <<Backslash, "r">>
    BY <1>2 DEF EscapedToken, CR, LF, Backslash, Quote
  <2> QED BY <1>1, <1>2, <2>1 DEF Stands, Texts
<1>3. CASE ch = LF
  <2>1. EscapedToken(ch) = <<Backslash, "n">>
    BY <1>3 DEF EscapedToken, CR, LF, Backslash, Quote
  <2> QED BY <1>1, <1>3, <2>1 DEF Stands, Texts
<1>4. CASE ch \in {Backslash, Quote}
  <2>1. EscapedToken(ch) = <<Backslash, ch>>
    BY <1>4 DEF EscapedToken, CR, LF, Backslash, Quote
  <2> QED BY <1>1, <1>4, <2>1 DEF Stands, Texts
<1>5. CASE ch \notin Escapes
  <2>1. EscapedToken(ch) = <<ch>>
    BY <1>5 DEF EscapedToken, Escapes
  <2> QED BY <1>1, <1>5, <2>1 DEF Texts
<1> QED BY <1>2, <1>3, <1>4, <1>5 DEF Escapes

\* The contents as they are written: where the writing of each token begins.
EscapedAt(str, off) ==
  \E pieces \in Seq(Texts) :
    /\ Len(pieces) = Len(str)
    /\ \A i \in 1..Len(str) : pieces[i] = EscapedToken(str[i])
    /\ Layout(pieces, EscapeSimpleQuotedStringContents(str), off)

LEMMA ContentsWritten ==
  ASSUME NEW str \in Texts
  PROVE  /\ EscapeSimpleQuotedStringContents(str) \in Texts
         /\ \E off : EscapedAt(str, off)
<1>1. PICK n \in Nat : n = Len(str) /\ DOMAIN str = 1..n
  BY DEF Texts
<1>2. PICK pieces : pieces = [i \in DOMAIN str |->
                CASE str[i] = CR -> <<Backslash, "r">>
                  [] str[i] = LF -> <<Backslash, "n">>
                  [] str[i] \in {Backslash, Quote} -> <<Backslash, str[i]>>
                  [] OTHER -> <<str[i]>>]
  OBVIOUS
<1>3. \A i \in 1..n : str[i] \in Tokens
  BY <1>1 DEF Texts
<1>4. ASSUME NEW i \in 1..n
      PROVE  pieces[i] = EscapedToken(str[i]) /\ pieces[i] \in Texts
  <2>1. pieces[i] = EscapedToken(str[i])
    BY <1>1, <1>2, Zenon DEF EscapedToken
  <2> QED BY <1>3, <2>1, EscapedTokenCases
<1>5. pieces \in Seq(Texts) /\ Len(pieces) = n
  <2>1. DOMAIN pieces = 1..n
    BY <1>1, <1>2
  <2>2. pieces = [i \in 1..n |-> pieces[i]]
    BY <1>1, <1>2
  <2>3. pieces \in [1..n -> Texts]
    BY <1>4, <2>2
  <2> QED BY <2>1, <2>3
<1>6. EscapeSimpleQuotedStringContents(str) = FlattenSeq(pieces)
  BY <1>2, Zenon DEF EscapeSimpleQuotedStringContents
<1>7. pieces \in Seq(Seq(Tokens))
  BY <1>5 DEF Texts
<1>8. /\ FlattenSeq(pieces) \in Seq(Tokens)
      /\ \E off : Layout(pieces, FlattenSeq(pieces), off)
  BY <1>7, FlattenSeqLayout
<1> QED BY <1>1, <1>4, <1>5, <1>6, <1>8, Zenon DEF EscapedAt, Texts

LEMMA PrefixOfText ==
  ASSUME NEW str \in Texts, NEW i \in Nat, i + 1 \in 1..Len(str)
  PROVE  Append(SubSeq(str, 1, i), str[i + 1]) = SubSeq(str, 1, i + 1)
<1>1. PICK n \in Nat : n = Len(str)
  BY DEF Texts
<1>2. \A k \in 1..n : str[k] \in Tokens
  BY <1>1 DEF Texts
<1>3. i \in 0..n /\ i + 1 \in 1..n /\ i + 1 <= n /\ i <= n
  BY <1>1
<1>4. PICK a \in Seq(Tokens), b \in Seq(Tokens), ch \in Tokens :
        a = SubSeq(str, 1, i) /\ b = SubSeq(str, 1, i + 1) /\ ch = str[i + 1]
  <2>1. 1 \in Nat \ {0} /\ i \in Int /\ i + 1 \in Int /\ i <= Len(str) /\ i + 1 <= Len(str)
    BY <1>1, <1>3
  <2>2. SubSeq(str, 1, i) \in Texts /\ SubSeq(str, 1, i + 1) \in Texts
    BY <2>1, SubSeqOfText
  <2>3. str[i + 1] \in Tokens
    BY <1>2, <1>3
  <2> QED BY <2>2, <2>3 DEF Texts
<1>5. Len(a) = i /\ \A k \in 1..i : a[k] = str[k]
  BY <1>1, <1>3, <1>4 DEF Texts
<1>6. Len(b) = i + 1 /\ \A k \in 1..(i + 1) : b[k] = str[k]
  BY <1>1, <1>3, <1>4 DEF Texts
<1>7. PICK c \in Seq(Tokens) : c = Append(a, ch)
  BY AppendProperties
<1>8. Len(c) = i + 1 /\ c[i + 1] = ch /\ \A k \in 1..i : c[k] = a[k]
  BY <1>5, <1>7, AppendProperties
<1>9. \A k \in 1..(i + 1) : c[k] = b[k]
  <2> SUFFICES ASSUME NEW k \in 1..(i + 1) PROVE c[k] = b[k]
    OBVIOUS
  <2>1. k = i + 1 \/ k \in 1..i
    OBVIOUS
  <2> QED BY <1>4, <1>5, <1>6, <1>8, <2>1
<1>10. c = b
  BY <1>6, <1>8, <1>9, SeqEqual
<1> QED BY <1>4, <1>7, <1>10

\* No part begins after the end.
LEMMA LayoutOffsets ==
  ASSUME NEW T, NEW seqs \in Seq(Seq(T)), NEW all, NEW off, Layout(seqs, all, off)
  PROVE  \A i \in 1..(Len(seqs) + 1) : off[i] <= Len(all)
<1>1. PICK n \in Nat : n = Len(seqs)
  OBVIOUS
<1>2. /\ off \in [1..(n + 1) -> Nat] /\ Len(all) = off[n + 1]
      /\ \A i \in 1..n : off[i + 1] = off[i] + Len(seqs[i]) /\ Len(seqs[i]) \in Nat
  BY <1>1 DEF Layout
<1>3. PICK S : S = {d \in Nat : d <= n => off[n + 1 - d] <= off[n + 1]}
  OBVIOUS
<1>4. 0 \in S
  <2>1. n + 1 - 0 = n + 1 /\ off[n + 1] \in Nat
    BY <1>2
  <2> QED BY <1>3, <2>1
<1>5. ASSUME NEW d \in Nat, d \in S
      PROVE  d + 1 \in S
  <2> SUFFICES ASSUME d + 1 <= n
               PROVE  off[n + 1 - (d + 1)] <= off[n + 1]
    BY <1>3
  <2>1. PICK i \in 1..n : i = n - d
    OBVIOUS
  <2>2. n + 1 - (d + 1) = i /\ n + 1 - d = i + 1 /\ d <= n
    BY <2>1
  <2>3. off[i + 1] <= off[n + 1]
    BY <1>3, <1>5, <2>2
  <2>4. PICK a \in Nat, b \in Nat, c \in Nat, l \in Nat :
          a = off[i] /\ b = off[i + 1] /\ c = off[n + 1] /\ l = Len(seqs[i])
    <3>1. i \in 1..(n + 1) /\ i + 1 \in 1..(n + 1) /\ n + 1 \in 1..(n + 1)
      BY <2>1
    <3>2. off[i] \in Nat /\ off[i + 1] \in Nat /\ off[n + 1] \in Nat
      BY <1>2, <3>1
    <3>3. Len(seqs[i]) \in Nat
      BY <1>2
    <3> QED BY <3>2, <3>3
  <2>5. b = a + l /\ b <= c
    BY <1>2, <2>3, <2>4
  <2>6. off[n + 1 - (d + 1)] = a /\ off[n + 1] = c
    BY <2>2, <2>4, Zenon
  <2>7. a <= c
    BY <2>5
  <2> QED BY <2>6, <2>7, Zenon
<1>6. Nat \subseteq S
  BY <1>4, <1>5, Induction
<1>7. ASSUME NEW i \in 1..(n + 1)
      PROVE  off[i] <= Len(all)
  <2>1. n + 1 - i \in Nat /\ n + 1 - i <= n /\ n + 1 - (n + 1 - i) = i
    OBVIOUS
  <2> QED BY <1>2, <1>3, <1>6, <2>1
<1> QED BY <1>1, <1>7

Unescaped(str, off, st, i) == st[off[i + 1]] = State(SubSeq(str, 1, i), FALSE)

\* The loop gives back what was escaped, token by token.
LEMMA UnescapeWritten ==
  ASSUME NEW str \in Texts, NEW off, EscapedAt(str, off), NEW st,
         Loop(EscapeSimpleQuotedStringContents(str), st)
  PROVE  \A i \in 0..Len(str) : Unescaped(str, off, st, i)
<1>1. PICK c \in Texts : c = EscapeSimpleQuotedStringContents(str)
  BY ContentsWritten
<1>2. PICK n \in Nat : n = Len(str)
  BY DEF Texts
<1>3. PICK pieces \in Seq(Texts) :
        /\ Len(pieces) = n /\ \A i \in 1..n : pieces[i] = EscapedToken(str[i])
        /\ Layout(pieces, c, off)
  BY <1>1, <1>2 DEF EscapedAt
<1>4. /\ off \in [1..(n + 1) -> Nat] /\ off[1] = 0 /\ Len(c) = off[n + 1]
      /\ \A i \in 1..n : /\ off[i + 1] = off[i] + Len(pieces[i])
                         /\ \A j \in 1..Len(pieces[i]) : c[off[i] + j] = pieces[i][j]
  BY <1>3 DEF Layout
<1>5. st[0] = Start /\ \A k \in 1..Len(c) : st[k] = UnescapeToken(st[k - 1], c[k])
  BY <1>1 DEF Loop
<1>6. PICK S : S = {m \in Nat : m <= n => Unescaped(str, off, st, m)}
  OBVIOUS
<1>7. 0 \in S
  <2>1. SubSeq(str, 1, 0) = <<>>
    BY DEF Texts
  <2>2. 0 + 1 = 1
    OBVIOUS
  <2>3. st[off[0 + 1]] = State(SubSeq(str, 1, 0), FALSE)
    BY <1>4, <1>5, <2>1, <2>2 DEF Start, State
  <2> QED BY <1>6, <2>3 DEF Unescaped
<1>8. \A i \in 1..(n + 1) : off[i] <= Len(c) /\ off[i] \in Nat
  <2>1. pieces \in Seq(Seq(Tokens)) /\ Len(pieces) = n
    BY <1>3 DEF Texts
  <2> QED BY <1>3, <1>4, <2>1, LayoutOffsets
<1>9. ASSUME NEW i \in Nat, i \in S
      PROVE  i + 1 \in S
  <2> SUFFICES ASSUME i + 1 \in 1..n
               PROVE  Unescaped(str, off, st, i + 1)
    BY <1>6
  <2>1. PICK k \in 1..n : k = i + 1
    OBVIOUS
  <2>2. PICK ch \in Tokens : ch = str[k]
    BY <1>2 DEF Texts
  <2>3. PICK ret : ret = SubSeq(str, 1, i)
    OBVIOUS
  <2>4. Append(ret, ch) = SubSeq(str, 1, i + 1)
    BY <1>2, <2>1, <2>2, <2>3, PrefixOfText
  <2>5. PICK a \in Nat, b \in Nat : a = off[k] /\ b = off[k + 1]
    BY <1>8
  <2>6. st[a] = State(ret, FALSE)
    <3>1. Unescaped(str, off, st, i)
      BY <1>6, <1>9
    <3> QED BY <2>1, <2>3, <2>5, <3>1, Zenon DEF Unescaped
  <2>7. b <= Len(c) /\ Len(c) \in Nat
    BY <1>8, <2>5 DEF Texts
  <2>8. pieces[k] = EscapedToken(ch)
    BY <1>3, <2>2
  <2>9. b = a + Len(pieces[k]) /\ \A j \in 1..Len(pieces[k]) : c[a + j] = pieces[k][j]
    BY <1>4, <2>5
  <2>10. CASE ch \notin Escapes /\ Len(pieces[k]) = 1 /\ pieces[k][1] = ch
    <3>1. b = a + 1 /\ c[a + 1] = ch
      BY <2>9, <2>10
    <3>2. a + 1 \in 1..Len(c) /\ (a + 1) - 1 = a
      BY <2>7, <3>1
    <3>3. st[a + 1] = UnescapeToken(st[a], ch)
      BY <1>5, <3>1, <3>2
    <3>4. st[b] = State(Append(ret, ch), FALSE)
      BY <2>6, <2>10, <3>1, <3>3, UnescapeTokenCases
    <3> QED BY <2>1, <2>4, <2>5, <3>4, Zenon DEF Unescaped
  <2>11. CASE /\ Len(pieces[k]) = 2 /\ pieces[k][1] = Backslash
              /\ Stands(ch, pieces[k][2])
    <3>1. PICK x : x = pieces[k][2]
      OBVIOUS
    <3>2. b = a + 2 /\ c[a + 1] = Backslash /\ c[a + 2] = x
      BY <2>9, <2>11, <3>1
    <3>3. a + 1 \in 1..Len(c) /\ (a + 1) - 1 = a /\ a + 2 \in 1..Len(c) /\ (a + 2) - 1 = a + 1
      BY <2>7, <3>2
    <3>4. st[a + 1] = UnescapeToken(st[a], Backslash) /\ st[a + 2] = UnescapeToken(st[a + 1], x)
      BY <1>5, <3>2, <3>3
    <3>5. st[a + 1] = State(ret, TRUE)
      BY <2>6, <3>4, UnescapeTokenCases
    <3>6. UnescapeToken(State(ret, TRUE), x) = State(Append(ret, ch), FALSE)
      BY <2>11, <3>1, UnescapeTokenCases DEF Stands
    <3>7. st[b] = State(Append(ret, ch), FALSE)
      BY <3>2, <3>4, <3>5, <3>6
    <3> QED BY <2>1, <2>4, <2>5, <3>7, Zenon DEF Unescaped
  <2> QED BY <2>2, <2>8, <2>10, <2>11, EscapedTokenCases
<1>10. Nat \subseteq S
  BY <1>7, <1>9, Induction
<1> QED BY <1>2, <1>6, <1>10

LEMMA Middle ==
  ASSUME NEW T, NEW q \in T, NEW c \in Seq(T)
  PROVE  LET s == <<q>> \o c \o <<q>>
         IN /\ s \in Seq(T) /\ Len(s) = Len(c) + 2 /\ s[1] = q /\ s[Len(s)] = q
            /\ SubSeq(s, 2, Len(s) - 1) = c
<1>1. PICK x \in Seq(T) : x = <<q>> /\ Len(x) = 1 /\ x[1] = q
  <2>1. <<q>> \in Seq(T) /\ Len(<<q>>) = 1 /\ <<q>>[1] = q
    OBVIOUS
  <2> QED BY <2>1
<1>2. PICK n \in Nat : n = Len(c)
  OBVIOUS
<1>3. PICK y \in Seq(T) : y = x \o c
  BY Concat
<1>4. /\ Len(y) = n + 1 /\ \A j \in 1..1 : y[j] = x[j]
      /\ \A j \in 1..n : y[1 + j] = c[j]
  BY <1>1, <1>2, <1>3, Concat
<1>5. PICK s \in Seq(T) : s = y \o x
  BY Concat
<1>6. /\ Len(s) = n + 2 /\ \A j \in 1..(n + 1) : s[j] = y[j]
      /\ \A j \in 1..1 : s[n + 1 + j] = x[j]
  <2>1. n + 1 + 1 = n + 2
    OBVIOUS
  <2>2. /\ Len(s) = Len(y) + Len(x) /\ \A j \in 1..Len(y) : s[j] = y[j]
        /\ \A j \in 1..Len(x) : s[Len(y) + j] = x[j]
    BY <1>5, Concat
  <2> QED BY <1>1, <1>4, <2>1, <2>2
<1>7. s[1] = q /\ s[n + 2] = q
  <2>1. 1 \in 1..1 /\ 1 \in 1..(n + 1) /\ n + 1 + 1 = n + 2
    OBVIOUS
  <2> QED BY <1>1, <1>4, <1>6, <2>1
<1>8. \A j \in 1..n : s[j + 1] = c[j]
  <2> SUFFICES ASSUME NEW j \in 1..n PROVE s[j + 1] = c[j]
    OBVIOUS
  <2>1. j + 1 \in 1..(n + 1) /\ 1 + j = j + 1
    OBVIOUS
  <2> QED BY <1>4, <1>6, <2>1
<1>9. PICK d \in Seq(T) : d = SubSeq(s, 2, n + 1)
  <2>1. \A i \in 2..(n + 1) : s[i] \in T
    BY <1>6
  <2>2. SubSeq(s, 2, n + 1) \in Seq(T)
    BY <2>1, SubSeqProperties
  <2> QED BY <2>2
<1>10. Len(d) = n /\ \A j \in 1..n : d[j] = s[j + 1]
  <2>1. \A i \in 2..(n + 1) : s[i] \in T
    BY <1>6
  <2>2. /\ Len(d) = (IF 2 <= n + 1 THEN n + 1 - 2 + 1 ELSE 0)
        /\ \A i \in 1..(n + 1 - 2 + 1) : d[i] = s[2 + i - 1]
    BY <1>9, <2>1, SubSeqProperties
  <2>3. n + 1 - 2 + 1 = n /\ (~(2 <= n + 1) => n = 0) /\ \A j \in 1..n : 2 + j - 1 = j + 1
    OBVIOUS
  <2> QED BY <2>2, <2>3
<1>11. d = c
  BY <1>2, <1>8, <1>10, SeqEqual
<1>12. Len(s) - 1 = n + 1
  BY <1>6
<1>13. s = <<q>> \o c \o <<q>>
  BY <1>1, <1>3, <1>5
<1> QED BY <1>2, <1>6, <1>7, <1>9, <1>11, <1>12, <1>13

LEMMA QuotedText ==
  ASSUME NEW str \in Texts, NEW c \in Texts, c = EscapeSimpleQuotedStringContents(str),
         NEW s, s = EscapeSimpleQuotedString(str)
  PROVE  /\ s \in Texts /\ Len(s) = Len(c) + 2 /\ s[1] = Quote /\ s[Len(s)] = Quote
         /\ SubSeq(s, 2, Len(s) - 1) = c
<1>1. s = <<Quote>> \o c \o <<Quote>>
  BY Zenon DEF EscapeSimpleQuotedString
<1>2. Quote \in Tokens
  BY DEF Tokens, Literals, Quote
<1>3. c \in Seq(Tokens)
  BY DEF Texts
<1>4. LET z == <<Quote>> \o c \o <<Quote>>
      IN /\ z \in Seq(Tokens) /\ Len(z) = Len(c) + 2 /\ z[1] = Quote /\ z[Len(z)] = Quote
         /\ SubSeq(z, 2, Len(z) - 1) = c
  BY <1>2, <1>3, Middle
<1> QED BY <1>1, <1>4, Zenon DEF Texts

\* What is escaped is unescaped to what it was, whatever is in it: quotes,
\* backslashes, line breaks and words that look like escapes (string.go:40-112).
THEOREM RoundTrip ==
  ASSUME NEW str \in Texts
  PROVE  UnescapeSimpleQuotedString(EscapeSimpleQuotedString(str))
           = [val |-> str, err |-> FALSE]
<1>1. PICK c \in Texts : c = EscapeSimpleQuotedStringContents(str)
  BY ContentsWritten
<1>2. PICK off : EscapedAt(str, off)
  BY ContentsWritten
<1>3. PICK st : Loop(c, st) /\ FoldLeft(UnescapeToken, Start, c) = st[Len(c)]
  BY UnescapeLoop DEF Texts
<1>4. PICK n \in Nat : n = Len(str) /\ n \in 0..n
  BY DEF Texts
<1>5. st[off[n + 1]] = State(SubSeq(str, 1, n), FALSE)
  BY <1>1, <1>2, <1>3, <1>4, UnescapeWritten DEF Unescaped
<1>6. off[n + 1] = Len(c)
  BY <1>1, <1>2, <1>4 DEF EscapedAt, Layout
<1>7. SubSeq(str, 1, n) = str
  BY <1>4 DEF Texts
<1>8. FoldLeft(UnescapeToken, Start, c) = State(str, FALSE)
  BY <1>3, <1>5, <1>6, <1>7
<1>9. UnescapeSimpleQuotedStringContents(c) = [val |-> str, err |-> FALSE]
  <2>1. PICK end : end = FoldLeft(UnescapeToken, Start, c)
    OBVIOUS
  <2>2. end.err = FALSE /\ end.ret = str
    BY <1>8, <2>1 DEF State
  <2>3. UnescapeSimpleQuotedStringContents(c) =
          IF end.err THEN [val |-> <<>>, err |-> TRUE] ELSE [val |-> end.ret, err |-> FALSE]
    BY <2>1, Zenon DEF UnescapeSimpleQuotedStringContents, Start
  <2> QED BY <2>2, <2>3
<1>10. PICK s : s = EscapeSimpleQuotedString(str)
  OBVIOUS
<1>12. /\ s \in Texts /\ Len(s) = Len(c) + 2 /\ s[1] = Quote /\ s[Len(s)] = Quote
       /\ SubSeq(s, 2, Len(s) - 1) = c
  BY <1>1, <1>10, QuotedText
<1>13. Len(c) + 2 >= 2
  BY DEF Texts
<1>14. Quoted(s)
  BY <1>12, <1>13 DEF Quoted
<1> QED BY <1>9, <1>10, <1>12, <1>14 DEF UnescapeSimpleQuotedString

\* What escaping writes is made of the text's tokens and of four others.
LEMMA EscapedOver ==
  ASSUME NEW T \in SUBSET Tokens, {Backslash, Quote, "r", "n"} \subseteq T, NEW str \in Seq(T)
  PROVE  EscapeSimpleQuotedString(str) \in Seq(T)
<1>1. PICK pieces : pieces = [i \in DOMAIN str |->
                CASE str[i] = CR -> <<Backslash, "r">>
                  [] str[i] = LF -> <<Backslash, "n">>
                  [] str[i] \in {Backslash, Quote} -> <<Backslash, str[i]>>
                  [] OTHER -> <<str[i]>>]
  OBVIOUS
<1>2. PICK n \in Nat : n = Len(str) /\ DOMAIN str = 1..n
  OBVIOUS
<1>3. ASSUME NEW i \in 1..n
      PROVE  pieces[i] \in Seq(T)
  <2>1. PICK ch \in T : ch = str[i]
    BY <1>2
  <2>2. pieces[i] = EscapedToken(ch)
    BY <1>1, <1>2, <2>1, Zenon DEF EscapedToken
  <2>3. ch \in Tokens
    OBVIOUS
  <2>4. /\ EscapedToken(ch) \in Texts
        /\ \A j \in 1..Len(EscapedToken(ch)) : EscapedToken(ch)[j] \in T
    BY <2>3, EscapedTokenCases DEF Stands, Escapes
  <2> QED BY <2>2, <2>4 DEF Texts
<1>4. pieces \in Seq(Seq(T))
  <2>1. DOMAIN pieces = 1..n /\ pieces = [i \in 1..n |-> pieces[i]]
    BY <1>1, <1>2
  <2>2. pieces \in [1..n -> Seq(T)]
    BY <1>3, <2>1
  <2> QED BY <2>1, <2>2
<1>5. FlattenSeq(pieces) \in Seq(T)
  BY <1>4, FlattenSeqLayout
<1>6. EscapeSimpleQuotedStringContents(str) \in Seq(T)
  BY <1>1, <1>5, Zenon DEF EscapeSimpleQuotedStringContents
<1>7. EscapeSimpleQuotedString(str) \in Seq(T)
  BY <1>6, Middle, Zenon DEF EscapeSimpleQuotedString
<1> QED BY <1>7

----------------------------------------------------------------------------
(* Parts *)

LEMMA PartitionFirst ==
  ASSUME NEW T, NEW a \in Seq(T), NEW b \in Seq(T), NEW ch \in T,
         \A i \in 1..Len(a) : a[i] # ch
  PROVE  PartitionString(a \o (<<ch>> \o b), ch) = [head |-> a, tail |-> b, ok |-> TRUE]
<1>1. PICK x \in Seq(T) : x = <<ch>> \o b
  BY Tuples, Concat
<1>2. PICK n \in Nat, l \in Nat : n = Len(a) /\ l = Len(b)
  OBVIOUS
<1>3. Len(x) = l + 1 /\ x[1] = ch /\ \A j \in 1..l : x[1 + j] = b[j]
  <2>1. PICK c \in Seq(T) : c = <<ch>> /\ Len(c) = 1 /\ c[1] = ch
    <3>1. <<ch>> \in Seq(T) /\ Len(<<ch>>) = 1 /\ <<ch>>[1] = ch
      OBVIOUS
    <3> QED BY <3>1
  <2>2. /\ Len(x) = 1 + l /\ \A j \in 1..1 : x[j] = c[j]
        /\ \A j \in 1..l : x[1 + j] = b[j]
    BY <1>1, <1>2, <2>1, Concat
  <2>3. 1 \in 1..1 /\ 1 + l = l + 1
    OBVIOUS
  <2> QED BY <2>1, <2>2, <2>3
<1>4. PICK s \in Seq(T) : s = a \o x
  BY Concat
<1>5. /\ Len(s) = n + (l + 1) /\ \A j \in 1..n : s[j] = a[j]
      /\ \A j \in 1..(l + 1) : s[n + j] = x[j]
  <2>1. /\ Len(s) = Len(a) + Len(x) /\ \A j \in 1..Len(a) : s[j] = a[j]
        /\ \A j \in 1..Len(x) : s[Len(a) + j] = x[j]
    BY <1>4, Concat
  <2> QED BY <1>2, <1>3, <2>1
<1>6. s[n + 1] = ch /\ \A j \in 1..l : s[n + 1 + j] = b[j]
  <2>1. s[n + 1] = x[1]
    <3>1. 1 \in 1..(l + 1)
      OBVIOUS
    <3> QED BY <1>5, <3>1
  <2>2. ASSUME NEW j \in 1..l
        PROVE  s[n + 1 + j] = b[j]
    <3>1. 1 + j \in 1..(l + 1) /\ n + (1 + j) = n + 1 + j
      OBVIOUS
    <3>2. s[n + (1 + j)] = x[1 + j]
      BY <1>5, <3>1
    <3> QED BY <1>3, <3>1, <3>2
  <2> QED BY <1>3, <2>1, <2>2
<1>7. PICK at : at = Positions(s, ch)
  OBVIOUS
<1>8. n + 1 \in at /\ \A i \in at : i \in Int /\ n + 1 <= i
  <2>1. DOMAIN s = 1..(n + (l + 1))
    BY <1>5
  <2>2. n + 1 \in at
    BY <1>6, <1>7, <2>1 DEF Positions
  <2>3. ASSUME NEW i \in at
        PROVE  i \in Int /\ n + 1 <= i
    <3>1. i \in 1..(n + (l + 1)) /\ s[i] = ch
      BY <1>7, <2>1 DEF Positions
    <3>2. i \in 1..n => s[i] # ch
      BY <1>2, <1>5
    <3> QED BY <3>1, <3>2
  <2> QED BY <2>2, <2>3
<1>9. PICK k : k = CHOOSE i \in at : \A j \in at : i <= j
  OBVIOUS
<1>10. k = n + 1
  <2>1. k \in at /\ \A j \in at : k <= j
    BY <1>8, <1>9
  <2>2. k \in Int /\ k <= n + 1 /\ n + 1 <= k
    BY <1>8, <2>1
  <2> QED BY <2>2
<1>11. PartitionString(s, ch) = PartitionAt(s, n + 1)
  BY <1>7, <1>8, <1>9, <1>10, Zenon DEF PartitionString
<1>12. n + 1 # 0 /\ (n + 1) - 1 = n /\ (n + 1) + 1 = n + 2
  OBVIOUS
<1>13. PartitionAt(s, n + 1) =
         [head |-> SubSeq(s, 1, n), tail |-> SubSeq(s, n + 2, Len(s)), ok |-> TRUE]
  BY <1>12 DEF PartitionAt
<1>14. SubSeq(s, 1, n) = a
  BY <1>2, <1>4, <1>5, SubSeqOfConcat1
<1>15. SubSeq(s, n + 2, Len(s)) = b
  <2>1. \A i \in (n + 2)..Len(s) : s[i] \in T
    BY <1>5
  <2>2. PICK d : d = SubSeq(s, n + 2, Len(s))
    OBVIOUS
  <2>3. /\ d \in Seq(T)
        /\ Len(d) = IF n + 2 <= Len(s) THEN Len(s) - (n + 2) + 1 ELSE 0
        /\ \A i \in 1..(Len(s) - (n + 2) + 1) : d[i] = s[n + 2 + i - 1]
    BY <1>5, <2>1, <2>2, SubSeqProperties
  <2>4. /\ Len(s) - (n + 2) + 1 = l /\ (~(n + 2 <= Len(s)) => l = 0)
        /\ \A i \in 1..l : n + 2 + i - 1 = n + 1 + i
    BY <1>5
  <2>5. Len(d) = l /\ \A i \in 1..l : d[i] = b[i]
    BY <1>6, <2>3, <2>4
  <2>6. d = b
    BY <1>2, <2>3, <2>5, SeqEqual
  <2> QED BY <2>2, <2>6
<1> QED BY <1>1, <1>4, <1>11, <1>13, <1>14, <1>15

LEMMA PartitionNone ==
  ASSUME NEW T, NEW str \in Seq(T), NEW ch, \A i \in 1..Len(str) : str[i] # ch
  PROVE  PartitionString(str, ch) = [head |-> str, tail |-> <<>>, ok |-> FALSE]
<1>1. Positions(str, ch) = {}
  BY DEF Positions
<1> QED BY <1>1 DEF PartitionString, PartitionAt

\* Two words joined.
LEMMA JoinTwo ==
  ASSUME NEW T, NEW a \in Seq(T), NEW b \in Seq(T), NEW ch \in T
  PROVE  Join(<<a>> \o <<b>>, ch) = a \o (<<ch>> \o b)
<1>1. PICK parts : parts = <<a>> \o <<b>>
  OBVIOUS
<1>2. parts = <<a, b>>
  BY <1>1, TwoTuples
<1>3. PICK x \in Seq(T) : x = <<ch>> \o b
  BY Tuples, Concat
<1>4. PICK pieces :
        pieces = [i \in DOMAIN parts |-> (IF i = 1 THEN <<>> ELSE <<ch>>) \o parts[i]]
  OBVIOUS
<1>5. pieces = <<a, x>>
  <2>1. DOMAIN parts = 1..2 /\ parts[1] = a /\ parts[2] = b
    BY <1>2
  <2>2. 2 # 1 /\ \A i \in 1..2 : i = 1 \/ i = 2
    OBVIOUS
  <2>3. (IF 1 = 1 THEN <<>> ELSE <<ch>>) \o parts[1] = a
    BY <2>1, EmptyConcat, Zenon
  <2>4. (IF 2 = 1 THEN <<>> ELSE <<ch>>) \o parts[2] = x
    BY <1>3, <2>1, <2>2, Zenon
  <2>5. \A i \in 1..2 :
          (IF i = 1 THEN <<>> ELSE <<ch>>) \o parts[i] = IF i = 1 THEN a ELSE x
    BY <2>2, <2>3, <2>4, Zenon
  <2>6. pieces = [i \in 1..2 |-> IF i = 1 THEN a ELSE x]
    BY <1>4, <2>1, <2>5
  <2> QED BY <2>6
<1>6. FlattenSeq(pieces) = a \o x
  BY <1>5, FlattenSeqOfTwo
<1> QED BY <1>1, <1>3, <1>4, <1>6, Zenon DEF Join

----------------------------------------------------------------------------
(* Split *)

\* What Split does at a token, given the parts of the text behind it.
SplitStep(x, ch, parts) ==
  IF x = ch THEN << <<>> >> \o parts
  ELSE << <<x>> \o Head(parts) >> \o Tail(parts)

\* The parts of the text from the m-th token on, from each later one on.
SplitsFrom(str, ch, n, m, f) ==
  f = [i \in m..(n + 1) |->
         IF i > n THEN << <<>> >> ELSE SplitStep(str[i], ch, f[i + 1])]

LEMMA SplitsExist ==
  ASSUME NEW str, NEW ch, NEW n \in Nat
  PROVE  \E f : SplitsFrom(str, ch, n, 1, f)
<1>1. PICK S : S = {k \in Nat : k <= n => \E f : SplitsFrom(str, ch, n, n + 1 - k, f)}
  OBVIOUS
<1>2. 0 \in S
  <2>1. PICK f : f = [i \in (n + 1)..(n + 1) |-> << <<>> >>]
    OBVIOUS
  <2>2. f = [i \in (n + 1)..(n + 1) |->
               IF i > n THEN << <<>> >> ELSE SplitStep(str[i], ch, f[i + 1])]
    BY <2>1
  <2>3. SplitsFrom(str, ch, n, n + 1 - 0, f)
    BY <2>2, n + 1 - 0 = n + 1 DEF SplitsFrom
  <2> QED BY <1>1, <2>3
<1>3. ASSUME NEW k \in Nat, k \in S
      PROVE  k + 1 \in S
  <2> SUFFICES ASSUME k + 1 <= n
               PROVE  \E f : SplitsFrom(str, ch, n, n + 1 - (k + 1), f)
    BY <1>1
  <2>1. PICK m \in Nat \ {0} : m = n - k /\ n + 1 - (k + 1) = m /\ n + 1 - k = m + 1 /\ m <= n
    OBVIOUS
  <2>2. PICK f : SplitsFrom(str, ch, n, m + 1, f)
    BY <1>1, <1>3, <2>1
  <2>3. PICK g : g = [i \in m..(n + 1) |->
                        IF i = m THEN SplitStep(str[m], ch, f[m + 1]) ELSE f[i]]
    OBVIOUS
  <2>4. ASSUME NEW i \in m..(n + 1)
        PROVE  g[i] = IF i > n THEN << <<>> >> ELSE SplitStep(str[i], ch, g[i + 1])
    <3>1. CASE i = m
      <4>1. m + 1 \in m..(n + 1) /\ m + 1 # m /\ ~(i > n)
        BY <2>1, <3>1
      <4>2. g[m + 1] = f[m + 1] /\ g[i] = SplitStep(str[m], ch, f[m + 1])
        BY <2>3, <3>1, <4>1
      <4> QED BY <3>1, <4>1, <4>2
    <3>2. CASE i # m
      <4>1. i \in (m + 1)..(n + 1) /\ (~(i > n) => i + 1 \in m..(n + 1) /\ i + 1 # m)
        BY <3>2
      <4>2. f[i] = IF i > n THEN << <<>> >> ELSE SplitStep(str[i], ch, f[i + 1])
        BY <2>2, <4>1 DEF SplitsFrom
      <4>3. g[i] = f[i] /\ (~(i > n) => g[i + 1] = f[i + 1])
        BY <2>3, <3>2, <4>1
      <4> QED BY <4>2, <4>3
    <3> QED BY <3>1, <3>2
  <2>5. g = [i \in m..(n + 1) |->
               IF i > n THEN << <<>> >> ELSE SplitStep(str[i], ch, g[i + 1])]
    BY <2>3, <2>4
  <2>6. SplitsFrom(str, ch, n, m, g)
    BY <2>5 DEF SplitsFrom
  <2> QED BY <2>1, <2>6
<1>4. \A k \in Nat : k \in S => k + 1 \in S
  BY <1>3
<1>5. n \in S
  BY <1>2, <1>4, Induction
<1> QED BY <1>1, <1>5, n + 1 - n = 1

\* What Split goes through, from the end of the text on.
SplitTable(str, ch, n, f) ==
  /\ Split(str, ch) = f[1] /\ f[n + 1] = << <<>> >>
  /\ \A i \in 1..n : f[i] = SplitStep(str[i], ch, f[i + 1])

LEMMA SplitLoop ==
  ASSUME NEW str, NEW n \in Nat, n = Len(str), NEW ch
  PROVE  \E f : SplitTable(str, ch, n, f)
<1>2. \E f : SplitsFrom(str, ch, n, 1, f)
  BY SplitsExist
<1>3. PICK f : f = CHOOSE g : SplitsFrom(str, ch, n, 1, g)
  OBVIOUS
<1>4. SplitsFrom(str, ch, n, 1, f)
  BY <1>2, <1>3, Zenon
<1>5. Split(str, ch) = f[1]
  BY <1>3, Zenon DEF Split, SplitsFrom, SplitStep
<1>6. f[n + 1] = << <<>> >>
  BY <1>4, n + 1 \in 1..(n + 1), n + 1 > n DEF SplitsFrom
<1>7. ASSUME NEW i \in 1..n
      PROVE  f[i] = SplitStep(str[i], ch, f[i + 1])
  BY <1>4, i \in 1..(n + 1), ~(i > n) DEF SplitsFrom
<1> QED BY <1>5, <1>6, <1>7 DEF SplitTable

\* What a step makes of the parts: one more of them, or a longer first one.
Stepped(T, x, ch, parts, n, q) ==
  /\ q \in Seq(Seq(T))
  /\ x = ch => /\ Len(q) = n + 1 /\ q[1] = <<>>
               /\ \A k \in 1..n : q[1 + k] = parts[k]
  /\ x # ch => /\ Len(q) = n /\ q[1] = <<x>> \o parts[1]
               /\ \A k \in 2..n : q[k] = parts[k]

LEMMA SplitStepCases ==
  ASSUME NEW T, NEW x \in T, NEW ch, NEW parts \in Seq(Seq(T)),
         NEW n \in Nat \ {0}, Len(parts) = n
  PROVE  Stepped(T, x, ch, parts, n, SplitStep(x, ch, parts))
<1>1. n = Len(parts)
  OBVIOUS
<1>2. CASE x = ch
  <2>1. PICK e \in Seq(T) : e = <<>>
    BY EmptySequence
  <2>2. PICK q : q = <<e>> \o parts
    OBVIOUS
  <2>3. Prepended(Seq(T), e, parts, q)
    BY <2>2, Prepend
  <2>5. /\ q \in Seq(Seq(T)) /\ Len(q) = n + 1 /\ q[1] = e
        /\ \A k \in 1..n : q[1 + k] = parts[k]
    BY <2>3 DEF Prepended
  <2>6. SplitStep(x, ch, parts) = q
    BY <1>2, <2>1, <2>2 DEF SplitStep
  <2> QED BY <1>2, <2>1, <2>5, <2>6, Zenon DEF Stepped
<1>3. CASE x # ch
  <2>1. PICK h \in Seq(T) : h = Head(parts) /\ h = parts[1]
    BY <1>1, HeadAndTail
  <2>2. PICK u \in Seq(T) : u = <<x>>
    BY Tuples
  <2>3. PICK w \in Seq(T) : w = u \o h
    BY Concat
  <2>4. PICK a \in Seq(Seq(T)) : a = <<w>> /\ Len(a) = 1 /\ a[1] = w
    BY OneTuple
  <2>5. PICK t : /\ t = Tail(parts) /\ t \in Seq(Seq(T)) /\ Len(t) = n - 1
                 /\ \A k \in 1..(n - 1) : t[k] = parts[k + 1]
    <3>1. /\ Tail(parts) \in Seq(Seq(T)) /\ Len(Tail(parts)) = n - 1
          /\ \A k \in 1..(n - 1) : Tail(parts)[k] = parts[k + 1]
      BY <1>1, HeadAndTail
    <3> QED BY <3>1, Zenon
  <2>6. PICK q \in Seq(Seq(T)) : q = a \o t
    BY <2>5, Concat
  <2>7. /\ Len(q) = Len(a) + Len(t) /\ \A j \in 1..Len(a) : q[j] = a[j]
        /\ \A j \in 1..Len(t) : q[Len(a) + j] = t[j]
    BY <2>5, <2>6, Concat
  <2>8. Len(q) = n /\ q[1] = w
    <3>1. 1 \in 1..1 /\ 1 + (n - 1) = n
      OBVIOUS
    <3> QED BY <2>4, <2>5, <2>7, <3>1
  <2>9. ASSUME NEW k \in 2..n
        PROVE  q[k] = parts[k]
    <3>1. PICK j \in 1..(n - 1) : j = k - 1 /\ 1 + j = k /\ j + 1 = k
      OBVIOUS
    <3>2. q[1 + j] = t[j]
      BY <2>4, <2>5, <2>7
    <3> QED BY <2>5, <3>1, <3>2
  <2>10. SplitStep(x, ch, parts) = q
    BY <1>3, <2>1, <2>2, <2>3, <2>4, <2>5, <2>6, Zenon DEF SplitStep
  <2> QED BY <1>3, <2>1, <2>2, <2>3, <2>8, <2>9, <2>10, Zenon DEF Stepped
<1> QED BY <1>2, <1>3

\* The i-th of the words begins in str behind its s[i]-th token; there is a ch
\* between two words.
Joined(words, ch, str, s) ==
  /\ s \in [1..Len(words) -> Nat] /\ s[1] = 0
  /\ Len(str) = s[Len(words)] + Len(words[Len(words)])
  /\ \A i \in 1..Len(words) : \A j \in 1..Len(words[i]) : str[s[i] + j] = words[i][j]
  /\ \A i \in 1..(Len(words) - 1) :
       s[i + 1] = s[i] + Len(words[i]) + 1 /\ str[s[i + 1]] = ch

LEMMA JoinLayout ==
  ASSUME NEW T, NEW words \in Seq(Seq(T)), Len(words) >= 1, NEW ch \in T
  PROVE  /\ Join(words, ch) \in Seq(T)
         /\ \E s : Joined(words, ch, Join(words, ch), s)
<1>1. PICK n \in Nat \ {0} : n = Len(words) /\ DOMAIN words = 1..n
  OBVIOUS
<1>2. PICK pieces :
        pieces = [i \in DOMAIN words |-> (IF i = 1 THEN <<>> ELSE <<ch>>) \o words[i]]
  OBVIOUS
<1>3. ASSUME NEW i \in 1..n
      PROVE  /\ pieces[i] \in Seq(T) /\ Len(words[i]) \in Nat
             /\ i = 1 => pieces[i] = words[i]
             /\ i # 1 => /\ Len(pieces[i]) = Len(words[i]) + 1 /\ pieces[i][1] = ch
                         /\ \A j \in 1..Len(words[i]) : pieces[i][1 + j] = words[i][j]
  <2>1. PICK w \in Seq(T) : w = words[i]
    BY <1>1
  <2>2. CASE i = 1
    <3>1. pieces[i] = <<>> \o w
      BY <1>1, <1>2, <2>1, <2>2
    <3> QED BY <2>1, <2>2, <3>1, EmptyConcat
  <2>3. CASE i # 1
    <3>1. PICK a \in Seq(T) : a = <<ch>> /\ Len(a) = 1 /\ a[1] = ch
      BY OneTuple
    <3>2. pieces[i] = a \o w
      BY <1>1, <1>2, <2>1, <2>3, <3>1
    <3>3. PICK p \in Seq(T) : p = a \o w
      BY Concat
    <3>4. /\ Len(p) = Len(a) + Len(w) /\ \A j \in 1..Len(a) : p[j] = a[j]
          /\ \A j \in 1..Len(w) : p[Len(a) + j] = w[j]
      BY <3>3, Concat
    <3>5. PICK m \in Nat : m = Len(w)
      OBVIOUS
    <3>6. 1 \in 1..1 /\ 1 + m = m + 1
      OBVIOUS
    <3>7. Len(p) = m + 1 /\ p[1] = ch /\ \A j \in 1..m : p[1 + j] = w[j]
      BY <3>1, <3>4, <3>5, <3>6
    <3>8. pieces[i] = p /\ words[i] = w
      BY <2>1, <3>2, <3>3
    <3> QED BY <2>3, <3>5, <3>7, <3>8
  <2> QED BY <2>2, <2>3
<1>4. pieces \in Seq(Seq(T)) /\ Len(pieces) = n
  <2>1. pieces = [i \in 1..n |-> (IF i = 1 THEN <<>> ELSE <<ch>>) \o words[i]]
    BY <1>1, <1>2
  <2>2. \A i \in 1..n : pieces[i] \in Seq(T)
    BY <1>3
  <2>3. pieces \in [1..n -> Seq(T)]
    BY <2>1, <2>2
  <2> QED BY <2>3
<1>5. PICK str \in Seq(T) : str = FlattenSeq(pieces) /\ str = Join(words, ch)
  BY <1>2, <1>4, FlattenSeqLayout DEF Join
<1>6. PICK off : Layout(pieces, str, off)
  BY <1>4, <1>5, FlattenSeqLayout
<1>7. /\ off \in [1..(n + 1) -> Nat] /\ off[1] = 0 /\ Len(str) = off[n + 1]
      /\ \A i \in 1..n : /\ off[i + 1] = off[i] + Len(pieces[i])
                         /\ \A j \in 1..Len(pieces[i]) : str[off[i] + j] = pieces[i][j]
  BY <1>4, <1>6 DEF Layout
<1>8. PICK s : s = [i \in 1..n |-> IF i = 1 THEN 0 ELSE off[i] + 1]
  OBVIOUS
<1>9. \A i \in 1..n : i \in 1..(n + 1) /\ off[i] \in Nat
  BY <1>7
<1>10. s \in [1..n -> Nat] /\ s[1] = 0
  BY <1>8, <1>9
<1>11. ASSUME NEW i \in 1..n
       PROVE  /\ off[i + 1] = s[i] + Len(words[i])
              /\ \A j \in 1..Len(words[i]) : str[s[i] + j] = words[i][j]
              /\ i # 1 => str[s[i]] = ch
  <2>1. PICK l \in Nat : l = Len(words[i])
    BY <1>3
  <2>2. CASE i = 1
    <3>1. pieces[i] = words[i] /\ s[i] = 0 /\ off[i] = 0
      BY <1>3, <1>7, <1>8, <2>2
    <3>2. off[i + 1] = 0 + l
      BY <1>7, <2>1, <3>1
    <3>3. \A j \in 1..l : str[0 + j] = words[i][j]
      BY <1>7, <2>1, <3>1
    <3> QED BY <2>1, <2>2, <3>1, <3>2, <3>3
  <2>3. CASE i # 1
    <3>1. PICK o \in Nat : o = off[i] /\ s[i] = o + 1
      BY <1>8, <1>9, <2>3
    <3>2. /\ Len(pieces[i]) = l + 1 /\ pieces[i][1] = ch
          /\ \A j \in 1..l : pieces[i][1 + j] = words[i][j]
      BY <1>3, <2>1, <2>3
    <3>3. off[i + 1] = o + (l + 1) /\ \A j \in 1..(l + 1) : str[o + j] = pieces[i][j]
      BY <1>7, <3>1, <3>2
    <3>4. \A j \in 1..l : 1 + j \in 1..(l + 1) /\ o + (1 + j) = (o + 1) + j
      OBVIOUS
    <3>5. \A j \in 1..l : str[(o + 1) + j] = words[i][j]
      BY <3>2, <3>3, <3>4, Zenon
    <3>6. str[o + 1] = ch
      BY <3>2, <3>3, 1 \in 1..(l + 1)
    <3>7. o + (l + 1) = (o + 1) + l
      OBVIOUS
    <3> QED BY <2>1, <2>3, <3>1, <3>3, <3>5, <3>6, <3>7
  <2> QED BY <2>2, <2>3
<1>12. ASSUME NEW i \in 1..(n - 1)
       PROVE  s[i + 1] = s[i] + Len(words[i]) + 1 /\ str[s[i + 1]] = ch
  <2>1. i \in 1..n /\ i + 1 \in 1..n /\ i + 1 # 1
    OBVIOUS
  <2>2. s[i + 1] = off[i + 1] + 1
    BY <1>8, <2>1
  <2> QED BY <1>11, <2>1, <2>2
<1>13. Len(str) = s[n] + Len(words[n])
  BY <1>7, <1>11, n \in 1..n
<1>14. Joined(words, ch, str, s)
  BY <1>1, <1>10, <1>11, <1>12, <1>13 DEF Joined
<1> QED BY <1>5, <1>14

\* Parts of which the first is the last m tokens of w, the others those of r.
WordRest(T, parts, w, m, r) ==
  /\ parts \in Seq(Seq(T)) /\ Len(parts) = Len(r) /\ Len(parts[1]) = m
  /\ \A k \in 1..m : parts[1][k] = w[Len(w) - m + k]
  /\ \A k \in 2..Len(r) : parts[k] = r[k]

\* Splitting goes back over a word that has no ch, and puts it first.
WordAt(T, ch, w, r, str, p, f) ==
  /\ w \in Seq(T) /\ \A k \in 1..Len(w) : w[k] # ch
  /\ r \in Seq(Seq(T)) /\ Len(r) >= 1 /\ Len(r[1]) = 0
  /\ p \in Nat /\ \A k \in 1..Len(w) : str[p + k] = w[k]
  /\ f[p + Len(w) + 1] = r
  /\ \A k \in 1..Len(w) : f[p + k] = SplitStep(str[p + k], ch, f[p + k + 1])

LEMMA SplitWord ==
  ASSUME NEW T, NEW ch, NEW w, NEW r, NEW str, NEW p, NEW f, WordAt(T, ch, w, r, str, p, f)
  PROVE  WordRest(T, f[p + 1], w, Len(w), r)
<1>a. /\ w \in Seq(T) /\ r \in Seq(Seq(T)) /\ Len(r) >= 1 /\ Len(r[1]) = 0 /\ p \in Nat
      /\ f[p + Len(w) + 1] = r
  BY DEF WordAt
<1>b. \A k \in 1..Len(w) : /\ w[k] # ch /\ str[p + k] = w[k]
                           /\ f[p + k] = SplitStep(str[p + k], ch, f[p + k + 1])
  BY DEF WordAt
<1>1. PICK l \in Nat, n \in Nat \ {0} : l = Len(w) /\ n = Len(r)
  BY <1>a
<1>2. PICK S : S = {m \in Nat : m <= l => WordRest(T, f[p + l + 1 - m], w, m, r)}
  OBVIOUS
<1>3. 0 \in S
  <2>1. f[p + l + 1 - 0] = r
    BY <1>1, <1>a, p + l + 1 - 0 = p + l + 1
  <2>2. WordRest(T, r, w, 0, r)
    BY <1>a DEF WordRest
  <2> QED BY <1>2, <2>1, <2>2
<1>4. ASSUME NEW m \in Nat, m \in S
      PROVE  m + 1 \in S
  <2> SUFFICES ASSUME m + 1 <= l
               PROVE  WordRest(T, f[p + l + 1 - (m + 1)], w, m + 1, r)
    BY <1>2
  <2>1. PICK k \in 1..l : k = l - m
    OBVIOUS
  <2>a. p + l + 1 - (m + 1) = p + k /\ p + l + 1 - m = p + k + 1
    BY <1>a, <2>1
  <2>2. WordRest(T, f[p + k + 1], w, m, r)
    <3>1. m <= l
      OBVIOUS
    <3>2. WordRest(T, f[p + l + 1 - m], w, m, r)
      BY <1>2, <1>4, <3>1
    <3> QED BY <2>a, <3>2
  <2>3. PICK b \in Seq(Seq(T)) : b = f[p + k + 1]
    BY <2>2 DEF WordRest
  <2>4. /\ Len(b) = n /\ Len(b) >= 1 /\ Len(b[1]) = m
        /\ \A i \in 1..m : b[1][i] = w[l - m + i]
        /\ \A i \in 2..n : b[i] = r[i]
    BY <1>1, <2>2, <2>3 DEF WordRest
  <2>5. PICK x \in T : x = w[k] /\ x # ch
    BY <1>1, <1>a, <1>b
  <2>6. f[p + k] = SplitStep(x, ch, b)
    BY <1>1, <1>b, <2>3, <2>5
  <2>7. PICK a : /\ a = f[p + k] /\ a \in Seq(Seq(T)) /\ Len(a) = n
                 /\ a[1] = <<x>> \o b[1] /\ \A i \in 2..n : a[i] = b[i]
    <3>1. Stepped(T, x, ch, b, n, SplitStep(x, ch, b))
      BY <2>4, SplitStepCases
    <3> QED BY <2>5, <2>6, <3>1 DEF Stepped
  <2>8. PICK h \in Seq(T) : h = b[1]
    BY <2>4
  <2>9. PICK u \in Seq(T) : u = <<x>> /\ Len(u) = 1 /\ u[1] = x
    BY OneTuple
  <2>10. PICK v \in Seq(T) : v = u \o h
    BY Concat
  <2>11. /\ Len(v) = Len(u) + Len(h) /\ \A j \in 1..Len(u) : v[j] = u[j]
         /\ \A j \in 1..Len(h) : v[Len(u) + j] = h[j]
    BY <2>10, Concat
  <2>12. Len(v) = m + 1 /\ v[1] = w[k] /\ \A j \in 1..m : v[1 + j] = w[k + j]
    <3>1. 1 \in 1..1 /\ 1 + m = m + 1
      OBVIOUS
    <3>2. Len(v) = m + 1 /\ v[1] = w[k] /\ \A j \in 1..m : v[1 + j] = h[j]
      BY <2>4, <2>5, <2>8, <2>9, <2>11, <3>1
    <3>3. \A j \in 1..m : h[j] = w[l - m + j]
      BY <2>4, <2>8
    <3> QED BY <2>1, <3>2, <3>3
  <2>13. ASSUME NEW i \in 1..(m + 1)
         PROVE  v[i] = w[l - (m + 1) + i]
    <3>1. CASE i = 1
      <4>1. l - (m + 1) + 1 = k
        BY <2>1
      <4> QED BY <2>12, <3>1, <4>1
    <3>2. CASE i # 1
      <4>1. i - 1 \in 1..m /\ 1 + (i - 1) = i /\ k + (i - 1) = l - (m + 1) + i
        BY <2>1, <3>2
      <4> QED BY <2>12, <4>1
    <3> QED BY <3>1, <3>2
  <2>14. a[1] = v /\ \A i \in 2..n : a[i] = r[i]
    BY <2>4, <2>7, <2>8, <2>9, <2>10
  <2>15. WordRest(T, a, w, m + 1, r)
    BY <1>1, <2>7, <2>12, <2>13, <2>14 DEF WordRest
  <2> QED BY <2>a, <2>7, <2>15
<1>5. \A m \in Nat : m \in S => m + 1 \in S
  BY <1>4
<1>6. l \in S
  BY <1>3, <1>5, Induction
<1>7. p + l + 1 - l = p + 1 /\ l <= l
  BY <1>a
<1> QED BY <1>1, <1>2, <1>6, <1>7

\* The parts of the text from the i-th word on are the words from the i-th on.
SplitAt(T, words, s, l, f, i) ==
  /\ s[i] + Len(words[i]) <= l
  /\ f[s[i] + 1] \in Seq(Seq(T)) /\ Len(f[s[i] + 1]) = Len(words) - i + 1
  /\ \A k \in 1..(Len(words) - i + 1) : f[s[i] + 1][k] = words[i + k - 1]

\* Splitting joined words gives the words.
LEMMA SplitJoined ==
  ASSUME NEW T, NEW words \in Seq(Seq(T)), NEW ch \in T, NEW str \in Seq(T), NEW s,
         Len(words) >= 1, Joined(words, ch, str, s),
         \A i \in 1..Len(words) : \A j \in 1..Len(words[i]) : words[i][j] # ch
  PROVE  Split(str, ch) = words
<1>1. PICK n \in Nat \ {0}, l \in Nat : n = Len(words) /\ l = Len(str)
  OBVIOUS
<1>2. PICK f : /\ Split(str, ch) = f[1] /\ f[l + 1] = << <<>> >>
               /\ \A i \in 1..l : f[i] = SplitStep(str[i], ch, f[i + 1])
  <2>1. PICK f : SplitTable(str, ch, l, f)
    BY <1>1, SplitLoop
  <2> QED BY <2>1 DEF SplitTable
<1>3. \A i \in 1..n : words[i] \in Seq(T) /\ Len(words[i]) \in Nat /\ s[i] \in Nat
  <2>1. s \in [1..n -> Nat]
    BY <1>1 DEF Joined
  <2>2. PICK U : U = Seq(T)
    OBVIOUS
  <2>3. words \in Seq(U)
    BY <2>2
  <2>4. \A i \in 1..n : words[i] \in U
    BY <1>1, <2>3, Element
  <2>5. \A w \in U : Len(w) \in Nat
    BY <2>2
  <2> QED BY <2>1, <2>2, <2>4, <2>5
<1>4. \A i \in 1..(n - 1) : s[i + 1] = s[i] + Len(words[i]) + 1 /\ str[s[i + 1]] = ch
  BY <1>1 DEF Joined
<1>5. ASSUME NEW i \in 1..n, NEW r \in Seq(Seq(T)), Len(r) = n - i + 1, Len(r[1]) = 0,
             s[i] + Len(words[i]) <= l, f[s[i] + Len(words[i]) + 1] = r,
             \A k \in 2..(n - i + 1) : r[k] = words[i + k - 1]
      PROVE  SplitAt(T, words, s, l, f, i)
  <2>1. PICK w \in Seq(T), p \in Nat, m \in Nat : w = words[i] /\ p = s[i] /\ m = Len(w)
    BY <1>3
  <2>2. \A k \in 1..m : w[k] # ch /\ str[p + k] = w[k]
    <3>1. \A k \in 1..m : str[s[i] + k] = words[i][k]
      BY <1>1, <2>1 DEF Joined
    <3> QED BY <1>1, <2>1, <3>1
  <2>3. \A k \in 1..m : f[p + k] = SplitStep(str[p + k], ch, f[p + k + 1])
    <3>1. p + m <= l
      BY <1>5, <2>1
    <3>2. \A k \in 1..m : p + k \in 1..l
      BY <3>1
    <3> QED BY <1>2, <3>2
  <2>4. WordRest(T, f[p + 1], w, m, r)
    <3>1. Len(r) >= 1 /\ Len(r[1]) = 0
      BY <1>5
    <3>2. f[p + m + 1] = r
      BY <1>5, <2>1
    <3>3. WordAt(T, ch, w, r, str, p, f)
      BY <2>1, <2>2, <2>3, <3>1, <3>2 DEF WordAt
    <3> QED BY <2>1, <3>3, SplitWord
  <2>5. PICK a \in Seq(Seq(T)) : a = f[p + 1]
    BY <2>4 DEF WordRest
  <2>6. /\ Len(a) = n - i + 1 /\ Len(a[1]) = m /\ \A k \in 1..m : a[1][k] = w[m - m + k]
        /\ \A k \in 2..(n - i + 1) : a[k] = words[i + k - 1]
    BY <1>5, <2>1, <2>4, <2>5 DEF WordRest
  <2>7. a[1] = w
    <3>1. a[1] \in Seq(T)
      BY <2>6
    <3>2. PICK v \in Seq(T) : v = a[1]
      BY <3>1
    <3>3. Len(v) = Len(w) /\ \A k \in 1..Len(v) : v[k] = w[k]
      BY <2>1, <2>6, <3>2
    <3>4. v = w
      BY <3>3, SeqEqual
    <3> QED BY <3>2, <3>4
  <2>8. \A k \in 1..(n - i + 1) : a[k] = words[i + k - 1]
    <3>1. \A k \in 1..(n - i + 1) : k = 1 \/ k \in 2..(n - i + 1)
      OBVIOUS
    <3>2. i + 1 - 1 = i
      OBVIOUS
    <3> QED BY <2>1, <2>6, <2>7, <3>1, <3>2
  <2> QED BY <1>1, <1>5, <2>1, <2>5, <2>6, <2>8 DEF SplitAt
<1>6. PICK S : S = {m \in Nat : m <= n - 1 => SplitAt(T, words, s, l, f, n - m)}
  OBVIOUS
<1>7. PICK e \in Seq(T) : e = <<>> /\ Len(e) = 0
  BY EmptySequence
<1>8. 0 \in S
  <2>1. PICK r \in Seq(Seq(T)) : r = <<e>> /\ Len(r) = 1 /\ r[1] = e
    BY OneTuple
  <2>2. Len(str) = s[n] + Len(words[n])
    BY <1>1 DEF Joined
  <2>3. f[s[n] + Len(words[n]) + 1] = r
    BY <1>1, <1>2, <1>7, <2>1, <2>2
  <2>4. SplitAt(T, words, s, l, f, n)
    <3>1. n \in 1..n /\ n - n + 1 = 1 /\ 2..1 = {} /\ l <= l
      OBVIOUS
    <3>2. Len(r) = n - n + 1 /\ Len(r[1]) = 0 /\ s[n] + Len(words[n]) <= l
      BY <1>1, <1>7, <2>1, <2>2, <3>1
    <3>3. \A k \in 2..(n - n + 1) : r[k] = words[n + k - 1]
      BY <3>1
    <3> QED BY <1>5, <2>3, <3>1, <3>2, <3>3
  <2>5. n - 0 = n
    OBVIOUS
  <2> QED BY <1>6, <2>4, <2>5
<1>9. ASSUME NEW m \in Nat, m \in S
      PROVE  m + 1 \in S
  <2> SUFFICES ASSUME m + 1 <= n - 1
               PROVE  SplitAt(T, words, s, l, f, n - (m + 1))
    BY <1>6
  <2>1. PICK i \in 1..(n - 1) : i = n - (m + 1) /\ n - m = i + 1 /\ i + 1 \in 1..n /\ i \in 1..n
    OBVIOUS
  <2>2. SplitAt(T, words, s, l, f, i + 1)
    BY <1>6, <1>9, <2>1
  <2>3. PICK p \in Nat, k \in Nat : p = s[i] /\ k = Len(words[i])
    BY <1>3, <2>1
  <2>4. s[i + 1] = p + k + 1 /\ str[p + k + 1] = ch
    BY <1>4, <2>1, <2>3
  <2>5. PICK b \in Seq(Seq(T)) : b = f[p + k + 1 + 1]
    BY <2>2, <2>4 DEF SplitAt
  <2>6. /\ p + k + 1 + Len(words[i + 1]) <= l /\ Len(b) = n - (i + 1) + 1
        /\ \A j \in 1..(n - (i + 1) + 1) : b[j] = words[i + 1 + j - 1]
    BY <1>1, <2>2, <2>4, <2>5 DEF SplitAt
  <2>7. p + k + 1 \in 1..l
    <3>1. PICK q \in Nat : q = Len(words[i + 1])
      BY <1>3, <2>1
    <3>2. p + k + 1 + q <= l
      BY <2>6, <3>1
    <3> QED BY <3>2
  <2>8. f[p + k + 1] = SplitStep(ch, ch, b)
    BY <1>2, <2>4, <2>5, <2>7
  <2>9. PICK r : /\ r = f[p + k + 1] /\ r \in Seq(Seq(T)) /\ Len(r) = Len(b) + 1
                 /\ r[1] = <<>> /\ \A j \in 1..Len(b) : r[1 + j] = b[j]
    <3>1. PICK q \in Nat \ {0} : q = Len(b)
      BY <2>1, <2>6
    <3>2. Stepped(T, ch, ch, b, q, SplitStep(ch, ch, b))
      BY <3>1, SplitStepCases
    <3> QED BY <2>8, <3>1, <3>2 DEF Stepped
  <2>10. Len(r) = n - i + 1 /\ Len(r[1]) = 0
    BY <1>7, <2>6, <2>9
  <2>11. \A j \in 2..(n - i + 1) : r[j] = words[i + j - 1]
    <3> SUFFICES ASSUME NEW j \in 2..(n - i + 1)
                 PROVE  r[j] = words[i + j - 1]
      OBVIOUS
    <3>1. PICK h \in 1..(n - (i + 1) + 1) : h = j - 1
      OBVIOUS
    <3>2. 1 + h = j /\ i + 1 + h - 1 = i + j - 1
      BY <3>1
    <3>3. h \in 1..Len(b)
      BY <2>6
    <3>4. r[1 + h] = b[h] /\ b[h] = words[i + 1 + h - 1]
      BY <2>6, <2>9, <3>3
    <3> QED BY <3>2, <3>4
  <2>12. s[i] + Len(words[i]) <= l
    BY <2>3, <2>7
  <2>13. SplitAt(T, words, s, l, f, i)
    <3>1. f[s[i] + Len(words[i]) + 1] = r
      BY <2>3, <2>9
    <3> QED BY <1>5, <2>1, <2>9, <2>10, <2>11, <2>12, <3>1
  <2> QED BY <2>1, <2>13
<1>10. SplitAt(T, words, s, l, f, 1)
  <2>1. \A m \in Nat : m \in S => m + 1 \in S
    BY <1>9
  <2>2. n - 1 \in S
    <3>1. Nat \subseteq S
      BY <1>8, <2>1, Induction
    <3> QED BY <3>1
  <2>3. n - (n - 1) = 1 /\ n - 1 <= n - 1 /\ n - 1 \in Nat
    OBVIOUS
  <2> QED BY <1>6, <2>2, <2>3
<1>11. PICK a \in Seq(Seq(T)) : a = f[1] /\ Len(a) = n /\ \A k \in 1..n : a[k] = words[k]
  <2>1. s[1] = 0 /\ 0 + 1 = 1 /\ n - 1 + 1 = n /\ \A k \in 1..n : 1 + k - 1 = k
    BY DEF Joined
  <2> QED BY <1>1, <1>10, <2>1 DEF SplitAt
<1> QED BY <1>1, <1>2, <1>11, SeqEqual

----------------------------------------------------------------------------
(* A line of words *)

\* Words of these lengths begin behind these tokens, with one between them.
Offsets(n, len, s) ==
  /\ len \in [1..n -> Nat] /\ s \in [1..n -> Nat]
  /\ \A i \in 1..(n - 1) : s[i + 1] = s[i] + len[i] + 1

LEMMA OffsetsGrow ==
  ASSUME NEW n \in Nat, NEW len, NEW s, Offsets(n, len, s), NEW k \in 1..n
  PROVE  \A i \in k..n : s[k] <= s[i] /\ s[k] + len[k] <= s[i] + len[i]
<1>1. /\ \A i \in 1..n : s[i] \in Nat /\ len[i] \in Nat
      /\ \A i \in 1..(n - 1) : s[i + 1] = s[i] + len[i] + 1
  BY DEF Offsets
<1>2. PICK S : S = {m \in Nat : k + m <= n => /\ s[k] <= s[k + m]
                                              /\ s[k] + len[k] <= s[k + m] + len[k + m]}
  OBVIOUS
<1>3. 0 \in S
  <2>1. k + 0 = k
    OBVIOUS
  <2>2. s[k] <= s[k] /\ s[k] + len[k] <= s[k] + len[k]
    BY <1>1
  <2> QED BY <1>2, <2>1, <2>2
<1>4. ASSUME NEW m \in Nat, m \in S
      PROVE  m + 1 \in S
  <2>1. m + 1 \in Nat
    OBVIOUS
  <2>2. ASSUME k + (m + 1) <= n
        PROVE  /\ s[k] <= s[k + (m + 1)]
               /\ s[k] + len[k] <= s[k + (m + 1)] + len[k + (m + 1)]
    <3>1. PICK p \in 1..(n - 1) : p = k + m /\ p + 1 = k + (m + 1) /\ k + m <= n
      BY <2>2
    <3>2. s[k] <= s[p] /\ s[k] + len[k] <= s[p] + len[p]
      BY <1>2, <1>4, <3>1
    <3>3. s[p + 1] = s[p] + len[p] + 1
      BY <1>1
    <3>4. p + 1 \in 1..n /\ p \in 1..n
      OBVIOUS
    <3>5. PICK a \in Nat, b \in Nat, c \in Nat, d \in Nat, e \in Nat, f \in Nat :
            /\ a = s[k] /\ b = len[k] /\ c = s[p] /\ d = len[p] /\ e = s[p + 1]
            /\ f = len[p + 1]
      BY <1>1, <3>4
    <3>6. a <= e /\ a + b <= e + f
      <4>1. e = c + d + 1 /\ a <= c /\ a + b <= c + d
        BY <3>2, <3>3, <3>5
      <4> QED BY <4>1
    <3> QED BY <3>1, <3>5, <3>6
  <2> QED BY <1>2, <2>1, <2>2, Zenon
<1>5. Nat \subseteq S
  BY <1>3, <1>4, Induction
<1>6. ASSUME NEW i \in k..n
      PROVE  s[k] <= s[i] /\ s[k] + len[k] <= s[i] + len[i]
  <2>1. i - k \in Nat /\ k + (i - k) = i /\ i <= n
    OBVIOUS
  <2>2. i - k \in S
    BY <1>5, <2>1
  <2> QED BY <1>2, <2>1, <2>2
<1> QED BY <1>6

LEMMA JoinedOffsets ==
  ASSUME NEW T, NEW words \in Seq(Seq(T)), NEW ch, NEW str, NEW s, NEW n \in Nat, n = Len(words),
         Joined(words, ch, str, s)
  PROVE  \E len : Offsets(n, len, s) /\ \A i \in 1..n : len[i] = Len(words[i])
<1>1. \A i \in 1..n : words[i] \in Seq(T) /\ Len(words[i]) \in Nat
  OBVIOUS
<1>2. PICK len : len = [i \in 1..n |-> Len(words[i])]
  OBVIOUS
<1>3. len \in [1..n -> Nat] /\ \A i \in 1..n : len[i] = Len(words[i])
  BY <1>1, <1>2
<1>4. \A i \in 1..(n - 1) : i \in 1..n
  OBVIOUS
<1>5. s \in [1..n -> Nat] /\ \A i \in 1..(n - 1) : s[i + 1] = s[i] + Len(words[i]) + 1
  BY Zenon DEF Joined
<1> QED BY <1>3, <1>4, <1>5, Zenon DEF Offsets

\* The offsets in what follows the first word, which is one token, and the
\* token behind it.
Shifted(n, s, r) ==
  r \in [1..(n - 1) -> Nat] /\ r[1] = 0 /\ \A i \in 1..(n - 1) : r[i] = s[i + 1] - 2

LEMMA ShiftedOffsets ==
  ASSUME NEW n \in Nat, n >= 2, NEW len, NEW s, Offsets(n, len, s), s[1] = 0, len[1] = 1
  PROVE  /\ s[2] = 2 /\ s[n] + len[n] >= 2
         /\ \A i \in 2..n : s[i] >= 2
         /\ \E r : Shifted(n, s, r)
<1>1. /\ \A i \in 1..n : s[i] \in Nat /\ len[i] \in Nat
      /\ \A i \in 1..(n - 1) : s[i + 1] = s[i] + len[i] + 1
  BY DEF Offsets
<1>2. s[2] = 2
  <2>1. 1 \in 1..(n - 1) /\ 1 + 1 = 2
    OBVIOUS
  <2>2. s[2] = s[1] + len[1] + 1
    BY <1>1, <2>1
  <2> QED BY <2>2
<1>3. \A i \in 2..n : s[i] >= 2
  <2>1. 2 \in 1..n
    OBVIOUS
  <2>2. \A i \in 2..n : s[2] <= s[i]
    BY <2>1, OffsetsGrow
  <2>3. \A i \in 2..n : i \in 1..n
    OBVIOUS
  <2> QED BY <1>1, <1>2, <2>2, <2>3
<1>4. s[n] + len[n] >= 2
  <2>1. n \in 2..n /\ n \in 1..n
    OBVIOUS
  <2> QED BY <1>1, <1>3, <2>1
<1>5. PICK r : r = [i \in 1..(n - 1) |-> s[i + 1] - 2]
  OBVIOUS
<1>6. ASSUME NEW i \in 1..(n - 1)
      PROVE  s[i + 1] - 2 \in Nat
  <2>1. i + 1 \in 2..n /\ i + 1 \in 1..n
    OBVIOUS
  <2> QED BY <1>1, <1>3, <2>1
<1>7. r \in [1..(n - 1) -> Nat] /\ \A i \in 1..(n - 1) : r[i] = s[i + 1] - 2
  BY <1>5, <1>6
<1>8. r[1] = 0
  <2>1. 1 \in 1..(n - 1) /\ 1 + 1 = 2
    OBVIOUS
  <2> QED BY <1>2, <1>7, <2>1
<1> QED BY <1>2, <1>3, <1>4, <1>7, <1>8 DEF Shifted

\* Where the tokens of the word after the i-th are, and where the next begins.
TokenAt(n, len, s, r, l, i) ==
  /\ \A j \in 1..len[i + 1] : r[i] + j \in 1..(l - 2) /\ (r[i] + j) + 2 = s[i + 1] + j
  /\ i < n - 1 => /\ r[i + 1] = r[i] + len[i + 1] + 1
                  /\ r[i + 1] \in 1..(l - 2) /\ r[i + 1] + 2 = s[(i + 1) + 1]

LEMMA ShiftedToken ==
  ASSUME NEW n \in Nat, n >= 2, NEW len, NEW s, Offsets(n, len, s), s[1] = 0, len[1] = 1,
         NEW r, Shifted(n, s, r), NEW l \in Nat, l = s[n] + len[n], NEW i \in 1..(n - 1)
  PROVE  TokenAt(n, len, s, r, l, i)
<1>1. /\ \A k \in 1..n : s[k] \in Nat /\ len[k] \in Nat
      /\ \A k \in 1..(n - 1) : s[k + 1] = s[k] + len[k] + 1
  BY DEF Offsets
<1>2. /\ i + 1 \in 1..n /\ i + 1 \in 2..n /\ n \in (i + 1)..n /\ n \in 1..n
      /\ i < n - 1 => /\ i + 1 \in 1..(n - 1) /\ (i + 1) + 1 \in 1..n /\ n \in ((i + 1) + 1)..n
  OBVIOUS
<1>3. PICK a \in Nat, b \in Nat, c \in Nat, d \in Nat :
        a = s[i + 1] /\ b = len[i + 1] /\ c = s[n] /\ d = len[n]
  BY <1>1, <1>2
<1>4. a >= 2 /\ a + b <= c + d
  <2>1. s[i + 1] >= 2
    BY <1>2, ShiftedOffsets
  <2>2. s[i + 1] + len[i + 1] <= s[n] + len[n]
    BY <1>2, OffsetsGrow
  <2> QED BY <1>3, <2>1, <2>2
<1>5. r[i] = a - 2
  BY <1>3 DEF Shifted
<1>6. l = c + d
  BY <1>3
<1>7. \A j \in 1..b : (a - 2) + j \in 1..(l - 2) /\ ((a - 2) + j) + 2 = a + j
  BY <1>4, <1>6
<1>8. ASSUME i < n - 1
      PROVE  /\ r[i + 1] = r[i] + len[i + 1] + 1
             /\ r[i + 1] \in 1..(l - 2) /\ r[i + 1] + 2 = s[(i + 1) + 1]
  <2>1. PICK e \in Nat, f \in Nat : e = s[(i + 1) + 1] /\ f = len[(i + 1) + 1]
    BY <1>1, <1>2, <1>8
  <2>2. e = a + b + 1
    BY <1>1, <1>2, <1>3, <1>8, <2>1
  <2>3. e + f <= c + d
    <3>1. s[(i + 1) + 1] + len[(i + 1) + 1] <= s[n] + len[n]
      BY <1>2, <1>8, OffsetsGrow
    <3> QED BY <1>3, <2>1, <3>1
  <2>4. r[i + 1] = e - 2
    BY <1>2, <1>8, <2>1 DEF Shifted
  <2>5. e - 2 = (a - 2) + b + 1 /\ e - 2 \in 1..(l - 2) /\ (e - 2) + 2 = e
    BY <1>4, <1>6, <2>2, <2>3
  <2> QED BY <1>3, <1>5, <2>1, <2>4, <2>5
<1> QED BY <1>3, <1>5, <1>7, <1>8 DEF TokenAt

\* What follows the first word and the token behind it, in joined words.
Following(T, str, code, ch, t) ==
  /\ t \in Seq(T) /\ Len(str) \in Nat /\ Len(str) >= 2 /\ str[1] = code /\ str[2] = ch
  /\ Len(t) = Len(str) - 2 /\ \A k \in 1..(Len(str) - 2) : t[k] = str[k + 2]

LEMMA FollowingIsPart ==
  ASSUME NEW T, NEW str \in Seq(T), Len(str) >= 2
  PROVE  Following(T, str, str[1], str[2], SubSeq(str, 3, Len(str)))
<1>1. PICK l \in Nat : l = Len(str) /\ l >= 2
  OBVIOUS
<1>2. \A i \in 3..l : str[i] \in T
  BY <1>1
<1>3. /\ SubSeq(str, 3, l) \in Seq(T)
      /\ Len(SubSeq(str, 3, l)) = (IF 3 <= l THEN l - 3 + 1 ELSE 0)
      /\ \A i \in 1..(l - 3 + 1) : SubSeq(str, 3, l)[i] = str[3 + i - 1]
  BY <1>1, <1>2, SubSeqProperties
<1>4. (IF 3 <= l THEN l - 3 + 1 ELSE 0) = l - 2 /\ l - 3 + 1 = l - 2
  BY <1>1
<1>5. \A i \in 1..(l - 2) : 3 + i - 1 = i + 2
  OBVIOUS
<1> QED BY <1>1, <1>3, <1>4, <1>5 DEF Following

TwoBefore(code, ch, t) == <<code>> \o (<<ch>> \o t)

LEMMA FirstTwo ==
  ASSUME NEW T, NEW str \in Seq(T), NEW code \in T, NEW ch \in T, NEW t, Following(T, str, code, ch, t)
  PROVE  str = TwoBefore(code, ch, t)
<1>1. PICK l \in Nat : l = Len(str) /\ l >= 2
  BY DEF Following
<1>2. t \in Seq(T) /\ Len(t) = l - 2 /\ \A k \in 1..(l - 2) : t[k] = str[k + 2]
  BY <1>1 DEF Following
<1>3. PICK q : q = <<ch>> \o t
  OBVIOUS
<1>4. q \in Seq(T) /\ Len(q) = Len(t) + 1 /\ q[1] = ch /\ \A k \in 1..Len(t) : q[1 + k] = t[k]
  BY <1>2, <1>3, Prepend DEF Prepended
<1>5. PICK p : p = <<code>> \o q
  OBVIOUS
<1>6. p \in Seq(T) /\ Len(p) = Len(q) + 1 /\ p[1] = code /\ \A k \in 1..Len(q) : p[1 + k] = q[k]
  BY <1>4, <1>5, Prepend DEF Prepended
<1>7. Len(q) = l - 1 /\ Len(p) = l
  BY <1>1, <1>2, <1>4, <1>6
<1>8. ASSUME NEW k \in 1..l
      PROVE  p[k] = str[k]
  <2>1. CASE k = 1
    BY <1>6, <2>1 DEF Following
  <2>2. CASE k = 2
    <3>1. 1 \in 1..(l - 1) /\ 1 + 1 = 2
      BY <1>1
    <3>2. p[2] = q[1]
      BY <1>6, <1>7, <3>1
    <3> QED BY <1>4, <2>2, <3>2 DEF Following
  <2>3. CASE k # 1 /\ k # 2
    <3>1. PICK m \in 1..(l - 2) : m + 2 = k /\ 1 + m \in 1..(l - 1) /\ 1 + (1 + m) = k
      <4>1. k - 2 \in 1..(l - 2) /\ (k - 2) + 2 = k /\ 1 + (k - 2) \in 1..(l - 1)
            /\ 1 + (1 + (k - 2)) = k
        BY <2>3
      <4> QED BY <4>1
    <3>2. p[1 + (1 + m)] = q[1 + m]
      BY <1>6, <1>7, <3>1
    <3>3. q[1 + m] = t[m]
      BY <1>2, <1>4
    <3> QED BY <1>2, <3>1, <3>2, <3>3
  <2> QED BY <2>1, <2>2, <2>3
<1>9. p = str
  BY <1>1, <1>6, <1>7, <1>8
<1> QED BY <1>3, <1>5, <1>9 DEF TwoBefore

LEMMA IndexBelow ==
  ASSUME NEW n \in Nat, NEW i \in 1..((n - 1) - 1)
  PROVE  i \in 1..(n - 1) /\ i < n - 1 /\ i + 1 \in 1..(n - 1)
OBVIOUS

LEMMA TailJoined ==
  ASSUME NEW T, NEW words \in Seq(Seq(T)), NEW ch \in T, NEW code \in T, NEW str \in Seq(T), NEW s,
         Len(words) >= 2, Len(words[1]) = 1, words[1][1] = code, Joined(words, ch, str, s)
  PROVE  \E t : Following(T, str, code, ch, t) /\ \E r : Joined(Tail(words), ch, t, r)
<1>1. PICK n \in Nat : n = Len(words) /\ n >= 2
  OBVIOUS
<1>2. PICK len : Offsets(n, len, s) /\ \A i \in 1..n : len[i] = Len(words[i])
  BY <1>1, JoinedOffsets
<1>3. PICK l \in Nat : l = Len(str)
  OBVIOUS
<1>4. /\ s[1] = 0 /\ \A i \in 1..n : \A j \in 1..len[i] : str[s[i] + j] = words[i][j]
      /\ \A i \in 1..(n - 1) : str[s[i + 1]] = ch
  BY <1>1, <1>2, Zenon DEF Joined
<1>5. len[1] = 1 /\ l = s[n] + len[n]
  <2>1. 1 \in 1..n /\ n \in 1..n
    BY <1>1
  <2>2. Len(str) = s[n] + Len(words[n])
    BY <1>1, Zenon DEF Joined
  <2> QED BY <1>2, <1>3, <2>1, <2>2
<1>6. PICK r : Shifted(n, s, r)
  BY <1>1, <1>2, <1>4, <1>5, ShiftedOffsets
<1>7. s[2] = 2 /\ l >= 2
  BY <1>1, <1>2, <1>4, <1>5, ShiftedOffsets
<1>8. str[1] = code /\ str[2] = ch
  <2>1. 1 \in 1..n /\ 1 \in 1..1 /\ 1 \in 1..(n - 1) /\ 0 + 1 = 1 /\ 1 + 1 = 2
    BY <1>1
  <2>2. str[0 + 1] = words[1][1]
    BY <1>4, <1>5, <2>1, Zenon
  <2>3. str[s[1 + 1]] = ch
    BY <1>4, <2>1, Zenon
  <2> QED BY <1>7, <2>1, <2>2, <2>3
<1>9. PICK t : Following(T, str, code, ch, t)
  BY <1>3, <1>7, <1>8, FollowingIsPart
<1>10. t \in Seq(T) /\ Len(t) = l - 2 /\ \A k \in 1..(l - 2) : t[k] = str[k + 2]
  BY <1>3, <1>9 DEF Following
<1>11. PICK tail : /\ tail = Tail(words) /\ Len(tail) = n - 1
                   /\ \A k \in 1..(n - 1) : tail[k] = words[k + 1]
  <2>1. n \in Nat \ {0} /\ Len(words) = n
    BY <1>1
  <2>2. PICK U : U = Seq(T)
    OBVIOUS
  <2>3. words \in Seq(U)
    BY <2>2
  <2>4. Len(Tail(words)) = n - 1 /\ \A k \in 1..(n - 1) : Tail(words)[k] = words[k + 1]
    BY <2>1, <2>3, HeadAndTail
  <2> QED BY <2>4
<1>12. \A i \in 1..(n - 1) : /\ i + 1 \in 1..n /\ tail[i] = words[i + 1]
                             /\ Len(tail[i]) = len[i + 1]
  BY <1>2, <1>11
<1>13. ASSUME NEW i \in 1..(n - 1)
       PROVE
         /\ \A j \in 1..len[i + 1] :
              r[i] + j \in 1..(l - 2) /\ (r[i] + j) + 2 = s[i + 1] + j
         /\ i < n - 1 => /\ r[i + 1] = r[i] + len[i + 1] + 1
                         /\ r[i + 1] \in 1..(l - 2) /\ r[i + 1] + 2 = s[(i + 1) + 1]
  <2>1. n >= 2 /\ s[1] = 0 /\ Offsets(n, len, s) /\ Shifted(n, s, r)
    BY <1>1, <1>2, <1>4, <1>6
  <2>2. TokenAt(n, len, s, r, l, i)
    BY <1>5, <2>1, ShiftedToken, Zenon
  <2> QED BY <2>2, Zenon DEF TokenAt
<1>14. \A i \in 1..(n - 1) : \A j \in 1..Len(tail[i]) : t[r[i] + j] = tail[i][j]
  <2> TAKE i \in 1..(n - 1)
  <2> TAKE j \in 1..Len(tail[i])
  <2>1. PICK k : k \in 1..n /\ k = i + 1
    BY <1>12
  <2>2. tail[i] = words[k] /\ j \in 1..len[k]
    BY <1>12, <2>1, Zenon
  <2>3. PICK q \in 1..(l - 2) : q = r[i] + j /\ q + 2 = s[k] + j
    BY <1>13, <2>1, <2>2, Zenon
  <2>4. t[q] = str[q + 2]
    BY <1>10, Zenon
  <2>5. str[s[k] + j] = words[k][j]
    BY <1>4, <2>1, <2>2, Zenon
  <2> QED BY <2>2, <2>3, <2>4, <2>5, Zenon
<1>15. \A i \in 1..((n - 1) - 1) : r[i + 1] = r[i] + Len(tail[i]) + 1 /\ t[r[i + 1]] = ch
  <2> TAKE i \in 1..((n - 1) - 1)
  <2>1. i \in 1..(n - 1) /\ i < n - 1 /\ i + 1 \in 1..(n - 1)
    BY IndexBelow
  <2>2. /\ r[i + 1] = r[i] + len[i + 1] + 1
        /\ r[i + 1] \in 1..(l - 2) /\ r[i + 1] + 2 = s[(i + 1) + 1]
    BY <1>13, <2>1, Zenon
  <2>3. t[r[i + 1]] = str[r[i + 1] + 2]
    BY <1>10, <2>2, Zenon
  <2>4. str[s[(i + 1) + 1]] = ch
    BY <1>4, <2>1, Zenon
  <2> QED BY <1>12, <2>1, <2>2, <2>3, <2>4, Zenon
<1>16. Len(t) = r[n - 1] + Len(tail[n - 1])
  <2>1. n - 1 \in 1..(n - 1) /\ (n - 1) + 1 = n
    BY <1>1
  <2>2. r[n - 1] = s[n] - 2
    BY <2>1, <1>6 DEF Shifted
  <2>3. Len(tail[n - 1]) = len[n]
    BY <1>12, <2>1, Zenon
  <2>4. PICK a \in Nat, b \in Nat : a = s[n] /\ b = len[n]
    <3>1. n \in 1..n
      BY <1>1
    <3>2. \A k \in 1..n : s[k] \in Nat /\ len[k] \in Nat
      BY <1>2 DEF Offsets
    <3>3. s[n] \in Nat /\ len[n] \in Nat
      BY <3>1, <3>2
    <3> QED BY <3>3
  <2>5. (a + b) - 2 = (a - 2) + b
    OBVIOUS
  <2>6. Len(t) = (a + b) - 2
    BY <1>5, <1>10, <2>4, Zenon
  <2>7. r[n - 1] + Len(tail[n - 1]) = (a - 2) + b
    BY <2>2, <2>3, <2>4, Zenon
  <2> QED BY <2>5, <2>6, <2>7, Zenon
<1>17. Joined(tail, ch, t, r)
  BY <1>6, <1>11, <1>14, <1>15, <1>16, Zenon DEF Joined, Shifted
<1> QED BY <1>9, <1>11, <1>17

LEMMA LineSplit ==
  ASSUME NEW T, NEW words \in Seq(Seq(T)), NEW ch \in T, NEW code \in T,
         Len(words) >= 2, Len(words[1]) = 1, words[1][1] = code,
         \A i \in 1..Len(words) : \A j \in 1..Len(words[i]) : words[i][j] # ch
  PROVE  \E t : /\ PartitionString(Join(words, ch), ch) =
                     [head |-> <<code>>, tail |-> t, ok |-> TRUE]
                /\ Split(t, ch) = Tail(words)
<1>1. PICK str \in Seq(T) : str = Join(words, ch) /\ \E s : Joined(words, ch, str, s)
  <2>1. Len(words) >= 1
    OBVIOUS
  <2>2. Join(words, ch) \in Seq(T) /\ \E s : Joined(words, ch, Join(words, ch), s)
    BY <2>1, JoinLayout
  <2> QED BY <2>2
<1>2. PICK t : Following(T, str, code, ch, t) /\ \E r : Joined(Tail(words), ch, t, r)
  BY <1>1, TailJoined
<1>3. PartitionString(str, ch) = [head |-> <<code>>, tail |-> t, ok |-> TRUE]
  <2>1. str = <<code>> \o (<<ch>> \o t)
    <3>1. str = TwoBefore(code, ch, t)
      BY <1>2, FirstTwo
    <3> QED BY <3>1 DEF TwoBefore
  <2>2. PICK u \in Seq(T) : u = <<code>> /\ Len(u) = 1 /\ u[1] = code
    BY OneTuple
  <2>3. code # ch
    <3>1. 1 \in 1..Len(words) /\ 1 \in 1..1
      OBVIOUS
    <3> QED BY <3>1
  <2>4. \A i \in 1..Len(u) : u[i] # ch
    BY <2>2, <2>3
  <2>5. t \in Seq(T)
    BY <1>2 DEF Following
  <2> QED BY <2>1, <2>2, <2>4, <2>5, PartitionFirst
<1>4. Split(t, ch) = Tail(words)
  <2>1. PICK n \in Nat : n = Len(words) /\ n >= 2
    OBVIOUS
  <2>2. PICK U : U = Seq(T)
    OBVIOUS
  <2>3. PICK tail \in Seq(U) :
          tail = Tail(words) /\ Len(tail) = n - 1 /\ \A k \in 1..(n - 1) : tail[k] = words[k + 1]
    <3>1. n \in Nat \ {0}
      BY <2>1
    <3>2. words \in Seq(U) /\ Len(words) = n
      BY <2>1, <2>2
    <3>3. /\ Tail(words) \in Seq(U) /\ Len(Tail(words)) = n - 1
          /\ \A k \in 1..(n - 1) : Tail(words)[k] = words[k + 1]
      BY <3>1, <3>2, HeadAndTail
    <3> QED BY <3>3
  <2>4. PICK r : Joined(tail, ch, t, r)
    BY <1>2, <2>3
  <2>5. t \in Seq(T)
    BY <1>2 DEF Following
  <2>6. ASSUME NEW i \in 1..Len(tail), NEW j \in 1..Len(tail[i])
        PROVE  tail[i][j] # ch
    <3>1. i \in 1..(n - 1)
      BY <2>3
    <3>2. PICK k \in 1..n : k = i + 1
      BY <3>1
    <3>3. tail[i] = words[k]
      BY <2>3, <3>1, <3>2
    <3> QED BY <2>1, <3>2, <3>3
  <2>7. Len(tail) >= 1
    BY <2>1, <2>3
  <2>8. tail \in Seq(Seq(T))
    BY <2>2
  <2> QED BY <2>3, <2>4, <2>5, <2>6, <2>7, <2>8, SplitJoined
<1> QED BY <1>1, <1>3, <1>4

LEMMA NoSpaceIn ==
  ASSUME NEW w \in Texts, SP \notin Range(w)
  PROVE  \A j \in 1..Len(w) : w[j] # SP
<1>1. DOMAIN w = 1..Len(w)
  BY DEF Texts
<1> QED BY <1>1 DEF Range
=============================================================================
