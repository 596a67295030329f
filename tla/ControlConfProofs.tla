------------------------- MODULE ControlConfProofs -------------------------
(***************************************************************************)
(* What a session makes of the connection.  SetConf and GetConf make a map *)
(* of Tor's configuration (ConfStore): what is written is what Tor reads,  *)
(* and what Tor answers is what is returned.  Up to a protocol error a     *)
(* call returns what Tor answered to it, the events handled are those Tor  *)
(* emitted, with their codes, and the order of an event's attributes, and  *)
(* attributes nobody knows, make no difference.                            *)
(***************************************************************************)
EXTENDS ControlWireProofs

----------------------------------------------------------------------------
(* Printf *)

LEMMA PrintfLength ==
  ASSUME NEW str \in Texts
  PROVE  /\ Printf(str) \in Texts /\ Len(Printf(str)) = Len(str)
         /\ \A i \in 1..Len(str) : Printf(str)[i] = IF str[i] = "%" THEN "%!" ELSE str[i]
<1>1. DOMAIN str = 1..Len(str) /\ Len(str) \in Nat
  BY DEF Texts
<1>2. Printf(str) = [i \in 1..Len(str) |-> IF str[i] = "%" THEN "%!" ELSE str[i]]
  BY <1>1 DEF Printf
<1>3. Printf(str) \in Texts
  BY PrintfText
<1>4. Len(Printf(str)) = Len(str)
  BY <1>1, <1>2
<1> QED BY <1>2, <1>3, <1>4

LEMMA PrintfSame ==
  ASSUME NEW str \in Texts, \A i \in 1..Len(str) : str[i] # "%"
  PROVE  Printf(str) = str
<1>1. PICK p \in Texts : p = Printf(str)
  BY PrintfLength
<1>2. Len(p) = Len(str) /\ \A i \in 1..Len(str) : p[i] = str[i]
  BY <1>1, PrintfLength
<1>3. p = str
  BY <1>2, SeqEqual DEF Texts
<1> QED BY <1>1, <1>3

LEMMA PrintfConcat ==
  ASSUME NEW a \in Texts, NEW b \in Texts
  PROVE  Printf(a \o b) = Printf(a) \o Printf(b)
<1>1. PICK s \in Texts : s = a \o b
  BY Concat DEF Texts
<1>2. PICK n \in Nat, l \in Nat : n = Len(a) /\ l = Len(b)
  BY DEF Texts
<1>3. /\ Len(s) = n + l /\ \A j \in 1..n : s[j] = a[j]
      /\ \A j \in 1..l : s[n + j] = b[j]
  BY <1>1, <1>2, Concat DEF Texts
<1>4. PICK pa \in Texts, pb \in Texts, ps \in Texts :
        pa = Printf(a) /\ pb = Printf(b) /\ ps = Printf(s)
  BY PrintfLength
<1>5. /\ Len(pa) = n /\ Len(pb) = l /\ Len(ps) = n + l
      /\ \A i \in 1..n : pa[i] = IF a[i] = "%" THEN "%!" ELSE a[i]
      /\ \A i \in 1..l : pb[i] = IF b[i] = "%" THEN "%!" ELSE b[i]
      /\ \A i \in 1..(n + l) : ps[i] = IF s[i] = "%" THEN "%!" ELSE s[i]
  BY <1>2, <1>3, <1>4, PrintfLength
<1>6. PICK t \in Texts : t = pa \o pb
  BY Concat DEF Texts
<1>7. /\ Len(t) = n + l /\ \A j \in 1..n : t[j] = pa[j]
      /\ \A j \in 1..l : t[n + j] = pb[j]
  <2>1. /\ Len(t) = Len(pa) + Len(pb) /\ \A j \in 1..Len(pa) : t[j] = pa[j]
        /\ \A j \in 1..Len(pb) : t[Len(pa) + j] = pb[j]
    BY <1>6, Concat DEF Texts
  <2> QED BY <1>5, <2>1
<1>8. ASSUME NEW i \in 1..(n + l)
      PROVE  ps[i] = t[i]
  <2>1. CASE i \in 1..n
    BY <1>3, <1>5, <1>7, <2>1
  <2>2. CASE i \notin 1..n
    <3>1. PICK j \in 1..l : i = n + j
      <4>1. i - n \in 1..l /\ i = n + (i - n)
        BY <2>2
      <4> QED BY <4>1
    <3>2. s[n + j] = b[j] /\ t[n + j] = pb[j]
      BY <1>3, <1>7
    <3> QED BY <1>5, <3>1, <3>2
  <2> QED BY <2>1, <2>2
<1>9. ps = t
  BY <1>5, <1>7, <1>8, SeqEqual DEF Texts
<1> QED BY <1>1, <1>4, <1>6, <1>9

\* Printf leaves the first words alone.
LEMMA PrintfAfter ==
  ASSUME NEW a \in Texts, NEW b \in Texts, \A i \in 1..Len(a) : a[i] # "%"
  PROVE  Printf(a \o b) = a \o Printf(b)
BY PrintfSame, PrintfConcat

----------------------------------------------------------------------------
(* How Tor reads a quoted value *)

\* The backslashes right before the i-th token.
Before(str, i) == {j \in 1..(i - 1) : \A k \in j..(i - 1) : str[k] = Backslash}
IsEscaped(str, i) == Cardinality(Before(str, i)) % 2 = 1

TorToken(str, i) ==
  CASE IsEscaped(str, i) ->
         <<CASE str[i] = "r" -> CR [] str[i] = "n" -> LF [] OTHER -> str[i]>>
    [] ~IsEscaped(str, i) /\ str[i] = Backslash -> <<>>
    [] OTHER -> <<str[i]>>

LEMMA TorUnescapeIs ==
  ASSUME NEW str
  PROVE  TorUnescape(str) = FlattenSeq([i \in DOMAIN str |-> TorToken(str, i)])
BY Zenon DEF TorUnescape, TorToken, IsEscaped, Before

LEMMA FirstIsNotEscaped ==
  ASSUME NEW str
  PROVE  ~IsEscaped(str, 1)
<1>1. Before(str, 1) = {}
  BY DEF Before
<1>2. Cardinality({}) = 0
  BY FS_EmptySet
<1> QED BY <1>1, <1>2 DEF IsEscaped

\* A token is escaped when a backslash that is not is before it.
LEMMA NextIsEscaped ==
  ASSUME NEW str, NEW i \in Nat \ {0}
  PROVE  IsEscaped(str, i + 1) <=> str[i] = Backslash /\ ~IsEscaped(str, i)
<1>1. Before(str, i + 1) = {j \in 1..i : \A k \in j..i : str[k] = Backslash}
  <2>1. (i + 1) - 1 = i
    OBVIOUS
  <2> QED BY <2>1, Zenon DEF Before
<1>2. CASE str[i] # Backslash
  <2>1. \A j \in 1..i : i \in j..i
    OBVIOUS
  <2>2. Before(str, i + 1) = {}
    BY <1>1, <1>2, <2>1
  <2>3. Cardinality({}) = 0
    BY FS_EmptySet
  <2>4. ~IsEscaped(str, i + 1)
    BY <2>2, <2>3 DEF IsEscaped
  <2> QED BY <1>2, <2>4
<1>3. CASE str[i] = Backslash
  <2>1. PICK B : B = Before(str, i)
    OBVIOUS
  <2>2. \A j : j \in Before(str, i + 1) <=> j \in B \/ j = i
    <3>1. ASSUME NEW j
          PROVE  j \in Before(str, i + 1) <=> j \in B \/ j = i
      <4>1. j \in B <=> j \in 1..(i - 1) /\ \A k \in j..(i - 1) : str[k] = Backslash
        BY <2>1, Zenon DEF Before
      <4>2. j \in Before(str, i + 1) <=> j \in 1..i /\ \A k \in j..i : str[k] = Backslash
        BY <1>1, Zenon
      <4>3. \A k : k \in i..i => k = i
        OBVIOUS
      <4>4. CASE j \in 1..(i - 1)
        <5>1. \A k : k \in j..i <=> k \in j..(i - 1) \/ k = i
          BY <4>4
        <5> QED BY <1>3, <4>1, <4>2, <4>4, <5>1
      <4>5. CASE j = i
        BY <1>3, <4>2, <4>3, <4>5
      <4>6. CASE j \notin 1..i
        BY <4>1, <4>2, <4>6
      <4>7. j \in 1..i => j \in 1..(i - 1) \/ j = i
        OBVIOUS
      <4> QED BY <4>4, <4>5, <4>6, <4>7
    <3> QED BY <3>1
  <2>3. Before(str, i + 1) = B \cup {i}
    BY <2>2
  <2>4. B \subseteq 1..(i - 1) /\ i \notin B
    BY <2>1 DEF Before
  <2>5. IsFiniteSet(B)
    <3>1. IsFiniteSet(1..(i - 1))
      BY FS_Interval
    <3> QED BY <2>4, <3>1, FS_Subset
  <2>6. PICK n \in Nat : n = Cardinality(B)
    BY <2>5, FS_CardinalityType
  <2>7. Cardinality(B \cup {i}) = n + 1
    BY <2>4, <2>5, <2>6, FS_AddElement
  <2>8. (n + 1) % 2 = 1 <=> ~(n % 2 = 1)
    OBVIOUS
  <2> QED BY <1>3, <2>1, <2>3, <2>6, <2>7, <2>8 DEF IsEscaped
<1> QED BY <1>2, <1>3

\* What Tor makes of the tokens that escaping writes.
LEMMA TorTokenCases ==
  ASSUME NEW str, NEW i
  PROVE  /\ ~IsEscaped(str, i) /\ str[i] \notin Escapes => TorToken(str, i) = <<str[i]>>
         /\ ~IsEscaped(str, i) /\ str[i] = Backslash => TorToken(str, i) = <<>>
         /\ \A ch : IsEscaped(str, i) /\ Stands(ch, str[i]) => TorToken(str, i) = <<ch>>
BY DEF TorToken, Stands, Escapes, Backslash, Quote, CR, LF

LEMMA TorTokenText ==
  ASSUME NEW str \in Texts, NEW i \in 1..Len(str)
  PROVE  TorToken(str, i) \in Texts
<1>1. PICK ch \in Tokens : ch = str[i]
  BY DEF Texts
<1>2. CR \in Tokens /\ LF \in Tokens
  BY DEF Tokens, Literals, CR, LF
<1>3. PICK x : x = CASE str[i] = "r" -> CR [] str[i] = "n" -> LF [] OTHER -> str[i]
  OBVIOUS
<1>4. x \in Tokens
  BY <1>1, <1>2, <1>3
<1>5. \/ TorToken(str, i) = <<x>>
      \/ TorToken(str, i) = <<>>
      \/ TorToken(str, i) = <<ch>>
  BY <1>1, <1>3 DEF TorToken
<1>6. <<x>> \in Texts /\ <<>> \in Texts /\ <<ch>> \in Texts
  BY <1>4 DEF Texts
<1> QED BY <1>5, <1>6

\* Tor has read the first k tokens of str from their escaped form c.
TorHasRead(str, c, off, all, to, k) ==
  /\ ~IsEscaped(c, off[k + 1] + 1)
  /\ to[off[k + 1] + 1] = k
  /\ \A j \in 1..k : all[j] = str[j]

\* Tor reads what was escaped (string.go:40-53).
LEMMA TorReads ==
  ASSUME NEW str \in Texts
  PROVE  TorUnescape(EscapeSimpleQuotedStringContents(str)) = str
<1>1. PICK c \in Texts : c = EscapeSimpleQuotedStringContents(str)
  BY ContentsWritten
<1>2. PICK off : EscapedAt(str, off)
  BY ContentsWritten
<1>3. PICK n \in Nat, l \in Nat : n = Len(str) /\ l = Len(c) /\ DOMAIN c = 1..l
  BY DEF Texts
<1>4. PICK pieces \in Seq(Texts) :
        /\ Len(pieces) = n /\ \A i \in 1..n : pieces[i] = EscapedToken(str[i])
        /\ Layout(pieces, c, off)
  BY <1>1, <1>2, <1>3 DEF EscapedAt
<1>5. /\ off \in [1..(n + 1) -> Nat] /\ off[1] = 0 /\ l = off[n + 1]
      /\ \A i \in 1..n : /\ off[i + 1] = off[i] + Len(pieces[i])
                         /\ \A j \in 1..Len(pieces[i]) : c[off[i] + j] = pieces[i][j]
  BY <1>3, <1>4 DEF Layout
<1>6. \A i \in 1..(n + 1) : off[i] <= l /\ off[i] \in Nat
  <2>1. pieces \in Seq(Seq(Tokens)) /\ Len(pieces) = n
    BY <1>4 DEF Texts
  <2>2. \A i \in 1..(Len(pieces) + 1) : off[i] <= Len(c)
    BY <1>4, <2>1, LayoutOffsets
  <2> QED BY <1>3, <1>5, <2>1, <2>2
<1>7. PICK tokens : tokens = [i \in 1..l |-> TorToken(c, i)]
  OBVIOUS
<1>8. tokens \in Seq(Seq(Tokens)) /\ Len(tokens) = l
  <2>1. \A i \in 1..l : TorToken(c, i) \in Seq(Tokens)
    BY <1>3, TorTokenText DEF Texts
  <2>2. tokens \in [1..l -> Seq(Tokens)]
    BY <1>7, <2>1
  <2> QED BY <1>7, <2>2
<1>9. PICK all, to :
        all \in Seq(Tokens) /\ all = FlattenSeq(tokens) /\ Layout(tokens, all, to)
  BY <1>8, FlattenSeqLayout
<1>10. /\ to \in [1..(l + 1) -> Nat] /\ to[1] = 0 /\ Len(all) = to[l + 1]
       /\ \A i \in 1..l : /\ to[i + 1] = to[i] + Len(tokens[i])
                          /\ \A j \in 1..Len(tokens[i]) : all[to[i] + j] = tokens[i][j]
  BY <1>8, <1>9 DEF Layout
<1>11. TorUnescape(c) = all
  BY <1>3, <1>7, <1>9, TorUnescapeIs, Zenon
<1>12. PICK S : S = {k \in Nat : k <= n => TorHasRead(str, c, off, all, to, k)}
  OBVIOUS
<1>13. 0 \in S
  <2>1. 0 + 1 = 1 /\ off[0 + 1] + 1 = 1
    BY <1>5
  <2>2. ~IsEscaped(c, off[0 + 1] + 1)
    BY <2>1, FirstIsNotEscaped
  <2>3. to[off[0 + 1] + 1] = 0
    BY <1>10, <2>1
  <2> QED BY <1>12, <2>2, <2>3 DEF TorHasRead
<1>14. ASSUME NEW i \in Nat, i \in S
       PROVE  i + 1 \in S
  <2> SUFFICES ASSUME i + 1 \in 1..n
               PROVE  TorHasRead(str, c, off, all, to, i + 1)
    BY <1>12
  <2>1. PICK k \in 1..n : k = i + 1
    OBVIOUS
  <2>2. PICK ch \in Tokens : ch = str[k]
    BY <1>3 DEF Texts
  <2>3. PICK a \in Nat, b \in Nat : a = off[k] /\ b = off[k + 1]
    BY <1>6
  <2>4. TorHasRead(str, c, off, all, to, i)
    BY <1>12, <1>14
  <2>5. ~IsEscaped(c, a + 1) /\ to[a + 1] = i /\ \A j \in 1..i : all[j] = str[j]
    BY <2>1, <2>3, <2>4, Zenon DEF TorHasRead
  <2>6. b <= l
    BY <1>6, <2>3
  <2>7. pieces[k] = EscapedToken(ch)
    BY <1>4, <2>2
  <2>8. b = a + Len(pieces[k]) /\ \A j \in 1..Len(pieces[k]) : c[a + j] = pieces[k][j]
    BY <1>5, <2>3
  <2>9. ASSUME ~IsEscaped(c, b + 1), to[b + 1] = i + 1, all[i + 1] = ch
        PROVE  TorHasRead(str, c, off, all, to, i + 1)
    <3>1. \A j \in 1..(i + 1) : j \in 1..i \/ j = i + 1
      OBVIOUS
    <3>2. \A j \in 1..(i + 1) : all[j] = str[j]
      BY <2>1, <2>2, <2>5, <2>9, <3>1
    <3>3. ~IsEscaped(c, off[i + 1 + 1] + 1) /\ to[off[i + 1 + 1] + 1] = i + 1
      BY <2>1, <2>3, <2>9, Zenon
    <3> QED BY <3>2, <3>3 DEF TorHasRead
  <2>10. CASE ch \notin Escapes /\ Len(pieces[k]) = 1 /\ pieces[k][1] = ch
    <3>1. b = a + 1 /\ c[a + 1] = ch
      BY <2>8, <2>10
    <3>2. a + 1 \in 1..l /\ a + 1 \in Nat \ {0} /\ (a + 1) + 1 = b + 1
      BY <2>6, <3>1
    <3>3. TorToken(c, a + 1) = <<ch>>
      BY <2>5, <2>10, <3>1, TorTokenCases
    <3>4. to[b + 1] = i + 1 /\ all[i + 1] = ch
      <4>1. PICK x : x = tokens[a + 1] /\ x = <<ch>> /\ Len(x) = 1 /\ x[1] = ch
        BY <1>7, <3>2, <3>3
      <4>2. to[(a + 1) + 1] = to[a + 1] + Len(x) /\ \A j \in 1..Len(x) : all[to[a + 1] + j] = x[j]
        BY <1>10, <3>2, <4>1
      <4> QED BY <2>5, <3>2, <4>1, <4>2
    <3>5. ~IsEscaped(c, b + 1)
      <4>1. ch # Backslash
        BY <2>10 DEF Escapes
      <4>2. ~IsEscaped(c, (a + 1) + 1)
        BY <3>1, <3>2, <4>1, NextIsEscaped
      <4> QED BY <3>2, <4>2, Zenon
    <3> QED BY <2>9, <3>4, <3>5
  <2>11. CASE /\ Len(pieces[k]) = 2 /\ pieces[k][1] = Backslash
              /\ Stands(ch, pieces[k][2])
    <3>1. b = a + 2 /\ c[a + 1] = Backslash /\ c[a + 2] = pieces[k][2] /\ Stands(ch, c[a + 2])
      BY <2>8, <2>11
    <3>2. /\ a + 1 \in 1..l /\ a + 1 \in Nat \ {0} /\ (a + 1) + 1 = a + 2
          /\ a + 2 \in 1..l /\ a + 2 \in Nat \ {0} /\ (a + 2) + 1 = b + 1
      BY <2>6, <3>1
    <3>3. IsEscaped(c, a + 2)
      <4>1. IsEscaped(c, (a + 1) + 1)
        BY <2>5, <3>1, <3>2, NextIsEscaped
      <4> QED BY <3>2, <4>1, Zenon
    <3>4. ~IsEscaped(c, b + 1)
      <4>1. ~IsEscaped(c, (a + 2) + 1)
        BY <3>2, <3>3, NextIsEscaped
      <4> QED BY <3>2, <4>1, Zenon
    <3>5. TorToken(c, a + 1) = <<>> /\ TorToken(c, a + 2) = <<ch>>
      BY <2>5, <3>1, <3>3, TorTokenCases
    <3>6. to[a + 2] = i
      <4>1. PICK x : x = tokens[a + 1] /\ x = <<>> /\ Len(x) = 0
        BY <1>7, <3>2, <3>5
      <4>2. to[(a + 1) + 1] = to[a + 1] + Len(x)
        BY <1>10, <3>2, <4>1
      <4> QED BY <2>5, <3>2, <4>1, <4>2
    <3>7. to[b + 1] = i + 1 /\ all[i + 1] = ch
      <4>1. PICK x : x = tokens[a + 2] /\ x = <<ch>> /\ Len(x) = 1 /\ x[1] = ch
        BY <1>7, <3>2, <3>5
      <4>2. to[(a + 2) + 1] = to[a + 2] + Len(x) /\ \A j \in 1..Len(x) : all[to[a + 2] + j] = x[j]
        BY <1>10, <3>2, <4>1
      <4> QED BY <3>2, <3>6, <4>1, <4>2
    <3> QED BY <2>9, <3>4, <3>7
  <2> QED BY <2>2, <2>7, <2>10, <2>11, EscapedTokenCases
<1>15. n \in S /\ n <= n
  BY <1>13, <1>14, Induction
<1>16. TorHasRead(str, c, off, all, to, n)
  BY <1>12, <1>15
<1>17. Len(all) = n /\ \A j \in 1..n : all[j] = str[j]
  BY <1>5, <1>10, <1>16 DEF TorHasRead
<1>18. all = str
  BY <1>3, <1>9, <1>17, SeqEqual DEF Texts
<1> QED BY <1>1, <1>11, <1>18

LEMMA QuotedContents ==
  ASSUME NEW str \in Texts
  PROVE  LET s == EscapeSimpleQuotedString(str)
         IN /\ s \in Texts /\ s # <<>> /\ s[1] = Quote /\ Quoted(s)
            /\ SubSeq(s, 2, Len(s) - 1) = EscapeSimpleQuotedStringContents(str)
<1>1. PICK c \in Texts : c = EscapeSimpleQuotedStringContents(str)
  BY ContentsWritten
<1>2. PICK s : s = EscapeSimpleQuotedString(str)
  OBVIOUS
<1>4. /\ s \in Texts /\ Len(s) = Len(c) + 2 /\ s[1] = Quote /\ s[Len(s)] = Quote
      /\ SubSeq(s, 2, Len(s) - 1) = c
  BY <1>1, <1>2, QuotedText
<1>5. Len(c) + 2 >= 2 /\ Len(c) + 2 # 0
  BY DEF Texts
<1>6. Quoted(s)
  BY <1>4, <1>5 DEF Quoted
<1>7. s # <<>>
  <2>1. Len(s) # 0
    BY <1>4, <1>5
  <2> QED BY <2>1, EmptySeq
<1> QED BY <1>1, <1>2, <1>4, <1>6, <1>7

\* Tor reads the value that was written, quoted or not.
LEMMA TorReadsValue ==
  ASSUME NEW val \in Texts
  PROVE  TorValue(EscapeSimpleQuotedStringIfNeeded(val)) = val
<1>1. CASE \E i \in DOMAIN val : val[i] \in Escapes \cup {SP}
  <2>1. PICK s : s = EscapeSimpleQuotedString(val)
    OBVIOUS
  <2>2. EscapeSimpleQuotedStringIfNeeded(val) = s
    BY <1>1, <2>1, Zenon DEF EscapeSimpleQuotedStringIfNeeded
  <2>3. /\ s # <<>> /\ s[1] = Quote
        /\ SubSeq(s, 2, Len(s) - 1) = EscapeSimpleQuotedStringContents(val)
    BY <2>1, QuotedContents
  <2>4. TorValue(s) = TorUnescape(EscapeSimpleQuotedStringContents(val))
    BY <2>3 DEF TorValue
  <2> QED BY <2>2, <2>4, TorReads
<1>2. CASE ~ \E i \in DOMAIN val : val[i] \in Escapes \cup {SP}
  <2>1. EscapeSimpleQuotedStringIfNeeded(val) = val
    BY <1>2, Zenon DEF EscapeSimpleQuotedStringIfNeeded
  <2>2. val # <<>> => val[1] # Quote
    <3>1. val # <<>> => 1 \in DOMAIN val
      BY EmptySeq DEF Texts
    <3> QED BY <1>2, <3>1 DEF Escapes
  <2> QED BY <2>1, <2>2 DEF TorValue
<1> QED BY <1>1, <1>2

----------------------------------------------------------------------------
(* GETCONF *)

\* The message answers GETCONF of key when v is its value.
Answers(key, v, msg) ==
  /\ msg.code = StatusOk /\ msg.data = <<>>
  /\ IF v.val = <<>> /\ ~v.valSetAndEmpty THEN msg.reply = key
     ELSE \/ msg.reply = key \o <<"=">> \o EscapeSimpleQuotedString(v.val)
          \/ Range(v.val) \cap Escapes = {} /\ msg.reply = key \o <<"=">> \o v.val

LEMMA TorAnswersGetConf ==
  ASSUME NEW key, NEW msg \in TorGetConf(key)
  PROVE  Answers(key, conf[key], msg) /\ msg.bad = "none"
<1>1. PICK v : v = conf[key]
  OBVIOUS
<1>2. PICK quoted \in BOOLEAN :
        /\ quoted \/ Range(v.val) \cap Escapes = {}
        /\ msg = [code |-> StatusOk, data |-> <<>>,
                  reply |-> CASE v.val = <<>> /\ ~v.valSetAndEmpty -> key
                              [] OTHER -> key \o <<"=">> \o
                                   (IF quoted THEN EscapeSimpleQuotedString(v.val) ELSE v.val),
                  bad |-> "none"]
  BY <1>1, Zenon DEF TorGetConf
<1>3. msg.code = StatusOk /\ msg.data = <<>> /\ msg.bad = "none"
  BY <1>2
<1>4. CASE v.val = <<>> /\ ~v.valSetAndEmpty
  <2>1. msg.reply = key
    BY <1>2, <1>4
  <2> QED BY <1>1, <1>3, <1>4, <2>1, Zenon DEF Answers
<1>5. CASE ~(v.val = <<>> /\ ~v.valSetAndEmpty)
  <2>1. msg.reply = key \o <<"=">> \o (IF quoted THEN EscapeSimpleQuotedString(v.val) ELSE v.val)
    BY <1>2, <1>5
  <2> QED BY <1>1, <1>2, <1>3, <1>5, <2>1, Zenon DEF Answers
<1> QED BY <1>4, <1>5

LEMMA KeyHasNoSigns ==
  ASSUME NEW key \in Keys
  PROVE  \A i \in 1..Len(key) : key[i] # "=" /\ key[i] # "%"
<1>1. PICK b : key = <<b>> /\ b # "=" /\ b # "%"
  BY DEF Keys
<1>2. Len(key) = 1 /\ key[1] = b
  BY <1>1
<1> QED BY <1>1, <1>2

\* An entry of the answer, from its parts.
LEMMA EntryOf ==
  ASSUME NEW str, NEW head, NEW tail, NEW ok \in BOOLEAN, NEW val,
         PartitionString(str, "=") = [head |-> head, tail |-> tail, ok |-> ok],
         UnescapeSimpleQuotedStringIfNeeded(tail) = [val |-> val, err |-> FALSE],
         NEW set \in BOOLEAN, set <=> ok /\ val = <<>>
  PROVE  GetConfEntry(str) = [key |-> head, val |-> val, valSetAndEmpty |-> set, err |-> FALSE]
<1>1. PICK kv : kv = PartitionString(str, "=")
  OBVIOUS
<1>2. kv.head = head /\ kv.tail = tail /\ kv.ok = ok
  BY <1>1
<1>3. PICK u : u = UnescapeSimpleQuotedStringIfNeeded(kv.tail)
  OBVIOUS
<1>4. u.val = val /\ u.err = FALSE
  BY <1>2, <1>3
<1>5. GetConfEntry(str) = [key |-> kv.head, val |-> u.val,
                           valSetAndEmpty |-> kv.ok /\ u.val = <<>>, err |-> kv.ok /\ u.err]
  BY <1>1, <1>3, Zenon DEF GetConfEntry
<1>6. (kv.ok /\ u.err) = FALSE
  BY <1>4
<1>7. (kv.ok /\ u.val = <<>>) = set
  BY <1>2, <1>4
<1> QED BY <1>2, <1>4, <1>5, <1>6, <1>7, Zenon

\* GetConf makes of Tor's answer what Tor has.
LEMMA AnswerDecoded ==
  ASSUME NEW key \in Keys, NEW v \in ConfValues, v.valSetAndEmpty => v.val = <<>>,
         NEW msg, Answers(key, v, msg)
  PROVE  GetConfResult(Append(msg.data, msg.reply))
           = Value(<<[key |-> key, val |-> v.val, valSetAndEmpty |-> v.valSetAndEmpty]>>)
<1>1. PICK val \in Texts, set \in BOOLEAN : val = v.val /\ set = v.valSetAndEmpty
  BY DEF ConfValues
<1>2. key \in Texts /\ "=" \in Tokens
  BY KeyIsText, InLineIsInChars
<1>3. GetConfEntry(msg.reply) = [key |-> key, val |-> val, valSetAndEmpty |-> set, err |-> FALSE]
  <2>1. CASE val = <<>> /\ ~set
    <3>1. msg.reply = key
      BY <1>1, <2>1 DEF Answers
    <3>2. PartitionString(key, "=") = [head |-> key, tail |-> <<>>, ok |-> FALSE]
      BY <1>2, KeyHasNoSigns, PartitionNone DEF Texts
    <3>3. ~Quoted(<<>>)
      BY DEF Quoted
    <3>4. UnescapeSimpleQuotedStringIfNeeded(<<>>) = [val |-> <<>>, err |-> FALSE]
      BY <3>3 DEF UnescapeSimpleQuotedStringIfNeeded
    <3>5. PICK ok \in BOOLEAN : ok = FALSE
      OBVIOUS
    <3>6. /\ PartitionString(key, "=") = [head |-> key, tail |-> val, ok |-> ok]
          /\ UnescapeSimpleQuotedStringIfNeeded(val) = [val |-> val, err |-> FALSE]
          /\ set <=> ok /\ val = <<>>
      BY <2>1, <3>2, <3>4, <3>5
    <3>7. GetConfEntry(key) = [key |-> key, val |-> val, valSetAndEmpty |-> set, err |-> FALSE]
      BY <3>6, EntryOf
    <3> QED BY <3>1, <3>7
  <2>2. CASE ~(val = <<>> /\ ~set)
    <3>1. PICK str \in Texts :
            /\ msg.reply = key \o <<"=">> \o str
            /\ UnescapeSimpleQuotedStringIfNeeded(str) = [val |-> val, err |-> FALSE]
      <4>1. CASE msg.reply = key \o <<"=">> \o EscapeSimpleQuotedString(val)
        <5>1. PICK str \in Texts : str = EscapeSimpleQuotedString(val) /\ Quoted(str)
          BY QuotedContents
        <5>2. UnescapeSimpleQuotedString(str) = [val |-> val, err |-> FALSE]
          BY <5>1, RoundTrip
        <5> QED BY <4>1, <5>1, <5>2 DEF UnescapeSimpleQuotedStringIfNeeded
      <4>2. CASE Range(val) \cap Escapes = {} /\ msg.reply = key \o <<"=">> \o val
        <5>1. ~Quoted(val)
          <6>1. ASSUME Quoted(val) PROVE FALSE
            <7>1. val[1] = Quote /\ 1 \in DOMAIN val
              BY <6>1 DEF Quoted, Texts
            <7>2. Quote \in Range(val) /\ Quote \in Escapes
              BY <7>1 DEF Range, Escapes
            <7> QED BY <4>2, <7>2
          <6> QED BY <6>1
        <5> QED BY <4>2, <5>1 DEF UnescapeSimpleQuotedStringIfNeeded
      <4> QED BY <1>1, <2>2, <4>1, <4>2 DEF Answers
    <3>2. msg.reply = key \o (<<"=">> \o str)
      <4>1. PICK eq \in Seq(Tokens) : eq = <<"=">>
        BY <1>2, Tuples
      <4>2. (key \o eq) \o str = key \o (eq \o str)
        BY <1>2, ConcatAssociative DEF Texts
      <4> QED BY <3>1, <4>1, <4>2, Zenon
    <3>3. PartitionString(msg.reply, "=") = [head |-> key, tail |-> str, ok |-> TRUE]
      BY <1>2, <3>2, KeyHasNoSigns, PartitionFirst DEF Texts
    <3>4. GetConfEntry(msg.reply)
            = [key |-> key, val |-> val, valSetAndEmpty |-> set, err |-> FALSE]
      <4>1. PICK ok \in BOOLEAN : ok = TRUE
        OBVIOUS
      <4>2. PICK reply : reply = msg.reply
        OBVIOUS
      <4>3. PartitionString(reply, "=") = [head |-> key, tail |-> str, ok |-> ok]
        BY <3>3, <4>1, <4>2
      <4>4. set <=> ok /\ val = <<>>
        BY <1>1, <2>2, <4>1
      <4>5. UnescapeSimpleQuotedStringIfNeeded(str) = [val |-> val, err |-> FALSE]
        BY <3>1
      <4>6. GetConfEntry(reply) = [key |-> key, val |-> val, valSetAndEmpty |-> set, err |-> FALSE]
        BY <4>3, <4>4, <4>5, EntryOf
      <4> QED BY <4>2, <4>6
    <3> QED BY <3>4
  <2> QED BY <2>1, <2>2
<1>4. PICK data : data = Append(msg.data, msg.reply)
  OBVIOUS
<1>5. DOMAIN data = {1} /\ data[1] = msg.reply /\ 1 \in {1}
  <2>1. Append(<<>>, msg.reply) = <<msg.reply>>
    OBVIOUS
  <2> QED BY <1>4, <2>1 DEF Answers
<1>6. PICK entries : entries = [i \in DOMAIN data |-> GetConfEntry(data[i])]
  OBVIOUS
<1>7. DOMAIN entries = {1} /\ entries[1] = GetConfEntry(msg.reply)
  BY <1>5, <1>6
<1>8. GetConfResult(data) = Value([i \in DOMAIN entries |-> KeyVal(entries[i])])
  <2>1. ~ \E i \in DOMAIN entries : entries[i].err
    BY <1>3, <1>7
  <2> QED BY <1>6, <2>1, Zenon DEF GetConfResult
<1>9. KeyVal(entries[1]) = [key |-> key, val |-> val, valSetAndEmpty |-> set]
  BY <1>3, <1>7 DEF KeyVal
<1>10. [i \in DOMAIN entries |-> KeyVal(entries[i])]
         = <<[key |-> key, val |-> val, valSetAndEmpty |-> set]>>
  <2>1. PICK x : x = [key |-> key, val |-> val, valSetAndEmpty |-> set]
    OBVIOUS
  <2>2. [i \in DOMAIN entries |-> KeyVal(entries[i])] = [i \in {1} |-> x]
    BY <1>7, <1>9, <2>1
  <2>3. 1..1 = {1}
    OBVIOUS
  <2>4. <<x>> = [i \in 1..1 |-> x]
    OBVIOUS
  <2> QED BY <2>1, <2>2, <2>3, <2>4
<1> QED BY <1>1, <1>4, <1>8, <1>10

----------------------------------------------------------------------------
(* SETCONF *)

\* What Printf leaves alone.
LEMMA PrintfQuoted ==
  ASSUME NEW val \in Texts, "%" \notin Range(val)
  PROVE  Printf(EscapeSimpleQuotedStringIfNeeded(val)) = EscapeSimpleQuotedStringIfNeeded(val)
<1>1. PICK T \in SUBSET Tokens : T = Tokens \ {"%"}
  OBVIOUS
<1>2. {Backslash, Quote, "r", "n"} \subseteq T
  BY <1>1 DEF Tokens, Literals, Backslash, Quote
<1>3. val \in Seq(T)
  <2>1. \A i \in 1..Len(val) : val[i] \in T
    BY <1>1 DEF Range, Texts
  <2> QED BY <2>1 DEF Texts
<1>4. PICK q \in Seq(T) : q = EscapeSimpleQuotedStringIfNeeded(val)
  <2>1. EscapeSimpleQuotedString(val) \in Seq(T)
    BY <1>2, <1>3, EscapedOver
  <2> QED BY <1>3, <2>1 DEF EscapeSimpleQuotedStringIfNeeded
<1>5. q \in Texts /\ \A i \in 1..Len(q) : q[i] # "%"
  BY <1>1 DEF Texts
<1> QED BY <1>4, <1>5, PrintfSame

\* Tor reads SETCONF of one entry as it was meant.
LEMMA SetConfRead ==
  ASSUME NEW entries \in Seq([key : Keys, val : Seq(STRING), valSetAndEmpty : BOOLEAN]),
         Len(entries) = 1, entries[1].valSetAndEmpty => entries[1].val = <<>>
  PROVE  \E v \in ConfValues :
           /\ TorSetConf(sendSetConf("SETCONF", entries)) = [conf EXCEPT ![entries[1].key] = v]
           /\ v.valSetAndEmpty => v.val = <<>>
           /\ NoPercent(entries[1].val) =>
                v.val = entries[1].val /\ v.valSetAndEmpty = entries[1].valSetAndEmpty
<1>1. PICK entry \in [key : Keys, val : Seq(STRING), valSetAndEmpty : BOOLEAN] :
        entry = entries[1]
  <2>1. PICK T : T = [key : Keys, val : Seq(STRING), valSetAndEmpty : BOOLEAN]
    OBVIOUS
  <2>2. entries \in Seq(T)
    BY <2>1
  <2>3. entries[1] \in T
    BY <2>2
  <2> QED BY <2>1, <2>3
<1>2. PICK key \in Texts, val \in Texts : key = entry.key /\ val = entry.val
  <2>1. entry.key \in Keys /\ entry.val \in Seq(STRING)
    BY <1>1
  <2> QED BY <2>1, KeyIsText, InLineIsInChars, WiderSequences DEF Texts
<1>3. \A i \in 1..Len(key) : key[i] # "=" /\ key[i] # "%"
  <2>1. entry.key \in Keys
    BY <1>1
  <2> QED BY <1>2, <2>1, KeyHasNoSigns
<1>4. PICK w \in Texts, sp \in Texts, eq \in Texts :
        /\ w = <<"SETCONF">> /\ sp = <<SP>> /\ eq = <<"=">>
        /\ Len(w) = 1 /\ w[1] = "SETCONF" /\ Len(sp) = 1 /\ sp[1] = SP
        /\ Len(eq) = 1 /\ eq[1] = "="
  <2>1. "SETCONF" \in Tokens /\ SP \in Tokens /\ "=" \in Tokens
    BY InLineIsInChars DEF Tokens, Literals
  <2>2. \A a \in Tokens : <<a>> \in Texts /\ Len(<<a>>) = 1 /\ <<a>>[1] = a
    BY DEF Texts
  <2>3. PICK w \in Texts : w = <<"SETCONF">> /\ Len(w) = 1 /\ w[1] = "SETCONF"
    BY <2>1, <2>2
  <2>4. PICK sp \in Texts : sp = <<SP>> /\ Len(sp) = 1 /\ sp[1] = SP
    BY <2>1, <2>2
  <2>5. PICK eq \in Texts : eq = <<"=">> /\ Len(eq) = 1 /\ eq[1] = "="
    BY <2>1, <2>2
  <2> QED BY <2>3, <2>4, <2>5
<1>5. "SETCONF" # SP /\ "SETCONF" # "%" /\ SP # "%" /\ "=" # "%"
  BY DEF SP
<1>6. PICK q \in Texts : q = EscapeSimpleQuotedStringIfNeeded(val)
  <2>1. EscapeSimpleQuotedString(val) \in Texts
    BY EscapeText, InLineIsInChars, WiderSequences DEF Texts
  <2> QED BY <2>1 DEF EscapeSimpleQuotedStringIfNeeded
<1>7. PICK second \in Texts : second = key \o (IF ValSet(entry) THEN eq \o q ELSE <<>>)
  <2>1. eq \o q \in Texts /\ <<>> \in Texts
    BY Concat DEF Texts
  <2>2. key \o (eq \o q) \in Texts /\ key \o <<>> \in Texts
    BY <2>1, Concat DEF Texts
  <2> QED BY <2>2
<1>8. PICK line1 \in Texts, sep \in Texts : line1 = w \o sep /\ sep = sp \o second
  BY Concat DEF Texts
<1>9. sendSetConf("SETCONF", entries) = Printf(line1)
  <2>1. PICK others :
          others = [i \in DOMAIN entries |->
                      entries[i].key \o (IF ValSet(entries[i])
                        THEN <<"=">> \o EscapeSimpleQuotedStringIfNeeded(entries[i].val)
                        ELSE <<>>)]
    OBVIOUS
  <2>2. DOMAIN entries = 1..1
    <3>1. PICK T : T = [key : Keys, val : Seq(STRING), valSetAndEmpty : BOOLEAN]
      OBVIOUS
    <3> QED BY <3>1
  <2>3. \A i \in 1..1 : i = 1
    OBVIOUS
  <2>4. \A i \in 1..1 :
          entries[i].key \o (IF ValSet(entries[i])
            THEN <<"=">> \o EscapeSimpleQuotedStringIfNeeded(entries[i].val)
            ELSE <<>>) = second
    BY <1>1, <1>2, <1>4, <1>6, <1>7, <2>3, Zenon
  <2>5. others = [i \in 1..1 |-> second]
    BY <2>1, <2>2, <2>4, Zenon
  <2>6. others = <<second>>
    BY <2>5
  <2>7. Words(<<w>> \o <<second>>) = line1
    <3>1. Join(<<w>> \o <<second>>, SP) = w \o (<<SP>> \o second)
      BY JoinTwo, InLineIsInChars DEF Texts
    <3> QED BY <1>4, <1>8, <3>1, Zenon DEF Words
  <2> QED BY <1>4, <2>1, <2>6, <2>7, Zenon DEF sendSetConf
<1>10. PICK tail \in Texts : tail = Printf(second)
  BY PrintfLength
<1>11. Printf(line1) = w \o (sp \o tail)
  <2>1. \A i \in 1..Len(w) : w[i] # "%"
    BY <1>4, <1>5
  <2>2. \A i \in 1..Len(sp) : sp[i] # "%"
    BY <1>4, <1>5
  <2>3. Printf(w \o sep) = w \o Printf(sep)
    BY <2>1, PrintfAfter
  <2>4. Printf(sp \o second) = sp \o Printf(second)
    BY <2>2, PrintfAfter
  <2> QED BY <1>8, <1>10, <2>3, <2>4
<1>12. PartitionString(Printf(line1), SP).tail = tail
  <2>1. \A i \in 1..Len(w) : w[i] # SP
    BY <1>4, <1>5
  <2>2. PartitionString(w \o (<<SP>> \o tail), SP) = [head |-> w, tail |-> tail, ok |-> TRUE]
    BY <2>1, PartitionFirst, InLineIsInChars DEF Texts
  <2> QED BY <1>4, <1>11, <2>2
<1>13. ASSUME NEW v \in ConfValues,
              TorSetConf(Printf(line1)) = [conf EXCEPT ![key] = v],
              v.valSetAndEmpty => v.val = <<>>,
              "%" \notin Range(val) => v.val = val /\ v.valSetAndEmpty = entry.valSetAndEmpty
       PROVE  \E x \in ConfValues :
                /\ TorSetConf(sendSetConf("SETCONF", entries)) = [conf EXCEPT ![entries[1].key] = x]
                /\ x.valSetAndEmpty => x.val = <<>>
                /\ NoPercent(entries[1].val) =>
                     x.val = entries[1].val /\ x.valSetAndEmpty = entries[1].valSetAndEmpty
  <2>1. TorSetConf(sendSetConf("SETCONF", entries)) = [conf EXCEPT ![entries[1].key] = v]
    BY <1>1, <1>2, <1>9, <1>13, Zenon
  <2>2. NoPercent(entries[1].val) =>
          v.val = entries[1].val /\ v.valSetAndEmpty = entries[1].valSetAndEmpty
    BY <1>1, <1>2, <1>13, Zenon DEF NoPercent
  <2> QED BY <1>13, <2>1, <2>2
<1>14. CASE ValSet(entry)
  <2>1. second = key \o (<<"=">> \o q)
    BY <1>4, <1>7, <1>14, Zenon
  <2>2. PICK pq \in Texts : pq = Printf(q)
    BY PrintfLength
  <2>3. tail = key \o (<<"=">> \o pq)
    <3>1. \A i \in 1..Len(eq) : eq[i] # "%"
      BY <1>4, <1>5
    <3>2. Printf(eq \o q) = eq \o pq
      BY <2>2, <3>1, PrintfAfter
    <3>3. eq \o q \in Texts
      BY Concat DEF Texts
    <3>4. Printf(key \o (eq \o q)) = key \o Printf(eq \o q)
      BY <1>3, <3>3, PrintfAfter
    <3> QED BY <1>4, <1>10, <2>1, <3>2, <3>4, Zenon
  <2>4. PICK ok \in BOOLEAN : ok = TRUE
    OBVIOUS
  <2>5. PartitionString(tail, "=") = [head |-> key, tail |-> pq, ok |-> ok]
    <3>1. PartitionString(key \o (<<"=">> \o pq), "=") = [head |-> key, tail |-> pq, ok |-> TRUE]
      <4>1. PICK ch \in Tokens : ch = "="
        BY InLineIsInChars
      <4>2. key \in Seq(Tokens) /\ pq \in Seq(Tokens) /\ \A i \in 1..Len(key) : key[i] # ch
        BY <1>3, <4>1 DEF Texts
      <4>3. PartitionString(key \o (<<ch>> \o pq), ch) = [head |-> key, tail |-> pq, ok |-> TRUE]
        BY <4>2, PartitionFirst
      <4> QED BY <4>1, <4>3, Zenon
    <3> QED BY <2>3, <2>4, <3>1
  <2>0. PICK read \in Texts : read = TorValue(pq)
    BY TorValueText
  <2>6. PICK set \in BOOLEAN : set = (ok /\ read = <<>>)
    BY <2>4
  <2>7. PICK v \in ConfValues : v = [valSetAndEmpty |-> set, val |-> read]
    BY DEF ConfValues
  <2>8. TorSetConf(Printf(line1)) = [conf EXCEPT ![key] = v]
    <3>1. PICK text : text = Printf(line1)
      OBVIOUS
    <3>2. tail = PartitionString(text, SP).tail
      BY <1>12, <3>1
    <3>3. TorSetConf(text) = [conf EXCEPT ![key] = [valSetAndEmpty |-> set, val |-> read]]
      <4>1. PICK e : e = PartitionString(tail, "=")
        OBVIOUS
      <4>2. e.head = key /\ e.tail = pq /\ e.ok = ok
        BY <2>5, <4>1
      <4>3. set = (e.ok /\ TorValue(e.tail) = <<>>) /\ TorValue(e.tail) = read
        BY <2>0, <2>6, <4>2, Zenon
      <4>4. TorSetConf(text)
              = [conf EXCEPT ![e.head] = [valSetAndEmpty |-> set, val |-> TorValue(e.tail)]]
        <5>1. e = PartitionString(PartitionString(text, SP).tail, "=")
          BY <3>2, <4>1
        <5> QED BY <4>3, <5>1, Zenon DEF TorSetConf
      <4> QED BY <4>2, <4>3, <4>4, Zenon
    <3> QED BY <2>7, <3>1, <3>3
  <2>9. ASSUME "%" \notin Range(val)
        PROVE  v.val = val /\ v.valSetAndEmpty = entry.valSetAndEmpty
    <3>1. pq = q
      BY <1>6, <2>2, <2>9, PrintfQuoted
    <3>2. read = val
      BY <1>6, <2>0, <3>1, TorReadsValue
    <3>3. PICK b \in BOOLEAN : b = entry.valSetAndEmpty
      BY <1>1
    <3>4. set <=> b
      <4>1. val = <<>> => b
        BY <1>2, <1>14, <3>3 DEF ValSet
      <4>2. b => val = <<>>
        BY <1>1, <1>2, <3>3
      <4> QED BY <2>4, <2>6, <3>2, <4>1, <4>2
    <3>5. set = b
      BY <3>4
    <3> QED BY <2>7, <3>2, <3>3, <3>5
  <2>10. v.valSetAndEmpty => v.val = <<>>
    BY <2>6, <2>7
  <2> QED BY <1>13, <2>8, <2>9, <2>10
<1>15. CASE ~ValSet(entry)
  <2>1. second = key
    <3>1. second = key \o <<>>
      BY <1>7, <1>15, Zenon
    <3> QED BY <3>1 DEF Texts
  <2>2. tail = key
    BY <1>3, <1>10, <2>1, PrintfSame
  <2>0. PICK ok \in BOOLEAN, set \in BOOLEAN : ok = FALSE /\ set = FALSE
    OBVIOUS
  <2>10. PICK none \in Texts : none = <<>>
    <3>1. <<>> \in Texts
      BY DEF Texts
    <3> QED BY <3>1
  <2>3. ok = FALSE /\ set = FALSE /\ none = <<>>
    BY <2>0, <2>10
  <2>4. PartitionString(tail, "=") = [head |-> key, tail |-> none, ok |-> ok]
    BY <1>3, <2>2, <2>3, PartitionNone DEF Texts
  <2>5. none = TorValue(none)
    BY <2>3 DEF TorValue
  <2>6. PICK v \in ConfValues : v = [valSetAndEmpty |-> set, val |-> none]
    BY DEF ConfValues
  <2>7. TorSetConf(Printf(line1)) = [conf EXCEPT ![key] = v]
    <3>1. set = (ok /\ none = <<>>)
      BY <2>3
    <3>2. PICK text : text = Printf(line1)
      OBVIOUS
    <3>3. tail = PartitionString(text, SP).tail
      BY <1>12, <3>2
    <3>4. TorSetConf(text) = [conf EXCEPT ![key] = [valSetAndEmpty |-> set, val |-> none]]
      <4>1. PICK e : e = PartitionString(tail, "=")
        OBVIOUS
      <4>2. e.head = key /\ e.tail = none /\ e.ok = ok
        BY <2>4, <4>1
      <4>3. set = (e.ok /\ TorValue(e.tail) = <<>>) /\ TorValue(e.tail) = none
        BY <2>5, <3>1, <4>2, Zenon
      <4>4. TorSetConf(text)
              = [conf EXCEPT ![e.head] = [valSetAndEmpty |-> set, val |-> TorValue(e.tail)]]
        <5>1. e = PartitionString(PartitionString(text, SP).tail, "=")
          BY <3>3, <4>1
        <5> QED BY <4>3, <5>1, Zenon DEF TorSetConf
      <4> QED BY <4>2, <4>3, <4>4, Zenon
    <3> QED BY <2>6, <3>2, <3>4
  <2>8. v.val = val /\ v.valSetAndEmpty = entry.valSetAndEmpty
    <3>1. val = <<>> /\ entry.valSetAndEmpty = FALSE
      BY <1>1, <1>2, <1>15 DEF ValSet
    <3> QED BY <2>3, <2>6, <3>1
  <2>9. v.valSetAndEmpty => v.val = <<>>
    BY <2>3, <2>6
  <2> QED BY <1>13, <2>7, <2>8, <2>9
<1> QED BY <1>14, <1>15

----------------------------------------------------------------------------
(* The answer that is on its way *)

\* The lines of a message without a bad one are all read.
LEMMA CleanWellFormed ==
  ASSUME NEW str, NEW end, NEW r, NEW msgs, NEW brk, NEW resps, NEW pos,
         Wire(str, end, r, msgs, brk, resps, pos), str # <<>>,
         msgs[str[1].msg].bad = "none"
  PROVE  WellFormedLine(str[1].text, r)
<1>1. PICK m, p, msg : m = str[1].msg /\ p = pos[1] /\ msg = msgs[m]
  OBVIOUS
<1>2. /\ msg \in WireMessages /\ p \in 1..Len(MessageLines(msg)) /\ p \in Nat
      /\ InMessage(msg, m, p, r) /\ str[1].text = MessageLines(msg)[p]
      /\ Boundary(msg, p)
  BY <1>1, Heading DEF InMessage
<1>3. msg.bad = "none" /\ BadLine(msg) = <<>>
  BY <1>1 DEF BadLine
<1>4. ASSUME NEW k \in 1..Len(msg.data), EntryAt(msg, k, p)
      PROVE  WellFormedLine(MessageLines(msg)[p], r)
  BY <1>2, <1>4, EntryWellFormed
<1>5. ASSUME LastAt(msg, p)
      PROVE  WellFormedLine(MessageLines(msg)[p], r)
  <2>1. PICK d \in Nat : d = DataLines(msg)
    <3>1. Len(msg.data) \in Nat
      BY <1>2 DEF WireMessages, Messages
    <3>2. Len(msg.data) + 1 \in 1..(Len(msg.data) + 1)
      BY <3>1
    <3> QED BY <1>2, <3>2, MessageLinesAre DEF DataLines
  <2>2. p # DataLines(msg) + 2
    <3>1. Len(MessageLines(msg)) = d + Len(BadLine(msg)) + 1
      BY <1>2, <2>1, MessageLinesAre
    <3>2. Len(BadLine(msg)) = 0
      BY <1>3
    <3>3. p = Len(MessageLines(msg))
      BY <1>5 DEF LastAt
    <3> QED BY <2>1, <3>1, <3>2, <3>3
  <2>3. r = None \/ r.code = msg.code
    BY <1>2, <2>2 DEF InMessage
  <2>4. PICK a \in Chars, sp \in Chars, text \in Seq(Chars) :
          a = msg.code /\ sp = SP /\ text = msg.reply
    <3>1. msg.code \in Chars /\ SP \in Chars /\ msg.reply \in Seq(Chars)
      BY <1>2, CodeIsAChar, CodesAre DEF WireMessages, Messages
    <3> QED BY <3>1
  <2>5. PICK t : t = MessageLines(msg)[p]
    OBVIOUS
  <2>6. t = <<a, sp>> \o text
    BY <1>3, <1>5, <2>4, <2>5, Zenon DEF LastAt, LastLine, SP
  <2>7. Len(t) >= 2 /\ t[1] = a /\ t[2] = sp
    BY <2>6, PairLine
  <2>8. a \in Codes
    BY <1>2, <2>4, CodeIsAChar
  <2> QED BY <2>3, <2>4, <2>5, <2>7, <2>8 DEF WellFormedLine
<1> QED BY <1>1, <1>2, <1>3, <1>4, <1>5, Meeting DEF BadAt

\* Messages are read in the order of their numbers.
LEMMA Ascending ==
  ASSUME NEW str \in Seq(Items), NEW msgs \in Seq(WireMessages), NEW end, NEW pos,
         Placed(str, msgs, end, pos), NEW j \in 1..Len(str)
  PROVE  str[1].msg <= str[j].msg
<1>1. PICK l \in Nat : l = Len(str)
  OBVIOUS
<1>2. PICK n : n = [i \in 1..l |-> str[i].msg]
  OBVIOUS
<1>3. \A i \in 1..l : n[i] = str[i].msg /\ n[i] \in Nat
  BY <1>1, <1>2 DEF Placed
<1>4. ASSUME NEW i \in Nat, i \in 1..l, i + 1 \in 1..l
      PROVE  n[i] <= n[i + 1]
  <2>1. PICK k \in 1..l : k = i + 1
    BY <1>4
  <2>2. PICK p \in Nat, last \in Nat :
          p = pos[i] /\ last = Len(Own(msgs, str[i].msg)) /\ p \in 1..last
    <3>1. Len(Own(msgs, str[i].msg)) \in Nat /\ pos[i] \in 1..Len(Own(msgs, str[i].msg))
          /\ pos[i] \in Nat
      BY <1>1, <1>4, OwnLines DEF Placed
    <3> QED BY <3>1
  <2>3. i <= k /\ k - i = 1
    BY <2>1
  <2>4. /\ p + 1 <= last => str[k].msg = str[i].msg
        /\ p + 1 = last + 1 => str[k].msg = str[i].msg + 1
    <3>1. i \in 1..Len(str) /\ k \in 1..Len(str)
      BY <1>1, <1>4
    <3>2. /\ pos[i] + (k - i) <= Len(Own(msgs, str[i].msg)) => str[k].msg = str[i].msg
          /\ pos[i] + (k - i) = Len(Own(msgs, str[i].msg)) + 1 => str[k].msg = str[i].msg + 1
      BY <2>3, <3>1, PlacedFrom
    <3> QED BY <2>2, <2>3, <3>2
  <2>5. p + 1 <= last \/ p + 1 = last + 1
    BY <2>2
  <2>6. n[i] <= n[k]
    <3>1. n[i] = str[i].msg /\ n[k] = str[k].msg /\ n[i] \in Nat
      BY <1>3, <1>4
    <3>2. n[k] = n[i] \/ n[k] = n[i] + 1
      BY <2>4, <2>5, <3>1, Zenon
    <3> QED BY <3>1, <3>2
  <2> QED BY <2>1, <2>6
<1>5. PICK S : S = {i \in Nat : i + 1 \in 1..l => n[1] <= n[i + 1]}
  OBVIOUS
<1>6. 0 \in S
  <2>1. 0 + 1 = 1
    OBVIOUS
  <2> QED BY <1>3, <1>5, <2>1
<1>7. ASSUME NEW i \in Nat, i \in S
      PROVE  i + 1 \in S
  <2> SUFFICES ASSUME (i + 1) + 1 \in 1..l PROVE n[1] <= n[(i + 1) + 1]
    BY <1>5
  <2>1. PICK k \in 1..l : k = i + 1
    OBVIOUS
  <2>2. n[1] <= n[k]
    BY <1>5, <1>7, <2>1
  <2>3. n[k] <= n[k + 1]
    BY <1>4, <2>1
  <2>4. n[1] \in Nat /\ n[k] \in Nat /\ n[k + 1] \in Nat
    <3>1. 1 \in 1..l /\ k + 1 \in 1..l
      BY <2>1
    <3> QED BY <1>3, <3>1
  <2>5. n[1] <= n[k + 1]
    BY <2>2, <2>3, <2>4
  <2> QED BY <2>1, <2>5
<1>8. j - 1 \in S /\ (j - 1) + 1 = j
  BY <1>6, <1>7, Induction
<1>9. 1 \in 1..l
  BY <1>1
<1> QED BY <1>1, <1>3, <1>5, <1>8, <1>9

\* The lines of the one are among those of the other.
SomeOf(a, b) == \A i \in 1..Len(a) : \E j \in 1..Len(b) : a[i] = b[j]

LEMMA SubSeqSomeOf ==
  ASSUME NEW str \in Seq(Items), NEW m \in 1..(Len(str) + 1), NEW n \in 0..Len(str)
  PROVE  SomeOf(SubSeq(str, m, n), str)
<1>1. PICK s : s = SubSeq(str, m, n)
  OBVIOUS
<1>2. /\ Len(s) = IF m <= n THEN n - m + 1 ELSE 0
      /\ \A i \in 1..(n - m + 1) : s[i] = str[m + i - 1]
  <2>1. \A i \in m..n : str[i] \in Items
    OBVIOUS
  <2> QED BY <1>1, <2>1, SubSeqProperties
<1>3. ASSUME NEW i \in 1..Len(s)
      PROVE  \E j \in 1..Len(str) : s[i] = str[j]
  <2>1. i \in 1..(n - m + 1) /\ m + i - 1 \in 1..Len(str)
    BY <1>2
  <2> QED BY <1>2, <2>1
<1> QED BY <1>1, <1>3 DEF SomeOf

LEMMA TailSomeOf ==
  ASSUME NEW str \in Seq(Items), str # <<>>
  PROVE  SomeOf(Tail(str), str)
<1>1. PICK rest : rest = Tail(str) /\ Left(str, 1, rest)
  BY TailIsLeft
<1>2. \A i \in 1..Len(rest) : 1 + i \in 1..Len(str) /\ rest[i] = str[1 + i]
  BY <1>1 DEF Left
<1> QED BY <1>1, <1>2 DEF SomeOf

----------------------------------------------------------------------------
(* The inductive invariant: no answer but that of the call is on its way,  *)
(* and the answer is right.                                                *)

\* Tor keeps the protocol in the session.
Quiet ==
  /\ \A n \in 1..Len(session.calls) : session.calls[n].answer.bad = "none"
  /\ \A n \in 1..Len(session.events) : session.events[n].bad = "none"

NilOrSet == \A key \in Keys : conf[key].valSetAndEmpty => conf[key].val = <<>>

\* The message is what Tor answers to the call.
AnswersCall(msg) ==
  /\ Request(call).op = "GetConf" =>
       Answers(Request(call).keys[1], conf[Request(call).keys[1]], msg)
  /\ Request(call).op = "SetConf" => msg.code = StatusOk
  /\ Request(call).op \notin {"SetConf", "GetConf"} => msg = session.calls[call].answer

\* The messages of which something is unread.
MessagesOf(str, part) ==
  {str[i].msg : i \in 1..Len(str)} \cup (IF part = NoLine THEN {} ELSE {part.msg})

Unread == MessagesOf(stream, partial)

\* What is unread is events and message a, the call's answer.
Pending(a) ==
  \A m \in Unread :
    sent[m].code # StatusAsyncEvent =>
      phase = "waiting" /\ answered /\ m = a /\ AnswersCall(sent[a])

PendingInv == ~broken => \E a : Pending(a)

QuietInv == ~broken /\ \A i \in 1..Len(sent) : sent[i].bad = "none"

ConfInv == NilOrSet /\ PendingInv /\ (Quiet => QuietInv)

\* The sessions that touch the configuration are quiet.
LEMMA ConfIsQuiet ==
  ASSUME SessionOK, NEW n \in 1..Len(session.calls), Request(n).op \in {"SetConf", "GetConf"}
  PROVE  Quiet
<1>1. PICK calls \in Seq(Range(session.calls)), evs \in Seq(Range(session.events)) :
        calls = session.calls /\ evs = session.events
  BY SessionAssumption DEF SessionOK
<1>2. \A i \in 1..Len(calls) : calls[i] \in Range(session.calls)
  OBVIOUS
<1>3. \A i \in 1..Len(evs) : evs[i] \in Range(session.events)
  OBVIOUS
<1>4. \E c \in Range(session.calls) : c.request.op \in {"SetConf", "GetConf"}
  BY <1>1, <1>2 DEF Request
<1>5. /\ \A c \in Range(session.calls) : c.answer.bad = "none"
      /\ \A e \in Range(session.events) : e.bad = "none"
  BY <1>4, ConfAssumption DEF SessionOK
<1> QED BY <1>1, <1>2, <1>3, <1>5 DEF Quiet

\* No line is refused.
LEMMA NoError ==
  ASSUME Inv, QuietInv
  PROVE  ~ReadError
<1> SUFFICES ASSUME ReadError PROVE FALSE
  OBVIOUS
<1>1. stream # <<>> /\ ~WellFormedLine(stream[1].text, resp)
  BY LineIs DEF ReadError, Inv
<1>2. PICK full, pos : /\ Wire(full, eof, resp, sent, broken, responses, pos)
                       /\ full # <<>> /\ full[1] = stream[1]
  BY <1>1, HeadSeen DEF Inv
<1>3. full[1].msg \in 1..Len(sent)
  BY <1>2, Heading
<1>4. sent[full[1].msg].bad = "none"
  BY <1>3 DEF QuietInv
<1> QED BY <1>1, <1>2, <1>4, CleanWellFormed

\* What is unread is of the lines that were written.
LEMMA UnreadOf ==
  ASSUME NEW str, NEW part, NEW full, Continued(str, part, full),
         NEW m \in MessagesOf(str, part)
  PROVE  \E i \in 1..Len(full) : m = full[i].msg
<1>1. CASE \E i \in 1..Len(str) : m = str[i].msg
  <2>1. PICK i \in 1..Len(str) : m = str[i].msg
    BY <1>1
  <2>2. full[i] = str[i] /\ i \in 1..Len(full)
    BY DEF Continued
  <2> QED BY <2>1, <2>2
<1>2. CASE part # NoLine /\ m = part.msg
  <2>1. /\ Len(full) = Len(str) + 1 /\ Len(str) \in Nat
        /\ part \in PiecesOf(full[Len(full)])
    BY <1>2 DEF Continued
  <2>2. part.msg = full[Len(full)].msg
    BY <2>1 DEF PiecesOf
  <2>3. Len(full) \in 1..Len(full)
    BY <2>1
  <2> QED BY <1>2, <2>2, <2>3
<1> QED BY <1>1, <1>2 DEF MessagesOf

\* Reading leaves nothing else on its way.
LEMMA PendingShrinks ==
  ASSUME PendingInv, Unread' \subseteq Unread,
         UNCHANGED <<sent, broken, phase, answered, session, call, conf>>
  PROVE  PendingInv'
<1> SUFFICES ASSUME ~broken PROVE \E a : Pending(a)'
  BY DEF PendingInv
<1>1. PICK a : Pending(a)
  BY DEF PendingInv
<1>2. ASSUME NEW m \in Unread', sent'[m].code # StatusAsyncEvent
      PROVE  phase' = "waiting" /\ answered' /\ m = a /\ AnswersCall(sent[a])'
  <2>1. phase = "waiting" /\ answered /\ m = a /\ AnswersCall(sent[a])
    BY <1>1, <1>2 DEF Pending
  <2>2. AnswersCall(sent[a])'
    BY <2>1 DEF AnswersCall, Request
  <2> QED BY <2>1, <2>2
<1>3. Pending(a)'
  BY <1>2 DEF Pending
<1> QED BY <1>3

\* When some of the lines are left, and the piece is not another, nothing else
\* is unread.
LEMMA UnreadShrinks ==
  ASSUME SomeOf(stream', stream),
         partial' # NoLine => partial' = partial \/ \E i \in 1..Len(stream) : partial'.msg = stream[i].msg
  PROVE  Unread' \subseteq Unread
<1> SUFFICES ASSUME NEW m \in Unread' PROVE m \in Unread
  OBVIOUS
<1>1. CASE \E i \in 1..Len(stream') : m = stream'[i].msg
  BY <1>1 DEF SomeOf, Unread, MessagesOf
<1>2. CASE partial' # NoLine /\ m = partial'.msg
  BY <1>2 DEF Unread, MessagesOf
<1> QED BY <1>1, <1>2 DEF Unread, MessagesOf, NoLine

\* Every reading, and the end of the connection, leaves some of the messages.
LEMMA ReadsSomeOf ==
  ASSUME Inv, ReadMid \/ ReadDot \/ ReadLast \/ ReadTorn \/ ReadEOF \/ Cut
  PROVE  Unread' \subseteq Unread
<1>1. stream \in Seq(Items)
  BY DEF Inv, WireInv, Seen, Continued
<1>2. CASE ReadMid \/ ReadLast
  <2>1. SomeOf(stream', stream) /\ partial' = partial
    BY <1>1, <1>2, TailSomeOf DEF ReadMid, ReadLast
  <2> QED BY <2>1, UnreadShrinks
<1>3. CASE ReadDot
  <2>1. PICK n \in 2..Len(stream) : stream' = SubSeq(stream, n + 1, Len(stream))
    BY <1>3 DEF ReadDot
  <2>2. n + 1 \in 1..(Len(stream) + 1) /\ Len(stream) \in 0..Len(stream)
    BY <1>1
  <2>3. SomeOf(stream', stream)
    BY <1>1, <2>1, <2>2, SubSeqSomeOf
  <2>4. partial' = partial
    BY <1>3 DEF ReadDot
  <2> QED BY <2>3, <2>4, UnreadShrinks
<1>4. CASE ReadEOF \/ ReadTorn
  <2>1. stream' = <<>> /\ partial' = NoLine
    BY <1>4 DEF ReadEOF, ReadTorn
  <2>2. SomeOf(stream', stream)
    BY <2>1 DEF SomeOf
  <2> QED BY <2>1, <2>2, UnreadShrinks
<1>5. CASE Cut
  <2>1. PICK n \in 0..Len(stream) :
          /\ stream' = SubSeq(stream, 1, n)
          /\ \/ partial' = NoLine
             \/ n < Len(stream) /\ partial' \in PiecesOf(stream[n + 1])
    BY <1>5 DEF Cut
  <2>2. 1 \in 1..(Len(stream) + 1)
    BY <1>1
  <2>3. SomeOf(stream', stream)
    BY <1>1, <2>1, <2>2, SubSeqSomeOf
  <2>4. ASSUME partial' # NoLine
        PROVE  \E i \in 1..Len(stream) : partial'.msg = stream[i].msg
    <3>1. n + 1 \in 1..Len(stream)
      BY <1>1, <2>1, <2>4
    <3>2. partial'.msg = stream[n + 1].msg
      BY <2>1, <2>4 DEF PiecesOf
    <3> QED BY <3>1, <3>2
  <2> QED BY <2>3, <2>4, UnreadShrinks
<1> QED BY <1>2, <1>3, <1>4, <1>5

\* What is written goes behind what is unread.
LEMMA WrittenBehind ==
  ASSUME Inv, NEW msg \in WireMessages, Write(msg)
  PROVE  /\ Len(sent) \in Nat /\ Len(sent') = Len(sent) + 1
         /\ sent'[Len(sent) + 1] = msg
         /\ \A i \in 1..Len(sent) : sent'[i] = sent[i]
         /\ \A i \in 1..Len(stream') :
              \/ i \in 1..Len(stream) /\ stream'[i] = stream[i] /\ stream[i].msg \in 1..Len(sent)
              \/ stream'[i].msg = Len(sent) + 1
<1>1. PICK whole, pos : Wire(stream, FALSE, resp, sent, broken, whole, pos)
  <2>1. PICK full, whole, pos :
          /\ Seen(stream, partial, eof, torn, responses, full, whole)
          /\ Wire(full, eof, resp, sent, broken, whole, pos)
    BY DEF Inv, WireInv
  <2>2. eof = FALSE
    BY DEF Write, Inv, SessionOK
  <2>3. full = stream
    BY <2>1, <2>2 DEF Seen
  <2> QED BY <2>1, <2>2, <2>3, Zenon
<1>2. /\ stream \in Seq(Items) /\ sent \in Seq(WireMessages)
      /\ \A i \in 1..Len(stream) : stream[i].msg \in 1..Len(sent)
  BY <1>1 DEF Wire, Placed
<1>3. /\ Len(sent) \in Nat /\ Len(sent') = Len(sent) + 1 /\ sent'[Len(sent) + 1] = msg
      /\ \A i \in 1..Len(sent) : sent'[i] = sent[i]
  BY <1>2, AppendProperties DEF Write
<1>4. PICK own \in Lines : own = MessageLines(msg)
  BY MessageLinesAre
<1>5. PICK k \in Nat : k = Len(sent) + 1
  BY <1>3
<1>6. PICK added : added = [i \in 1..Len(own) |-> [text |-> own[i], msg |-> k]]
  OBVIOUS
<1>7. added \in Seq(Items) /\ Len(added) = Len(own) /\ \A i \in 1..Len(own) : added[i].msg = k
  <2>1. Len(own) \in Nat /\ \A i \in 1..Len(own) : own[i] \in Seq(Chars)
    BY DEF Lines
  <2>2. \A i \in 1..Len(own) : [text |-> own[i], msg |-> k] \in Items
    BY <2>1 DEF Items
  <2> QED BY <1>6, <2>1, <2>2
<1>8. stream' = stream \o added
  <2>1. DOMAIN own = 1..Len(own)
    BY DEF Lines
  <2> QED BY <1>4, <1>5, <1>6, <2>1, Zenon DEF Write
<1>9. PICK str : str = stream \o added
  OBVIOUS
<1>10. /\ Len(str) = Len(stream) + Len(added) /\ Len(stream) \in Nat /\ Len(added) \in Nat
       /\ \A i \in 1..Len(stream) : str[i] = stream[i]
       /\ \A i \in 1..Len(added) : str[Len(stream) + i] = added[i]
  <2>1. PICK a \in Seq(Items), b \in Seq(Items) : a = stream /\ b = added
    BY <1>2, <1>7
  <2>2. /\ Len(a \o b) = Len(a) + Len(b) /\ Len(a) \in Nat /\ Len(b) \in Nat
        /\ \A i \in 1..Len(a) : (a \o b)[i] = a[i]
        /\ \A i \in 1..Len(b) : (a \o b)[Len(a) + i] = b[i]
    BY Concat
  <2> QED BY <1>9, <2>1, <2>2
<1>11. ASSUME NEW i \in 1..Len(str)
       PROVE  \/ i \in 1..Len(stream) /\ str[i] = stream[i] /\ stream[i].msg \in 1..Len(sent)
              \/ str[i].msg = k
  <2>1. CASE i \in 1..Len(stream)
    BY <1>2, <1>10, <2>1
  <2>2. CASE i \notin 1..Len(stream)
    <3>1. PICK j \in 1..Len(added) : i = Len(stream) + j
      <4>1. i - Len(stream) \in 1..Len(added) /\ i = Len(stream) + (i - Len(stream))
        BY <1>10, <2>2
      <4> QED BY <4>1
    <3> QED BY <1>7, <1>10, <3>1
  <2> QED BY <2>1, <2>2
<1> QED BY <1>3, <1>5, <1>8, <1>9, <1>11

LEMMA UnreadWritten ==
  ASSUME Inv, NEW msg \in WireMessages, Write(msg), UNCHANGED partial, NEW m \in Unread'
  PROVE  (m \in Unread /\ m \in 1..Len(sent) /\ sent'[m] = sent[m]) \/ m = Len(sent) + 1
<1>1. partial' = NoLine
  <2>1. PICK full, whole : Seen(stream, partial, eof, torn, responses, full, whole)
    BY DEF Inv, WireInv
  <2>2. ~eof
    BY DEF Write
  <2> QED BY <2>1, <2>2 DEF Seen
<1>2. PICK i \in 1..Len(stream') : m = stream'[i].msg
  BY <1>1 DEF Unread, MessagesOf
<1>3. \/ i \in 1..Len(stream) /\ stream'[i] = stream[i] /\ stream[i].msg \in 1..Len(sent)
      \/ stream'[i].msg = Len(sent) + 1
  BY WrittenBehind
<1>4. \A k \in 1..Len(sent) : sent'[k] = sent[k]
  BY WrittenBehind
<1> QED BY <1>2, <1>3, <1>4 DEF Unread, MessagesOf

\* An event has its code.
LEMMA EventIsAsync ==
  ASSUME NEW e, IsEvent(e)
  PROVE  EventMessage(e).code = StatusAsyncEvent /\ EventMessage(e).bad = e.bad
<1>1. \E data, reply : EventMessage(e) =
        [code |-> StatusAsyncEvent, data |-> data, reply |-> reply, bad |-> e.bad]
  <2>1. CASE e.style = "line"
    BY <2>1, Zenon DEF EventMessage
  <2>2. CASE e.style = "body"
    BY <2>2 DEF EventMessage
  <2>3. CASE e.style = "lines"
    BY <2>3 DEF EventMessage
  <2> QED BY <2>1, <2>2, <2>3 DEF IsEvent
<1> QED BY <1>1

\* What Tor emits is an event of the session, without a bad line in a quiet one.
LEMMA EventWritten ==
  ASSUME Inv, TorEmits
  PROVE  \E msg \in WireMessages :
           /\ Write(msg) /\ msg = EventMessage(session.events[emitted + 1])
           /\ msg.code = StatusAsyncEvent /\ (Quiet => msg.bad = "none")
<1>1. PICK e, msg : /\ e = session.events[emitted + 1] /\ msg = EventMessage(e) /\ Write(msg)
  BY DEF TorEmits
<1>2. session \in Sessions /\ emitted + 1 \in 1..Len(session.events)
  <2>1. Len(session.events) \in Nat /\ session \in Sessions
    BY SessionsAre DEF Inv, SessionOK
  <2> QED BY <2>1 DEF Inv, SessionOK, TorEmits
<1>3. IsEvent(e) /\ (Quiet => e.bad = "none")
  <2>1. PICK evs \in Seq(Range(session.events)) : evs = session.events
    BY <1>2, SessionAssumption
  <2>2. e \in Range(session.events)
    BY <1>1, <1>2, <2>1
  <2> QED BY <1>1, <1>2, <2>2, SessionAssumption DEF Quiet
<1>4. msg \in WireMessages
  BY <1>1, <1>3, EventMessageIsMessage
<1> QED BY <1>1, <1>3, <1>4, EventIsAsync

\* What Tor answers is the answer of the call.
LEMMA AnswerWritten ==
  ASSUME Inv, NilOrSet, TorAnswers
  PROVE  /\ NilOrSet'
         /\ \E msg \in WireMessages :
              /\ Write(msg) /\ (Quiet => msg.bad = "none") /\ AnswersCall(msg)
              /\ Request(call).op = "GetConf" => conf' = conf
<1>1. /\ IsRequest(Request(call)) /\ session.calls[call].answer \in WireMessages
      /\ line = Command(Request(call)) /\ call \in 1..Len(session.calls)
  <2>1. phase = "waiting" /\ session \in Sessions
    BY DEF TorAnswers, Inv, SessionOK
  <2>2. call \in 1..Len(session.calls)
    BY <2>1, SessionsAre DEF Inv, SessionOK
  <2> QED BY <2>1, <2>2, SessionsAre DEF Inv, SessionOK, Request
<1>2. PICK r : r = Request(call)
  OBVIOUS
<1>3. CASE r.op = "SetConf"
  <2>1. line = sendSetConf("SETCONF", r.entries)
    BY <1>1, <1>2, <1>3, Zenon DEF Command
  <2>2. /\ Len(r.entries) = 1
        /\ r.entries \in Seq([key : Keys, val : Seq(STRING), valSetAndEmpty : BOOLEAN])
        /\ r.entries[1].valSetAndEmpty => r.entries[1].val = <<>>
    BY <1>1, <1>2, <1>3 DEF IsRequest
  <2>3. PICK v \in ConfValues :
          /\ TorSetConf(sendSetConf("SETCONF", r.entries)) = [conf EXCEPT ![r.entries[1].key] = v]
          /\ v.valSetAndEmpty => v.val = <<>>
    BY <2>2, SetConfRead
  <2>4. PICK msg : /\ msg = [code |-> StatusOk, data |-> <<>>, reply |-> <<"OK">>, bad |-> "none"]
                   /\ Write(msg) /\ conf' = TorSetConf(line)
    BY <1>2, <1>3 DEF TorAnswers
  <2>5. msg \in WireMessages
    <3>1. StatusOk # "299" /\ StatusOk \in Codes /\ "none" \in BadLines
      BY InLineIsInChars DEF StatusOk, BadLines
    <3>2. <<"OK">> \in Seq(Chars) /\ <<>> \in Seq(Entries(Chars))
      BY InLineIsInChars
    <3> QED BY <2>4, <3>1, <3>2, SomeMessage
  <2>6. NilOrSet'
    <3>1. PICK key : key = r.entries[1].key
      OBVIOUS
    <3>2. conf' = [conf EXCEPT ![key] = v]
      BY <2>1, <2>3, <2>4, <3>1
    <3>3. ASSUME NEW other \in Keys
          PROVE  conf'[other].valSetAndEmpty => conf'[other].val = <<>>
      BY <2>3, <3>2 DEF NilOrSet, Inv, ConfOK
    <3> QED BY <3>3 DEF NilOrSet
  <2>7. msg.bad = "none" /\ r.op # "GetConf" /\ AnswersCall(msg)
    BY <1>2, <1>3, <2>4 DEF AnswersCall
  <2> QED BY <1>2, <2>4, <2>5, <2>6, <2>7
<1>4. CASE r.op = "GetConf"
  <2>1. Len(r.keys) = 1 /\ r.keys \in Seq(Keys)
    BY <1>1, <1>2, <1>4 DEF IsRequest
  <2>2. line = Words(<< <<"GETCONF">> >> \o r.keys)
    BY <1>1, <1>2, <1>4 DEF Command
  <2>3. PICK key \in Keys : key = r.keys[1]
    BY <2>1
  <2>4. PartitionString(line, SP).tail = key
    BY <2>1, <2>2, <2>3, GetConfLine
  <2>5. PICK msg \in TorGetConf(key) : Write(msg) /\ conf' = conf
    BY <1>2, <1>4, <2>4 DEF TorAnswers
  <2>6. msg \in WireMessages
    BY TorGetConfIsMessage DEF Inv
  <2>7. Answers(key, conf[key], msg) /\ msg.bad = "none"
    BY TorAnswersGetConf
  <2>8. NilOrSet'
    BY <2>5 DEF NilOrSet
  <2>9. AnswersCall(msg)
    BY <1>2, <1>4, <2>3, <2>7 DEF AnswersCall
  <2> QED BY <2>5, <2>6, <2>7, <2>8, <2>9
<1>5. CASE r.op # "SetConf" /\ r.op # "GetConf"
  <2>1. Write(session.calls[call].answer) /\ conf' = conf
    BY <1>2, <1>5 DEF TorAnswers
  <2>2. Quiet => session.calls[call].answer.bad = "none"
    BY <1>1 DEF Quiet
  <2>3. NilOrSet'
    BY <2>1 DEF NilOrSet
  <2>4. AnswersCall(session.calls[call].answer)
    BY <1>2, <1>5 DEF AnswersCall
  <2> QED BY <1>1, <2>1, <2>2, <2>3, <2>4
<1> QED BY <1>3, <1>4, <1>5

\* The response that is completed is the next message, up to a protocol error.
LEMMA NextMessage ==
  ASSUME Inv, Inv', ~broken, ReadLast, UNCHANGED sent, responses' = Append(responses, Complete)
  PROVE  /\ Len(responses) \in Nat /\ Len(responses') = Len(responses) + 1
         /\ Len(responses) + 1 \in 1..Len(sent) /\ Len(sent) \in Nat
         /\ stream # <<>> /\ stream[1].msg = Len(responses) + 1
         /\ ContentOf(Complete) = Meaning(sent[Len(responses) + 1])
         /\ IsAsync(Complete) <=> sent[Len(responses) + 1].code = StatusAsyncEvent
         /\ \A m \in Unread' : m # Len(responses) + 1
<1>3. stream # <<>> /\ broken' = broken /\ torn' = torn
  BY DEF ReadLast
<1>1. PICK full, pos : /\ Wire(full, eof, resp, sent, broken, responses, pos)
                       /\ full # <<>> /\ full[1] = stream[1] /\ torn = FALSE
  BY <1>3, HeadSeen DEF Inv
<1>2. PICK all, q : /\ Continued(stream', partial', all)
                    /\ Wire(all, eof', resp', sent', broken', responses', q)
  <2>1. PICK all, whole, q : /\ Seen(stream', partial', eof', torn', responses', all, whole)
                             /\ Wire(all, eof', resp', sent', broken', whole, q)
    BY DEF Inv, WireInv
  <2>2. whole = responses' /\ Continued(stream', partial', all)
    BY <1>1, <1>3, <2>1 DEF Seen
  <2> QED BY <2>1, <2>2, Zenon
<1>4. PICK n \in Nat : n = Len(responses)
  BY SequenceDomain DEF Inv, SessionOK
<1>5. Len(responses') = n + 1 /\ responses'[n + 1] = Complete
  BY <1>3, <1>4, AppendToSequence DEF Inv, SessionOK
<1>6. stream[1].msg = n + 1
  <2>1. Framing(full, eof, resp, sent, responses, pos)
    BY <1>1, <1>3 DEF Wire
  <2> QED BY <1>1, <1>3, <1>4, <2>1 DEF Framing
<1>7. Framing(all, eof', resp', sent, responses', q)
  BY <1>2, <1>3 DEF Wire
<1>8. PICK msg : msg = sent[n + 1]
  OBVIOUS
<1>9. ContentOf(Complete) = Meaning(msg)
  <2>1. n + 1 \in 1..(n + 1)
    OBVIOUS
  <2> QED BY <1>5, <1>7, <1>8, <2>1 DEF Framing
<1>10. IsAsync(Complete) <=> msg.code = StatusAsyncEvent
  <2>1. PICK c : c = Complete
    OBVIOUS
  <2>2. ContentOf(c).code = c.code
    BY DEF ContentOf
  <2>3. Meaning(msg).code = msg.code
    BY DEF Meaning
  <2> QED BY <1>9, <2>1, <2>2, <2>3 DEF IsAsync
<1>11. n + 1 \in 1..Len(sent) /\ Len(sent) \in Nat
  <2>1. PICK l \in Nat : l = Len(sent)
    BY <1>1 DEF Wire
  <2>2. n + 1 <= l
    BY <1>5, <1>7, <2>1 DEF Framing
  <2> QED BY <2>1, <2>2
<1>12. ASSUME NEW m \in Unread'
       PROVE  m # n + 1
  <2>1. PICK i \in 1..Len(all) : m = all[i].msg
    BY <1>2, UnreadOf DEF Unread
  <2>2. all \in Seq(Items) /\ sent' \in Seq(WireMessages) /\ Placed(all, sent', eof', q)
    BY <1>2 DEF Wire
  <2>3. all[1].msg = (n + 1) + 1
    <3>1. all # <<>>
      BY <2>1, <2>2
    <3> QED BY <1>5, <1>7, <3>1 DEF Framing
  <2>4. all[1].msg <= all[i].msg /\ all[i].msg \in Nat
    <3>1. all[1].msg <= all[i].msg
      BY <2>2, Ascending
    <3>2. Len(sent') \in Nat /\ all[i].msg \in 1..Len(sent')
      BY <2>2 DEF Placed
    <3> QED BY <3>1, <3>2
  <2> QED BY <2>1, <2>3, <2>4
<1> QED BY <1>3, <1>4, <1>5, <1>6, <1>8, <1>9, <1>10, <1>11, <1>12

\* The response that a call takes is Tor's answer to it, and nothing but events
\* is left unread.
LEMMA AnswerTaken ==
  ASSUME Inv, Inv', PendingInv, ~broken, ReturnResponse, ReadLast
  PROVE  /\ answered
         /\ \A m \in Unread' : sent[m].code = StatusAsyncEvent
         /\ \E msg : AnswersCall(msg) /\ ContentOf(Complete) = Meaning(msg)
<1>3. /\ ~IsAsync(Complete) /\ sent' = sent
      /\ responses' = Append(responses, Complete)
  BY DEF ReturnResponse, Returns
<1>4. PICK n \in Nat : n = Len(responses)
  BY SequenceDomain DEF Inv, SessionOK
<1>5. PICK msg : msg = sent[n + 1]
  OBVIOUS
<1>6. /\ stream # <<>> /\ stream[1].msg = n + 1 /\ ContentOf(Complete) = Meaning(msg)
      /\ msg.code # StatusAsyncEvent /\ \A m \in Unread' : m # n + 1
  BY <1>3, <1>4, <1>5, NextMessage
<1>7. n + 1 \in Unread
  <2>1. stream \in Seq(Items)
    BY DEF Inv, WireInv, Seen, Continued
  <2>2. 1 \in 1..Len(stream)
    BY <1>6, <2>1
  <2> QED BY <1>6, <2>2 DEF Unread, MessagesOf
<1>11. PICK a : Pending(a)
  BY DEF PendingInv
<1>12. answered /\ a = n + 1 /\ AnswersCall(msg)
  BY <1>5, <1>6, <1>7, <1>11 DEF Pending
<1>13. ASSUME NEW m \in Unread', sent[m].code # StatusAsyncEvent
       PROVE  FALSE
  <2>1. m \in Unread
    BY <1>13, ReadsSomeOf
  <2>2. m = n + 1
    BY <1>11, <1>12, <1>13, <2>1 DEF Pending
  <2> QED BY <1>6, <1>13, <2>2
<1> QED BY <1>6, <1>12, <1>13

\* Nor is a torn one another's, and nothing is left unread.
LEMMA AnswerTorn ==
  ASSUME Inv, PendingInv, ~broken, ReturnResponse, ReadTorn
  PROVE  answered /\ Unread' = {}
<1>1. PICK full, pos, t, s :
        /\ full # <<>> /\ Tail(full) = <<>> /\ t = full[1].text /\ torn = FALSE /\ eof
        /\ Wire(full, eof, resp, sent, broken, responses, pos)
        /\ WellFormedLine(t, resp) /\ t[2] = SP
        /\ s = Completed(resp, t[1], SubSeq(t, 3, Len(t)), full[1].msg)
        /\ Complete.code = s.code /\ Complete.data = s.data /\ Complete.from = s.from
        /\ Complete.reply \in BeginningsOf(s.reply)
        /\ partial # NoLine /\ partial.msg = full[1].msg
  BY TornRead, Zenon DEF Inv
<1>2. PICK m, p, msg : m = full[1].msg /\ p = pos[1] /\ msg = sent[m]
  OBVIOUS
<1>3. /\ msg \in WireMessages /\ p \in 1..Len(MessageLines(msg))
      /\ InMessage(msg, m, p, resp) /\ t = MessageLines(msg)[p]
  <2>1. full # <<>> /\ Wire(full, eof, resp, sent, broken, responses, pos)
    BY <1>1
  <2>2. /\ sent[full[1].msg] \in WireMessages
        /\ Own(sent, full[1].msg) = MessageLines(sent[full[1].msg])
        /\ pos[1] \in 1..Len(Own(sent, full[1].msg))
        /\ full[1].text = MessageLines(sent[full[1].msg])[pos[1]]
        /\ InMessage(sent[full[1].msg], full[1].msg, pos[1], resp)
    BY <2>1, Heading
  <2>3. t = full[1].text
    BY <1>1
  <2> QED BY <1>2, <2>2, <2>3
<1>4. s.code = msg.code
  <2>1. /\ WellFormedLine(t, resp) /\ t[2] = SP
        /\ s = Completed(resp, t[1], SubSeq(t, 3, Len(t)), m)
    BY <1>1, <1>2
  <2> QED BY <1>3, <2>1, LastStep
<1>5. msg.code # StatusAsyncEvent
  BY <1>1, <1>4 DEF ReturnResponse, IsAsync
<1>6. m \in Unread
  BY <1>1, <1>2 DEF Unread, MessagesOf
<1>7. answered
  BY <1>2, <1>5, <1>6 DEF PendingInv, Pending
<1>8. stream' = <<>> /\ partial' = NoLine
  BY DEF ReadTorn
<1> QED BY <1>7, <1>8 DEF Unread, MessagesOf

LEMMA ConfInvInit == Init => ConfInv
<1> SUFFICES ASSUME Init PROVE ConfInv
  OBVIOUS
<1>1. /\ stream = <<>> /\ partial = NoLine /\ sent = <<>> /\ broken = FALSE
      /\ conf = [k \in Keys |-> Default]
  BY DEF Init
<1>2. NilOrSet
  BY <1>1 DEF NilOrSet, Default
<1>3. Pending(0)
  BY <1>1 DEF Pending, Unread, MessagesOf
<1>4. QuietInv
  BY <1>1 DEF QuietInv
<1> QED BY <1>2, <1>3, <1>4 DEF ConfInv, PendingInv

LEMMA SameSession ==
  ASSUME [Next]_vars
  PROVE  UNCHANGED session
BY DEF Next, vars, TorEmits, TorAnswers, Cut, SendCommand, RefuseRequest, ReadData, RelayEvent,
     ReturnResponse, ReturnError, HandlerFails, Returns

\* A protocol error is not mended, nor is a torn line.
LEMMA StillWhole ==
  ASSUME [Next]_vars
  PROVE  (~broken' => ~broken) /\ (Intact' => Intact)
<1>1. UNCHANGED broken \/ broken' = TRUE
  BY DEF Next, vars, TorEmits, TorAnswers, Cut, SendCommand, RefuseRequest, ReadData, RelayEvent,
       ReturnResponse, ReturnError, HandlerFails, Returns, ReadReply, ReadMid, ReadDot, ReadLast,
       ReadTorn, ReadError, ReadEOF
<1>2. UNCHANGED torn \/ torn' = TRUE
  BY DEF Next, vars, TorEmits, TorAnswers, Cut, SendCommand, RefuseRequest, ReadData, RelayEvent,
       ReturnResponse, ReturnError, HandlerFails, Returns, ReadReply, ReadMid, ReadDot, ReadLast,
       ReadTorn, ReadError, ReadEOF
<1> QED BY <1>1, <1>2 DEF Intact

\* Nothing but events and the answer to the call is on its way, step by step.
LEMMA PendingNext ==
  ASSUME Inv, Inv', NilOrSet, PendingInv, [Next]_vars
  PROVE  PendingInv'
<1> SUFFICES ASSUME ~broken' PROVE \E a : Pending(a)'
  BY DEF PendingInv
<1>1. ~broken
  BY StillWhole
<1>2. PICK a : Pending(a)
  BY <1>1 DEF PendingInv
<1>3. CASE TorEmits
  <2>1. PICK msg \in WireMessages : Write(msg) /\ msg.code = StatusAsyncEvent
    BY <1>3, EventWritten
  <2>2. UNCHANGED <<session, phase, answered, call, conf, partial>>
    BY <1>3 DEF TorEmits, session_vars
  <2>3. PICK b : b = sent[a]
    OBVIOUS
  <2>4. ASSUME NEW m \in Unread', sent'[m].code # StatusAsyncEvent
        PROVE  /\ phase' = "waiting" /\ answered' /\ m = a
               /\ sent'[a] = b /\ AnswersCall(b)'
    <3>1. m \in Unread /\ m \in 1..Len(sent) /\ sent'[m] = sent[m]
      <4>1. m # Len(sent) + 1
        BY <2>1, <2>4, WrittenBehind
      <4> QED BY <2>1, <2>2, <4>1, UnreadWritten
    <3>2. phase = "waiting" /\ answered /\ m = a /\ AnswersCall(sent[a])
      BY <1>2, <2>4, <3>1 DEF Pending
    <3>3. AnswersCall(b)'
      BY <2>2, <2>3, <3>2 DEF AnswersCall, Request
    <3> QED BY <2>2, <2>3, <3>1, <3>2, <3>3
  <2>5. Pending(a)'
    BY <2>4 DEF Pending, AnswersCall
  <2> QED BY <2>5
<1>4. CASE TorAnswers
  <2>1. PICK msg \in WireMessages :
          /\ Write(msg) /\ AnswersCall(msg)
          /\ Request(call).op = "GetConf" => conf' = conf
    BY <1>4, AnswerWritten
  <2>2. /\ phase = "waiting" /\ ~answered /\ answered' = TRUE
        /\ UNCHANGED <<session, phase, call, partial>>
    BY <1>4 DEF TorAnswers
  <2>3. PICK k \in Nat : k = Len(sent) + 1 /\ sent'[k] = msg
    BY <2>1, WrittenBehind
  <2>4. AnswersCall(msg)'
    BY <2>1, <2>2 DEF AnswersCall, Request
  <2>5. ASSUME NEW m \in Unread', sent'[m].code # StatusAsyncEvent
        PROVE  m = k
    <3>1. CASE m \in Unread /\ sent'[m] = sent[m]
      BY <1>2, <2>2, <2>5, <3>1 DEF Pending
    <3> QED BY <2>1, <2>2, <2>3, <3>1, UnreadWritten
  <2>6. Pending(k)'
    BY <2>2, <2>3, <2>4, <2>5 DEF Pending, AnswersCall
  <2> QED BY <2>6
<1>5. CASE Cut
  <2>1. PendingInv'
    BY <1>5, ReadsSomeOf, PendingShrinks DEF Cut, session_vars
  <2> QED BY <2>1 DEF PendingInv
<1>6. CASE SendCommand \/ RefuseRequest
  <2>1. phase = "idle" /\ UNCHANGED <<stream, partial, sent>>
    BY <1>6 DEF SendCommand, RefuseRequest
  <2>2. Pending(a)'
    BY <1>2, <2>1 DEF Pending, Unread
  <2> QED BY <2>2
<1>7. CASE ReadData
  <2>1. PendingInv'
    BY <1>7, ReadsSomeOf, PendingShrinks DEF ReadData, session_vars, ReadMid, ReadDot
  <2> QED BY <2>1 DEF PendingInv
<1>8. CASE RelayEvent
  <2>1. PendingInv'
    BY <1>8, ReadsSomeOf, PendingShrinks DEF RelayEvent, session_vars, ReadReply, ReadLast, ReadTorn
  <2> QED BY <2>1 DEF PendingInv
<1>9. CASE ReturnResponse
  <2>1. ReadLast \/ ReadTorn
    BY <1>9 DEF ReturnResponse, ReadReply
  <2>2. \A m \in Unread' : sent[m].code = StatusAsyncEvent
    BY <1>1, <1>9, <2>1, AnswerTaken, AnswerTorn
  <2>3. UNCHANGED sent
    BY <1>9 DEF ReturnResponse, Returns
  <2>4. Pending(0)'
    BY <2>2, <2>3 DEF Pending
  <2> QED BY <2>4
<1>10. CASE ReturnError \/ HandlerFails
  <2>1. stream' = <<>> /\ partial' = NoLine
    BY <1>10 DEF ReturnError, HandlerFails, ReadError, ReadEOF
  <2>2. Pending(0)'
    BY <2>1 DEF Pending, Unread, MessagesOf
  <2> QED BY <2>2
<1>11. CASE UNCHANGED vars
  <2>1. UNCHANGED <<stream, partial, sent, phase, answered, session, call, conf>>
    BY <1>11 DEF vars
  <2>2. AnswersCall(sent[a])' <=> AnswersCall(sent[a])
    BY <2>1 DEF AnswersCall, Request
  <2>3. Pending(a)'
    BY <1>2, <2>1, <2>2 DEF Pending, Unread
  <2> QED BY <2>3
<1> QED BY <1>3, <1>4, <1>5, <1>6, <1>7, <1>8, <1>9, <1>10, <1>11 DEF Next

\* A Tor that keeps the protocol breaks nothing.
LEMMA QuietNext ==
  ASSUME Inv, NilOrSet, Quiet, QuietInv, [Next]_vars
  PROVE  QuietInv'
<1>1. ASSUME NEW msg \in WireMessages, Write(msg), msg.bad = "none", UNCHANGED broken
      PROVE  QuietInv'
  BY <1>1, WrittenBehind DEF QuietInv
<1>2. CASE TorEmits
  <2>1. PICK msg \in WireMessages : Write(msg) /\ msg.bad = "none"
    BY <1>2, EventWritten
  <2> QED BY <1>1, <1>2, <2>1 DEF TorEmits
<1>3. CASE TorAnswers
  <2>1. PICK msg \in WireMessages : Write(msg) /\ msg.bad = "none"
    BY <1>3, AnswerWritten
  <2> QED BY <1>1, <1>3, <2>1 DEF TorAnswers
<1>4. CASE ~(TorEmits \/ TorAnswers)
  <2>1. UNCHANGED <<sent, broken>>
    BY <1>4, NoError DEF Next, vars, Cut, SendCommand, RefuseRequest, ReadData, RelayEvent,
         ReturnResponse, ReturnError, HandlerFails, Returns, ReadReply, ReadMid, ReadDot, ReadLast,
         ReadTorn, ReadEOF
  <2> QED BY <2>1 DEF QuietInv
<1> QED BY <1>2, <1>3, <1>4

LEMMA ConfInvNext ==
  ASSUME Inv, Inv', ConfInv, [Next]_vars
  PROVE  ConfInv'
<1>1. ASSUME UNCHANGED conf
      PROVE  NilOrSet'
  BY <1>1 DEF ConfInv, NilOrSet
<1>2. NilOrSet'
  <2>1. CASE TorAnswers
    BY <2>1, AnswerWritten DEF ConfInv
  <2>2. CASE ~TorAnswers
    <3>1. UNCHANGED conf
      BY <2>2 DEF Next, vars, TorEmits, Cut, SendCommand, RefuseRequest, ReadData, RelayEvent,
           ReturnResponse, ReturnError, HandlerFails, Returns
    <3> QED BY <1>1, <3>1
  <2> QED BY <2>1, <2>2
<1>3. Quiet' => Quiet
  <2>1. UNCHANGED session
    BY SameSession
  <2> QED BY <2>1 DEF Quiet
<1>4. Quiet => QuietInv'
  BY QuietNext DEF ConfInv
<1>5. PendingInv'
  BY PendingNext DEF ConfInv
<1> QED BY <1>2, <1>3, <1>4, <1>5 DEF ConfInv

LEMMA ConfInvariance == Spec => [](Inv /\ ConfInv)
<1>1. Inv /\ ConfInv /\ Inv' /\ [Next]_vars => ConfInv'
  BY ConfInvNext
<1> QED BY <1>1, Invariance, InitInv, ConfInvInit, PTL DEF Spec

----------------------------------------------------------------------------
(* The refinement of ConfStore *)

LEMMA StoreInit == Init => Store!Init
<1> SUFFICES ASSUME Init PROVE Store!Init
  OBVIOUS
<1> QED BY DEF Init, Store!Init

\* SendRequest writes a command: the call begins.
LEMMA StoreAsk ==
  ASSUME SendCommand
  PROVE  Store!Ask
<1>1. /\ phase = "idle" /\ phase' = "waiting" /\ answered' = FALSE
      /\ conf' = conf /\ results' = results
  BY DEF SendCommand
<1> QED BY <1>1 DEF Store!Ask

\* Tor answers: what it stores is what the entry says.
LEMMA StoreTakeEffect ==
  ASSUME Inv, NilOrSet, TorAnswers
  PROVE  Store!TakeEffect
<1>1. /\ phase = "waiting" /\ ~answered /\ answered' = TRUE
      /\ UNCHANGED <<session, call, phase, results>>
  BY DEF TorAnswers
<1>2. PICK r : r = Request(call)
  OBVIOUS
<1>3. /\ IsRequest(r) /\ line = Command(r) /\ call # 0
      /\ DOMAIN conf = Keys
  <2>1. session \in Sessions
    BY DEF Inv, SessionOK
  <2>2. call \in 1..Len(session.calls)
    BY <1>1, <2>1, SessionsAre DEF Inv, SessionOK
  <2> QED BY <1>1, <1>2, <2>1, <2>2, SessionsAre DEF Inv, SessionOK, ConfOK, Request
<1>4. PICK request : /\ request = (IF call = 0 THEN [op |-> "none"] ELSE Request(call))
                     /\ request = r
  BY <1>2, <1>3
<1>5. (IF call = 0 THEN [op |-> "none"] ELSE Request(call))' = request
  BY <1>1, <1>4 DEF Request
<1>6. IF r.op = "SetConf"
      THEN /\ DOMAIN conf' = Keys
           /\ \A k \in Keys \ {r.entries[1].key} : conf'[k] = conf[k]
           /\ NoPercent(r.entries[1].val) =>
                conf'[r.entries[1].key] = Store!KeptOf(r.entries[1])
      ELSE conf' = conf
  <2>1. CASE r.op = "SetConf"
    <3>1. line = sendSetConf("SETCONF", r.entries)
      BY <1>3, <2>1, Zenon DEF Command
    <3>2. /\ Len(r.entries) = 1
          /\ r.entries \in Seq([key : Keys, val : Seq(STRING), valSetAndEmpty : BOOLEAN])
          /\ r.entries[1].valSetAndEmpty => r.entries[1].val = <<>>
      BY <1>3, <2>1 DEF IsRequest
    <3>3. PICK entry : entry = r.entries[1]
      OBVIOUS
    <3>4. PICK v \in ConfValues :
            /\ TorSetConf(sendSetConf("SETCONF", r.entries)) = [conf EXCEPT ![entry.key] = v]
            /\ NoPercent(entry.val) =>
                 v.val = entry.val /\ v.valSetAndEmpty = entry.valSetAndEmpty
      BY <3>2, <3>3, SetConfRead
    <3>5. conf' = [conf EXCEPT ![entry.key] = v]
      BY <1>2, <2>1, <3>1, <3>4 DEF TorAnswers
    <3>6. entry.key \in Keys
      <4>1. PICK T : T = [key : Keys, val : Seq(STRING), valSetAndEmpty : BOOLEAN]
        OBVIOUS
      <4>2. PICK entries \in Seq(T) : entries = r.entries /\ Len(entries) = 1
        BY <3>2, <4>1
      <4>3. entry \in T
        BY <3>3, <4>2
      <4> QED BY <4>1, <4>3
    <3>7. NoPercent(entry.val) => v = Store!KeptOf(entry)
      BY <3>4 DEF Store!KeptOf, ConfValues
    <3> QED BY <1>3, <2>1, <3>3, <3>5, <3>6, <3>7
  <2>2. CASE r.op # "SetConf"
    BY <1>2, <2>2 DEF TorAnswers
  <2> QED BY <2>1, <2>2
<1> QED BY <1>1, <1>4, <1>5, <1>6 DEF Store!TakeEffect

\* The result of GetConf is the key with its value in Tor's configuration.
LEMMA GetConfReturns ==
  ASSUME Inv, Inv', ConfInv, ReturnResponse, ReadLast, Request(call).op = "GetConf"
  PROVE  LET key == Request(call).keys[1]
         IN results' = Append(results,
              Value(<<[key |-> key, val |-> conf[key].val,
                       valSetAndEmpty |-> conf[key].valSetAndEmpty]>>))
<1>1. phase = "waiting" /\ call \in 1..Len(session.calls) /\ IsRequest(Request(call))
  <2>1. phase = "waiting" /\ session \in Sessions
    BY DEF ReturnResponse, Inv, SessionOK
  <2>2. call \in 1..Len(session.calls)
    BY <2>1, SessionsAre DEF Inv, SessionOK
  <2> QED BY <2>1, <2>2, SessionsAre DEF Request
<1>2. PICK key \in Keys : key = Request(call).keys[1]
  <2>1. Len(Request(call).keys) = 1 /\ Request(call).keys \in Seq(Keys)
    BY <1>1 DEF IsRequest
  <2> QED BY <2>1
<1>3. PICK msg : Answers(key, conf[key], msg) /\ ContentOf(Complete) = Meaning(msg)
  <2>1. PendingInv /\ ~broken
    BY <1>1, ConfIsQuiet DEF Inv, ConfInv, QuietInv
  <2>2. PICK msg : AnswersCall(msg) /\ ContentOf(Complete) = Meaning(msg)
    BY <2>1, AnswerTaken
  <2> QED BY <1>2, <2>2 DEF AnswersCall
<1>4. PICK c : c = Complete
  OBVIOUS
<1>5. c.code = msg.code /\ c.reply = msg.reply
  <2>1. ContentOf(c).code = c.code /\ ContentOf(c).reply = c.reply
    BY DEF ContentOf
  <2>2. Meaning(msg).code = msg.code /\ Meaning(msg).reply = msg.reply
    BY DEF Meaning
  <2> QED BY <1>3, <1>4, <2>1, <2>2
<1>6. c.data = <<>> /\ msg.data = <<>>
  <2>1. msg.data = <<>>
    BY <1>3 DEF Answers
  <2>2. Meaning(msg).data = <<>>
    BY <2>1 DEF Meaning
  <2>3. ContentOf(c).data = c.data
    BY DEF ContentOf
  <2> QED BY <1>3, <1>4, <2>1, <2>2, <2>3
<1>7. IsOk(c)
  BY <1>3, <1>5 DEF Answers, IsOk
<1>8. results' = Append(results, GetConfResult(Append(c.data, c.reply)))
  <2>1. results' = Append(results, Result(Request(call), c))
    BY <1>4, <1>7 DEF ReturnResponse, Returns
  <2>2. Result(Request(call), c) = GetConfResult(Append(c.data, c.reply))
    BY Zenon DEF Result
  <2> QED BY <2>1, <2>2
<1>9. GetConfResult(Append(msg.data, msg.reply))
        = Value(<<[key |-> key, val |-> conf[key].val,
                   valSetAndEmpty |-> conf[key].valSetAndEmpty]>>)
  BY <1>2, <1>3, AnswerDecoded DEF Inv, ConfOK, ConfInv, NilOrSet
<1> QED BY <1>2, <1>5, <1>6, <1>8, <1>9

LEMMA LastOfAppend ==
  ASSUME IsSequence(results), NEW result, results' = Append(results, result)
  PROVE  Len(results') > 0 /\ results'[Len(results')] = result
<1>1. Len(results) \in Nat
  BY SequenceDomain
<1> QED BY <1>1, AppendToSequence

\* The call returns what it was answered.
LEMMA StoreReturn ==
  ASSUME Inv, Inv', ConfInv, ReturnResponse
  PROVE  Store!Next
<1>1. PICK result : /\ results' = Append(results, result)
                    /\ Request(call).op = "GetConf" /\ ReadLast =>
                         LET key == Request(call).keys[1]
                         IN result = Value(<<[key |-> key, val |-> conf[key].val,
                                              valSetAndEmpty |-> conf[key].valSetAndEmpty]>>)
  <2>1. PICK r : results' = Append(results, r)
    BY DEF ReturnResponse, Returns
  <2>2. CASE Request(call).op = "GetConf" /\ ReadLast
    BY <2>2, GetConfReturns
  <2>3. CASE ~(Request(call).op = "GetConf" /\ ReadLast)
    BY <2>1, <2>3
  <2> QED BY <2>2, <2>3
<1>2. /\ phase = "waiting" /\ phase' = "idle" /\ UNCHANGED <<session, call, conf, answered>>
  BY DEF ReturnResponse, Returns
<1>3. call \in 1..Len(session.calls) /\ call # 0
  <2>1. session \in Sessions
    BY DEF Inv, SessionOK
  <2> QED BY <1>2, <2>1, SessionsAre DEF Inv, SessionOK
<1>4. Request(call).op \in {"SetConf", "GetConf"} => answered
  <2>1. Request(call).op \in {"SetConf", "GetConf"} => Quiet
    BY <1>3, ConfIsQuiet DEF Inv
  <2>2. ReadLast \/ ReadTorn
    BY DEF ReturnResponse, ReadReply
  <2> QED BY <2>1, <2>2, AnswerTaken, AnswerTorn DEF ConfInv, QuietInv
<1>5. PICK request : request = (IF call = 0 THEN [op |-> "none"] ELSE Request(call))
                     /\ request = Request(call)
  BY <1>3
<1>6. (IF call = 0 THEN [op |-> "none"] ELSE Request(call))' = request
  BY <1>2, <1>5 DEF Request
<1>7. Len(results') > 0 /\ results'[Len(results')] = result
  BY <1>1, LastOfAppend DEF Inv, SessionOK
<1>8. Store!Return(result)
  <2>1. request.op \in {"SetConf", "GetConf"} => answered
    BY <1>4, <1>5
  <2>2. ASSUME request.op = "GetConf", torn' => torn
        PROVE  /\ result.err = ""
               /\ result.val = <<[key |-> request.keys[1], val |-> conf[request.keys[1]].val,
                                  valSetAndEmpty |-> conf[request.keys[1]].valSetAndEmpty]>>
    <3>1. PICK key : key = request.keys[1]
      OBVIOUS
    <3>2. PICK kept : kept = <<[key |-> key, val |-> conf[key].val,
                                valSetAndEmpty |-> conf[key].valSetAndEmpty]>>
      OBVIOUS
    <3>3. result = Value(kept)
      <4>1. ReadLast
        <5>1. ReadTorn => torn = FALSE /\ torn' = TRUE
          BY TornRead DEF Inv, ReadTorn
        <5> QED BY <2>2, <5>1 DEF ReturnResponse, ReadReply
      <4> QED BY <1>1, <1>5, <2>2, <3>1, <3>2, <4>1
    <3>4. result.err = "" /\ result.val = kept
      BY <3>3 DEF Value
    <3> QED BY <3>1, <3>2, <3>4
  <2> QED BY <1>1, <1>2, <1>5, <1>6, <2>1, <2>2 DEF Store!Return
<1> QED BY <1>7, <1>8 DEF Store!Next

\* The connection fails the call.
LEMMA StoreFails ==
  ASSUME Inv, ReturnError
  PROVE  Store!Next
<1>1. PICK result : result = [err |-> "read", val |-> <<>>]
  OBVIOUS
<1>2. /\ phase = "waiting" /\ phase' = "idle" /\ results' = Append(results, result)
      /\ UNCHANGED <<session, call, conf, answered>>
  BY <1>1 DEF ReturnError, Returns
<1>3. (IF call = 0 THEN [op |-> "none"] ELSE Request(call))'
        = (IF call = 0 THEN [op |-> "none"] ELSE Request(call))
  BY <1>2 DEF Request
<1>4. result.err = "read"
  BY <1>1
<1>5. Len(results') > 0 /\ results'[Len(results')] = result
  BY <1>2, LastOfAppend DEF Inv, SessionOK
<1>6. Store!Return(result)
  BY <1>2, <1>3, <1>4 DEF Store!Return
<1> QED BY <1>5, <1>6 DEF Store!Next

\* The method refuses the request: only ADD_ONION's is ever refused.
LEMMA StoreRefuses ==
  ASSUME Inv, RefuseRequest
  PROVE  Store!Next
<1>1. /\ phase = "idle" /\ call' = call + 1 /\ results' = Append(results, Refusal)
      /\ UNCHANGED <<session, phase, answered, conf>>
      /\ Request(call + 1).op = "AddOnion"
  BY DEF RefuseRequest, Refused
<1>2. call' # 0
  <2>1. call \in Nat
    BY SessionsAre DEF Inv, SessionOK
  <2> QED BY <1>1, <2>1
<1>3. (IF call = 0 THEN [op |-> "none"] ELSE Request(call))' = Request(call + 1)
  BY <1>1, <1>2 DEF Request
<1>4. Len(results') > 0 /\ results'[Len(results')] = Refusal
  BY <1>1, LastOfAppend DEF Inv, SessionOK
<1>5. Store!Refuse(Refusal)
  BY <1>1, <1>3 DEF Store!Refuse
<1> QED BY <1>4, <1>5 DEF Store!Next

LEMMA StoreStep ==
  ASSUME Inv, Inv', ConfInv, [Next]_vars
  PROVE  [Store!Next]_(Store!vars)
<1>1. CASE SendCommand
  BY <1>1, StoreAsk DEF Store!Next
<1>2. CASE TorAnswers
  BY <1>2, StoreTakeEffect DEF Store!Next, ConfInv
<1>3. CASE ReturnResponse
  BY <1>3, StoreReturn
<1>4. CASE ReturnError
  BY <1>4, StoreFails
<1>6. CASE RefuseRequest
  BY <1>6, StoreRefuses
<1>5. CASE ~(SendCommand \/ RefuseRequest \/ TorAnswers \/ ReturnResponse \/ ReturnError)
  <2>1. UNCHANGED <<session, call, phase, answered, conf, results>>
    BY <1>5 DEF Next, vars, session_vars, TorEmits, Cut, ReadData, RelayEvent, HandlerFails
  <2>2. (IF call = 0 THEN [op |-> "none"] ELSE Request(call))'
          = (IF call = 0 THEN [op |-> "none"] ELSE Request(call))
    BY <2>1 DEF Request
  <2> QED BY <2>1, <2>2 DEF Store!vars
<1> QED BY <1>1, <1>2, <1>3, <1>4, <1>5, <1>6

\* SetConf and GetConf make a map of Tor's configuration (ConfStore), whatever
\* the keys' values have in them but a %, and whatever else is on the
\* connection (cmd_conf.go:19-26, 38-49).  It may end behind any line and
\* within it: only the one GetConf whose answer's last line it tears is
\* promised nothing (response.go:58).
THEOREM ConfRefines == Spec => ConfKept
<1>1. Init => Store!Init
  BY StoreInit
<1>2. Inv /\ Inv' /\ ConfInv /\ [Next]_vars => [Store!Next]_(Store!vars)
  BY StoreStep
<1> QED BY <1>1, <1>2, ConfInvariance, PTL DEF Spec, ConfKept, Store!Spec

----------------------------------------------------------------------------
(* What a call returns *)

\* What a method makes of a response: the status's error, or its result.
Outcome(request, r) ==
  IF IsOk(r) THEN Result(request, r)
  ELSE [err |-> "status", val |-> statusCodeToError(r.code, r.reply)]

\* Which response it is does not matter, only what it says.
LEMMA SameOutcome ==
  ASSUME NEW request, NEW c, NEW msg, ContentOf(c) = Meaning(msg)
  PROVE  Outcome(request, c) = Outcome(request, Meaning(msg))
<1>1. PICK d : d = Meaning(msg)
  OBVIOUS
<1>2. c.code = d.code /\ c.reply = d.reply /\ c.data = d.data
  <2>1. ContentOf(c).code = c.code /\ ContentOf(c).reply = c.reply /\ ContentOf(c).data = c.data
    BY DEF ContentOf
  <2> QED BY <1>1, <2>1
<1>3. Result(request, c) = Result(request, d)
  BY <1>2, Zenon DEF Result
<1>4. IsOk(c) <=> IsOk(d)
  BY <1>2 DEF IsOk
<1> QED BY <1>1, <1>2, <1>3, <1>4, Zenon DEF Outcome

\* What a call returns that the connection does not fail: it was refused, or
\* what Tor's answer to it says.
Due(n) ==
  IF Refused(Request(n)) THEN Refusal
  ELSE Outcome(Request(n), Meaning(session.calls[n].answer))

OwnResult(i) ==
  results[i].err # "read" /\ Request(i).op \notin {"SetConf", "GetConf"} =>
    results[i] = Due(i)

OwnResults == Intact => \A i \in 1..Len(results) : OwnResult(i)

\* A call under way was not refused.
Asked == phase = "waiting" => ~Refused(Request(call))

\* The call under way takes its own answer.
LEMMA ReturnsOwn ==
  ASSUME Inv, Inv', PendingInv, ~broken, ReturnResponse, ReadLast
  PROVE  \E result :
           /\ results' = Append(results, result)
           /\ Request(call).op \notin {"SetConf", "GetConf"} =>
                result = Outcome(Request(call), Meaning(session.calls[call].answer))
<1>1. results' = Append(results, Outcome(Request(call), Complete))
  BY DEF ReturnResponse, Returns, Outcome
<1>2. PICK msg : AnswersCall(msg) /\ ContentOf(Complete) = Meaning(msg)
  BY AnswerTaken
<1>3. Outcome(Request(call), Complete) = Outcome(Request(call), Meaning(msg))
  BY <1>2, SameOutcome
<1>4. Request(call).op \notin {"SetConf", "GetConf"} => msg = session.calls[call].answer
  BY <1>2 DEF AnswersCall
<1> QED BY <1>1, <1>3, <1>4

LEMMA OwnResultsNext ==
  ASSUME Inv, Inv', PendingInv, Asked, OwnResults, [Next]_vars
  PROVE  OwnResults'
<1> SUFFICES ASSUME Intact', NEW i \in 1..Len(results') PROVE OwnResult(i)'
  BY DEF OwnResults
<1>1. Intact /\ ~broken /\ ~torn' /\ UNCHANGED session
  BY StillWhole, SameSession DEF Intact
<1>2. Len(results) \in Nat /\ IsSequence(results)
  BY SequenceDomain DEF Inv, SessionOK
<1>3. ASSUME i \in 1..Len(results), results'[i] = results[i]
      PROVE  OwnResult(i)'
  <2>1. OwnResult(i)
    BY <1>1, <1>3 DEF OwnResults
  <2> QED BY <1>1, <1>3, <2>1 DEF OwnResult, Due, Request
<1>4. CASE ReturnResponse
  <2>0. ReadLast /\ ~Refused(Request(call))
    BY <1>1, <1>4 DEF ReturnResponse, ReadReply, ReadTorn, Asked
  <2>1. PICK result :
          /\ results' = Append(results, result)
          /\ Request(call).op \notin {"SetConf", "GetConf"} =>
               result = Outcome(Request(call), Meaning(session.calls[call].answer))
    BY <1>1, <1>4, <2>0, ReturnsOwn
  <2>2. Len(results) + 1 = call
    BY <1>4 DEF ReturnResponse, Inv, SessionOK
  <2>3. i \in 1..Len(results) \/ i = call
    BY <1>2, <2>1, <2>2, AppendToSequence
  <2>4. i \in 1..Len(results) => results'[i] = results[i]
    BY <1>2, <2>1, AppendToSequence
  <2>5. ASSUME i = call
        PROVE  OwnResult(i)'
    <3>1. results'[i] = result
      BY <1>2, <2>1, <2>2, <2>5, AppendToSequence
    <3> QED BY <1>1, <2>0, <2>1, <2>5, <3>1 DEF OwnResult, Due, Request
  <2> QED BY <1>3, <2>3, <2>4, <2>5
<1>5. CASE ReturnError
  <2>1. PICK result : results' = Append(results, result) /\ result.err = "read"
    BY <1>5 DEF ReturnError, Returns
  <2>2. (i \in 1..Len(results) /\ results'[i] = results[i]) \/ results'[i] = result
    BY <1>2, <2>1, AppendToSequence
  <2>3. results'[i] = result => OwnResult(i)'
    BY <2>1 DEF OwnResult
  <2> QED BY <1>3, <2>2, <2>3
<1>7. CASE RefuseRequest
  <2>1. /\ results' = Append(results, Refusal) /\ Refused(Request(call + 1))
        /\ phase = "idle"
    BY <1>7 DEF RefuseRequest
  <2>2. Len(results) = call
    BY <2>1 DEF Inv, SessionOK
  <2>3. (i \in 1..Len(results) /\ results'[i] = results[i]) \/ (i = call + 1 /\ results'[i] = Refusal)
    BY <1>2, <2>1, <2>2, AppendToSequence
  <2>4. i = call + 1 /\ results'[i] = Refusal => OwnResult(i)'
    BY <1>1, <2>1 DEF OwnResult, Due, Request
  <2> QED BY <1>3, <2>3, <2>4
<1>6. CASE ~(ReturnResponse \/ ReturnError \/ RefuseRequest)
  <2>1. UNCHANGED results
    BY <1>6 DEF Next, vars, session_vars, TorEmits, TorAnswers, Cut, SendCommand, ReadData, RelayEvent,
         HandlerFails
  <2> QED BY <1>3, <2>1
<1> QED BY <1>4, <1>5, <1>6, <1>7

LEMMA AskedNext ==
  ASSUME Asked, [Next]_vars
  PROVE  Asked'
<1>1. CASE SendCommand
  BY <1>1 DEF SendCommand, Asked, Request
<1>2. CASE ~SendCommand
  <2>1. UNCHANGED <<session, call, phase>> \/ phase' = "idle"
    BY <1>2 DEF Next, vars, session_vars, TorEmits, TorAnswers, Cut, RefuseRequest, ReadData,
         RelayEvent, ReturnResponse, ReturnError, HandlerFails, Returns
  <2> QED BY <2>1 DEF Asked, Request
<1> QED BY <1>1, <1>2

\* Until a read meets a protocol error or a torn line every call returns what
\* Tor answered to it, never what was answered to another call, however many
\* events are between, and wherever else the connection ends; or, unasked, its
\* refusal (conn.go:59-78, cmd_onion.go:147-149).
THEOREM OwnAnswers == Spec => []OwnResults
<1>1. Init => OwnResults /\ Asked
  <2>1. ASSUME Init PROVE OwnResults /\ Asked
    BY <2>1 DEF Init, OwnResults, Asked
  <2> QED BY <2>1
<1>2. Inv /\ Inv' /\ ConfInv /\ Asked /\ OwnResults /\ [Next]_vars => OwnResults'
  BY OwnResultsNext DEF ConfInv
<1>3. Asked /\ [Next]_vars => Asked'
  BY AskedNext
<1> QED BY <1>1, <1>2, <1>3, ConfInvariance, PTL DEF Spec

\* What a session says its calls mean is what the methods make of the answers,
\* or the refusal.
MeansSaid ==
  \A s \in Sessions : \A n \in 1..Len(s.calls) :
    LET c == s.calls[n]
    IN c.means # <<>> =>
         /\ c.request.op \notin {"SetConf", "GetConf"}
         /\ c.means = IF Refused(c.request) THEN Refusal
                      ELSE Outcome(c.request, Meaning(c.answer))

\* Every call returns what it means (conn.go:59-78, cmd_*.go), for calls whose
\* meaning is that of their own answer: neither an event, nor another call's
\* answer, nor a payload that looks like a reply gets in between.
THEOREM ResultsRight ==
  ASSUME MeansSaid
  PROVE  Spec => []ResultRight
<1>1. ASSUME Inv, OwnResults
      PROVE  ResultRight
  <2> SUFFICES ASSUME NEW i \in DOMAIN results, Intact, results[i].err # "read",
                      session.calls[i].means # <<>>
               PROVE  results[i] = session.calls[i].means
    BY DEF ResultRight
  <2>1. i \in 1..Len(results) /\ Len(results) <= call /\ i \in 1..Len(session.calls)
    <3>1. DOMAIN results = 1..Len(results) /\ Len(results) \in Nat
      BY <1>1, SequenceDomain DEF Inv, SessionOK
    <3>2. call \in 0..Len(session.calls) /\ Len(session.calls) \in Nat
      BY <1>1, SessionsAre DEF Inv, SessionOK
    <3>3. PICK l \in Nat, c \in Nat, n \in Nat :
            l = Len(results) /\ c = call /\ n = Len(session.calls)
      <4>1. Len(results) \in Nat /\ call \in Nat /\ Len(session.calls) \in Nat
        BY <3>1, <3>2
      <4> QED BY <4>1
    <3>4. (l = c \/ l = c - 1) /\ c <= n
      BY <1>1, <3>2, <3>3 DEF Inv, SessionOK
    <3>5. i \in 1..l
      BY <3>1, <3>3
    <3> QED BY <3>3, <3>4, <3>5
  <2>2. /\ Request(i).op \notin {"SetConf", "GetConf"}
        /\ session.calls[i].means = Due(i)
    BY <1>1, <2>1 DEF MeansSaid, Due, Request, Inv, SessionOK
  <2>3. OwnResult(i)
    BY <1>1, <2>1 DEF OwnResults
  <2> QED BY <2>2, <2>3 DEF OwnResult
<1>2. Spec => []Inv /\ []OwnResults
  BY Invariance, OwnAnswers, PTL
<1> QED BY <1>1, <1>2, PTL

----------------------------------------------------------------------------
(* The events *)

\* num[i] of the first i messages are events, the first ones of evs.
Numbered(msgs, evs, n, num) ==
  /\ num \in [0..Len(msgs) -> Nat]
  /\ num[0] = 0 /\ num[Len(msgs)] = n
  /\ \A i \in 1..Len(msgs) :
       /\ num[i] <= n
       /\ msgs[i].code # StatusAsyncEvent => num[i] = num[i - 1]
       /\ msgs[i].code = StatusAsyncEvent =>
            num[i] = num[i - 1] + 1 /\ msgs[i] = EventMessage(evs[num[i]])

\* The i-th event handled is the i-th that Tor emitted.
OwnEvent(i) ==
  i <= emitted /\ events[i] = relayAsyncEvents(Meaning(EventMessage(session.events[i])))

OwnEvents == Intact => \A i \in 1..Len(events) : OwnEvent(i)

EventInv ==
  /\ OwnEvents
  /\ \E num : /\ Numbered(sent, session.events, emitted, num)
              /\ Intact => Len(events) = num[Len(responses)]

\* Which response it is does not matter, only what it says.
LEMMA SameEvent ==
  ASSUME NEW c, NEW msg, ContentOf(c) = Meaning(msg)
  PROVE  relayAsyncEvents(c) = relayAsyncEvents(Meaning(msg))
<1>1. PICK d : d = Meaning(msg)
  OBVIOUS
<1>2. c.reply = d.reply /\ c.data = d.data
  <2>1. ContentOf(c).reply = c.reply /\ ContentOf(c).data = c.data
    BY DEF ContentOf
  <2> QED BY <1>1, <2>1
<1>3. SplitEvent(c) = SplitEvent(d)
  BY <1>2, Zenon DEF SplitEvent
<1> QED BY <1>1, <1>3, Zenon DEF relayAsyncEvents

\* One more message.
OneMore(msgs, l, msgs2, evs, n, n2) ==
  /\ l = Len(msgs) /\ Len(msgs2) = l + 1 /\ \A i \in 1..l : msgs2[i] = msgs[i]
  /\ \/ msgs2[l + 1].code # StatusAsyncEvent /\ n2 = n
     \/ /\ msgs2[l + 1].code = StatusAsyncEvent /\ n2 = n + 1
        /\ msgs2[l + 1] = EventMessage(evs[n2])

LEMMA NumberedAppend ==
  ASSUME NEW msgs, NEW l \in Nat, NEW msgs2, NEW evs, NEW n \in Nat, NEW n2 \in Nat,
         OneMore(msgs, l, msgs2, evs, n, n2), NEW num, Numbered(msgs, evs, n, num)
  PROVE  \E num2 : Numbered(msgs2, evs, n2, num2) /\ \A i \in 0..l : num2[i] = num[i]
<1> USE DEF OneMore
<1>1. PICK num2 : num2 = [i \in 0..(l + 1) |-> IF i = l + 1 THEN n2 ELSE num[i]]
  OBVIOUS
<1>2. /\ num \in [0..l -> Nat] /\ num[0] = 0 /\ num[l] = n
      /\ \A i \in 1..l : num[i] <= n
  BY DEF Numbered
<1>3. num2 \in [0..(l + 1) -> Nat] /\ num2[l + 1] = n2 /\ \A i \in 0..l : num2[i] = num[i]
  <2>1. \A i \in 0..(l + 1) : i = l + 1 \/ i \in 0..l
    OBVIOUS
  <2>2. \A i \in 0..l : i # l + 1 /\ i \in 0..(l + 1)
    OBVIOUS
  <2>3. \A i \in 0..(l + 1) : (IF i = l + 1 THEN n2 ELSE num[i]) \in Nat
    BY <1>2, <2>1
  <2> QED BY <1>1, <2>2, <2>3
<1>4. num2[0] = 0
  BY <1>2, <1>3
<1>5. ASSUME NEW i \in 1..(l + 1)
      PROVE  /\ num2[i] <= n2
             /\ msgs2[i].code # StatusAsyncEvent => num2[i] = num2[i - 1]
             /\ msgs2[i].code = StatusAsyncEvent =>
                  num2[i] = num2[i - 1] + 1 /\ msgs2[i] = EventMessage(evs[num2[i]])
  <2>1. CASE i \in 1..l
    <3>1. PICK k \in 0..l : k = i - 1
      BY <2>1
    <3>2. num2[i] = num[i] /\ num2[k] = num[k] /\ msgs2[i] = msgs[i] /\ num[i] \in Nat
      BY <1>2, <1>3, <2>1
    <3>3. /\ num[i] <= n
          /\ msgs[i].code # StatusAsyncEvent => num[i] = num[k]
          /\ msgs[i].code = StatusAsyncEvent =>
               num[i] = num[k] + 1 /\ msgs[i] = EventMessage(evs[num[i]])
      BY <2>1, <3>1 DEF Numbered
    <3>4. num2[i] <= n2
      BY <3>2, <3>3
    <3> QED BY <3>1, <3>2, <3>3, <3>4
  <2>2. CASE i = l + 1
    <3>1. i - 1 = l /\ num2[i] = n2 /\ num2[l] = n
      BY <1>2, <1>3, <2>2
    <3>2. n2 <= n2
      OBVIOUS
    <3> QED BY <2>2, <3>1, <3>2
  <2> QED BY <2>1, <2>2
<1>6. Numbered(msgs2, evs, n2, num2)
  BY <1>3, <1>4, <1>5 DEF Numbered
<1> QED BY <1>3, <1>6

LEMMA EventInvInit ==
  ASSUME Init
  PROVE  EventInv
<1>1. sent = <<>> /\ emitted = 0 /\ events = <<>> /\ responses = <<>>
  BY DEF Init
<1>2. PICK num : num = [i \in 0..0 |-> 0]
  OBVIOUS
<1>3. Numbered(sent, session.events, emitted, num)
  BY <1>1, <1>2 DEF Numbered
<1>4. Len(events) = num[Len(responses)]
  BY <1>1, <1>2
<1>5. OwnEvents
  BY <1>1 DEF OwnEvents
<1> QED BY <1>3, <1>4, <1>5 DEF EventInv

\* What Tor answers has no event's code.
LEMMA AnswerIsNoEvent ==
  ASSUME RepliesAreNoEvents, Inv, NilOrSet, TorAnswers
  PROVE  \E msg \in WireMessages : Write(msg) /\ msg.code # StatusAsyncEvent
<1>1. PICK msg \in WireMessages : Write(msg) /\ AnswersCall(msg)
  BY AnswerWritten
<1>2. PICK r : r = Request(call)
  OBVIOUS
<1>3. session \in Sessions /\ call \in 1..Len(session.calls)
  <2>1. phase = "waiting" /\ session \in Sessions
    BY DEF TorAnswers, Inv, SessionOK
  <2> QED BY <2>1, SessionsAre DEF Inv, SessionOK
<1>4. StatusOk # StatusAsyncEvent
  BY DEF StatusOk, StatusAsyncEvent
<1>5. CASE r.op = "SetConf"
  BY <1>1, <1>2, <1>4, <1>5 DEF AnswersCall
<1>6. CASE r.op = "GetConf"
  <2>1. \E key, v : Answers(key, v, msg)
    BY <1>1, <1>2, <1>6 DEF AnswersCall
  <2> QED BY <1>1, <1>4, <2>1 DEF Answers
<1>7. CASE r.op \notin {"SetConf", "GetConf"}
  <2>1. msg = session.calls[call].answer
    BY <1>1, <1>2, <1>7 DEF AnswersCall
  <2>2. PICK calls \in Seq(Range(session.calls)) : calls = session.calls
    BY <1>3, SessionAssumption
  <2>3. call \in DOMAIN session.calls
    BY <1>3, <2>2
  <2> QED BY <1>1, <1>3, <2>1, <2>3 DEF RepliesAreNoEvents
<1> QED BY <1>1, <1>5, <1>6, <1>7

LEMMA EventInvNext ==
  ASSUME RepliesAreNoEvents, Inv, Inv', NilOrSet, EventInv, [Next]_vars
  PROVE  EventInv'
<1>1. PICK num : /\ Numbered(sent, session.events, emitted, num)
                 /\ Intact => Len(events) = num[Len(responses)]
  BY DEF EventInv
<1>2. PICK evs : evs = session.events /\ evs = session'.events
  BY SameSession
<1>3. /\ emitted \in Nat /\ Len(sent) \in Nat /\ Len(responses) \in Nat /\ Len(events) \in Nat
      /\ IsSequence(events)
  <2>1. Len(session.events) \in Nat
    BY SessionsAre DEF Inv, SessionOK
  <2>2. emitted \in Nat
    BY <2>1 DEF Inv, SessionOK
  <2>3. sent \in Seq(WireMessages)
    BY DEF Inv, WireInv, Wire
  <2> QED BY <2>2, <2>3, SequenceDomain DEF Inv, SessionOK
<1>4. Intact => Len(responses) <= Len(sent)
  BY DEF Inv, WireInv, Wire, Seen, Framing, Intact
\* Something is written.
<1>5. ASSUME NEW msg \in WireMessages, Write(msg), UNCHANGED <<broken, torn, responses, events>>,
             \/ msg.code # StatusAsyncEvent /\ emitted' = emitted
             \/ /\ msg.code = StatusAsyncEvent /\ emitted' = emitted + 1
                /\ msg = EventMessage(session.events[emitted + 1])
      PROVE  EventInv'
  <2>1. PICK l \in Nat, n \in Nat, n2 \in Nat : l = Len(sent) /\ n = emitted /\ n2 = emitted'
    <3>1. emitted' \in Nat
      BY <1>3, <1>5
    <3> QED BY <1>3, <3>1
  <2>2. Len(sent') = l + 1 /\ sent'[l + 1] = msg /\ \A i \in 1..l : sent'[i] = sent[i]
    BY <1>5, <2>1, WrittenBehind
  <2>3. \/ sent'[l + 1].code # StatusAsyncEvent /\ n2 = n
        \/ /\ sent'[l + 1].code = StatusAsyncEvent /\ n2 = n + 1
           /\ sent'[l + 1] = EventMessage(evs[n2])
    BY <1>2, <1>5, <2>1, <2>2
  <2>4. PICK msgs, msgs2 : msgs = sent /\ msgs2 = sent'
    OBVIOUS
  <2>5. PICK num2 : Numbered(msgs2, evs, n2, num2) /\ \A i \in 0..l : num2[i] = num[i]
    <3>1. Numbered(msgs, evs, n, num)
      BY <1>1, <1>2, <2>1, <2>4
    <3>2. OneMore(msgs, l, msgs2, evs, n, n2)
      BY <2>1, <2>2, <2>3, <2>4, Zenon DEF OneMore
    <3> QED BY <3>1, <3>2, NumberedAppend
  <2>6. Intact => num2[Len(responses)] = num[Len(responses)]
    BY <1>3, <1>4, <2>1, <2>5
  <2>7. ASSUME Intact, NEW i \in 1..Len(events)
        PROVE  OwnEvent(i)'
    <3>1. i <= emitted /\ events[i] = relayAsyncEvents(Meaning(EventMessage(session.events[i])))
      BY <2>7 DEF EventInv, OwnEvents, OwnEvent
    <3>2. i <= emitted'
      BY <1>3, <1>5, <3>1
    <3> QED BY <1>2, <1>5, <3>1, <3>2 DEF OwnEvent
  <2>8. OwnEvents'
    BY <1>5, <2>7 DEF OwnEvents, Intact
  <2> QED BY <1>1, <1>2, <1>5, <2>1, <2>4, <2>5, <2>6, <2>8 DEF EventInv, Intact
\* A message is read to its end.
<1>6. ASSUME ReadLast, Intact, UNCHANGED <<sent, emitted>>, responses' = Append(responses, Complete),
             \/ /\ IsAsync(Complete) /\ events' = Append(events, relayAsyncEvents(Complete))
             \/ ~IsAsync(Complete) /\ events' = events
      PROVE  EventInv'
  <2>1. PICK n \in Nat, k \in Nat, l \in Nat :
          n = Len(responses) /\ k = Len(events) /\ l = Len(sent)
    BY <1>3
  <2>2. PICK msg : msg = sent[n + 1]
    OBVIOUS
  <2>3. /\ Len(responses') = n + 1 /\ n + 1 \in 1..l
        /\ ContentOf(Complete) = Meaning(msg)
        /\ IsAsync(Complete) <=> msg.code = StatusAsyncEvent
    BY <1>6, <2>1, <2>2, NextMessage DEF Intact
  <2>4. /\ num[n] = k /\ num[n + 1] <= emitted
        /\ msg.code # StatusAsyncEvent => num[n + 1] = k
        /\ msg.code = StatusAsyncEvent => num[n + 1] = k + 1 /\ msg = EventMessage(evs[k + 1])
    <3>1. num[n] = k
      BY <1>1, <1>6, <2>1
    <3>2. (n + 1) - 1 = n
      OBVIOUS
    <3>3. PICK m \in 1..l : m = n + 1 /\ m - 1 = n
      BY <2>3, <3>2
    <3>4. /\ num[m] <= emitted
          /\ sent[m].code # StatusAsyncEvent => num[m] = num[m - 1]
          /\ sent[m].code = StatusAsyncEvent =>
               num[m] = num[m - 1] + 1 /\ sent[m] = EventMessage(evs[num[m]])
      BY <1>1, <1>2, <2>1 DEF Numbered
    <3> QED BY <2>2, <3>1, <3>3, <3>4
  <2>5. ASSUME NEW i \in 1..k
        PROVE  OwnEvent(i)
    BY <1>6, <2>1 DEF EventInv, OwnEvents
  <2>6. CASE ~IsAsync(Complete)
    <3>1. Len(events') = num[Len(responses')]
      BY <1>6, <2>1, <2>3, <2>4, <2>6
    <3>2. ASSUME NEW i \in 1..k
          PROVE  OwnEvent(i)'
      BY <1>2, <1>6, <2>5, <2>6 DEF OwnEvent
    <3>3. OwnEvents'
      BY <1>6, <2>1, <2>6, <3>2 DEF OwnEvents
    <3> QED BY <1>1, <1>2, <1>6, <3>1, <3>3 DEF EventInv
  <2>7. CASE IsAsync(Complete)
    <3>1. PICK e : e = relayAsyncEvents(Complete) /\ e = relayAsyncEvents(Meaning(EventMessage(evs[k + 1])))
      BY <2>3, <2>4, <2>7, SameEvent
    <3>2. /\ Len(events') = k + 1 /\ events'[k + 1] = e
          /\ \A i \in 1..k : events'[i] = events[i]
      BY <1>3, <1>6, <2>1, <2>7, <3>1, AppendToSequence
    <3>3. ASSUME NEW i \in 1..(k + 1)
          PROVE  OwnEvent(i)'
      <4>1. CASE i \in 1..k
        BY <1>2, <1>6, <2>5, <3>2, <4>1 DEF OwnEvent
      <4>2. CASE i = k + 1
        BY <1>2, <1>6, <2>3, <2>4, <2>7, <3>1, <3>2, <4>2 DEF OwnEvent
      <4> QED BY <4>1, <4>2
    <3>4. OwnEvents'
      BY <3>2, <3>3 DEF OwnEvents
    <3>5. Len(events') = num[Len(responses')]
      BY <2>3, <2>4, <2>7, <3>2
    <3> QED BY <1>1, <1>2, <1>6, <3>4, <3>5 DEF EventInv
  <2> QED BY <2>6, <2>7
\* Nothing that counts.
<1>7. ASSUME UNCHANGED <<sent, emitted, responses, events>>
      PROVE  EventInv'
  <2>1. ASSUME Intact', NEW i \in 1..Len(events)
        PROVE  OwnEvent(i)'
    <3>1. OwnEvent(i)
      BY <2>1, StillWhole DEF EventInv, OwnEvents
    <3> QED BY <1>2, <1>7, <3>1 DEF OwnEvent
  <2>2. OwnEvents'
    BY <1>7, <2>1 DEF OwnEvents
  <2> QED BY <1>1, <1>2, <1>7, <2>2, StillWhole DEF EventInv
\* After a protocol error or a torn line nothing is said but that Tor goes on
\* counting.
<1>8. ASSUME ~Intact', UNCHANGED <<sent, emitted>>
      PROVE  EventInv'
  BY <1>1, <1>2, <1>8 DEF EventInv, OwnEvents
<1>9. CASE TorEmits
  <2>1. PICK msg \in WireMessages :
          /\ Write(msg) /\ msg = EventMessage(session.events[emitted + 1])
          /\ msg.code = StatusAsyncEvent
    BY <1>9, EventWritten
  <2>2. emitted' = emitted + 1 /\ UNCHANGED <<broken, torn, responses, events>>
    BY <1>9 DEF TorEmits
  <2> QED BY <1>5, <2>1, <2>2
<1>10. CASE TorAnswers
  <2>1. PICK msg \in WireMessages : Write(msg) /\ msg.code # StatusAsyncEvent
    BY <1>10, AnswerIsNoEvent
  <2>2. UNCHANGED <<broken, torn, responses, events, emitted>>
    BY <1>10 DEF TorAnswers
  <2> QED BY <1>5, <2>1, <2>2
<1>11. CASE RelayEvent
  <2>1. /\ ReadReply /\ IsAsync(Complete) /\ UNCHANGED <<sent, emitted>>
        /\ responses' = Append(responses, Complete)
        /\ events' = Append(events, relayAsyncEvents(Complete))
    BY <1>11 DEF RelayEvent
  <2>2. ReadLast \/ ~Intact'
    BY <2>1 DEF ReadReply, ReadTorn, Intact
  <2> QED BY <1>6, <1>8, <2>1, <2>2, StillWhole
<1>12. CASE ReturnResponse
  <2>1. /\ ReadReply /\ ~IsAsync(Complete) /\ UNCHANGED <<sent, emitted, events>>
        /\ responses' = Append(responses, Complete)
    BY <1>12 DEF ReturnResponse, Returns
  <2>2. ReadLast \/ ~Intact'
    BY <2>1 DEF ReadReply, ReadTorn, Intact
  <2> QED BY <1>6, <1>8, <2>1, <2>2, StillWhole
<1>13. CASE \/ Cut \/ SendCommand \/ RefuseRequest \/ ReadData \/ ReturnError \/ HandlerFails
            \/ UNCHANGED vars
  <2>1. UNCHANGED <<sent, emitted, responses, events>>
    BY <1>13 DEF Cut, SendCommand, RefuseRequest, ReadData, ReturnError, Returns, HandlerFails, vars
  <2> QED BY <1>7, <2>1
<1> QED BY <1>9, <1>10, <1>11, <1>12, <1>13 DEF Next

\* Up to a protocol error or a torn line the events that are handled are those
\* that Tor emitted, each once, in its order, and decoded from its own lines, whether
\* a call or the handler reads them (cmd_event.go:269-286).
THEOREM EventsInOrder ==
  ASSUME RepliesAreNoEvents
  PROVE  Spec => []OwnEvents
<1>1. Init => EventInv
  BY EventInvInit
<1>2. Inv /\ Inv' /\ ConfInv /\ EventInv /\ [Next]_vars => EventInv'
  BY EventInvNext DEF ConfInv
<1>3. EventInv => OwnEvents
  BY DEF EventInv
<1> QED BY <1>1, <1>2, <1>3, ConfInvariance, PTL DEF Spec

----------------------------------------------------------------------------
(* The loops of Parse *)

\* The event after each of the positional words.
WordsRead(words, parts, empty, g) ==
  g = [i \in 0..Len(words) |->
         IF i = 0 THEN empty
         ELSE Set(g[i - 1], words[i], IF i <= Len(parts) THEN parts[i] ELSE Zero)]

\* The event after each of the attributes.
AttrsRead(attrs, other, rest, first, g) ==
  g = [n \in 0..Len(rest) |->
         IF n = 0 THEN first ELSE Attribute(attrs, other, g[n - 1], n, rest[n])]

LEMMA WordsReadExists ==
  ASSUME NEW words, NEW parts, NEW empty, Len(words) \in Nat
  PROVE  \E g : WordsRead(words, parts, empty, g)
<1>1. PICK S : S = {m \in Nat : \E g : g = [i \in 0..m |->
         IF i = 0 THEN empty
         ELSE Set(g[i - 1], words[i], IF i <= Len(parts) THEN parts[i] ELSE Zero)]}
  OBVIOUS
<1>2. 0 \in S
  <2>1. PICK g : g = [i \in 0..0 |-> empty]
    OBVIOUS
  <2>2. g = [i \in 0..0 |->
               IF i = 0 THEN empty
               ELSE Set(g[i - 1], words[i], IF i <= Len(parts) THEN parts[i] ELSE Zero)]
    BY <2>1
  <2> QED BY <1>1, <2>2
<1>3. ASSUME NEW m \in Nat, m \in S
      PROVE  m + 1 \in S
  <2>1. PICK g : g = [i \in 0..m |->
         IF i = 0 THEN empty
         ELSE Set(g[i - 1], words[i], IF i <= Len(parts) THEN parts[i] ELSE Zero)]
    BY <1>1, <1>3
  <2>2. PICK h : h = [i \in 0..(m + 1) |->
         IF i = m + 1
         THEN Set(g[m], words[i], IF i <= Len(parts) THEN parts[i] ELSE Zero) ELSE g[i]]
    OBVIOUS
  <2>3. ASSUME NEW i \in 0..(m + 1)
        PROVE  h[i] = IF i = 0 THEN empty
                      ELSE Set(h[i - 1], words[i], IF i <= Len(parts) THEN parts[i] ELSE Zero)
    <3>1. CASE i = m + 1
      <4>1. i # 0 /\ i - 1 = m /\ m \in 0..(m + 1) /\ m # m + 1
        BY <3>1
      <4>2. h[m] = g[m]
        BY <2>2, <4>1
      <4>3. h[i] = Set(g[m], words[i], IF i <= Len(parts) THEN parts[i] ELSE Zero)
        BY <2>2, <3>1
      <4> QED BY <4>1, <4>2, <4>3
    <3>2. CASE i # m + 1
      <4>1. i \in 0..m /\ (i # 0 => i - 1 \in 0..(m + 1) /\ i - 1 # m + 1)
        BY <3>2
      <4>2. g[i] = IF i = 0 THEN empty
                   ELSE Set(g[i - 1], words[i], IF i <= Len(parts) THEN parts[i] ELSE Zero)
        BY <2>1, <4>1
      <4>3. h[i] = g[i] /\ (i # 0 => h[i - 1] = g[i - 1])
        BY <2>2, <3>2, <4>1
      <4> QED BY <4>2, <4>3
    <3> QED BY <3>1, <3>2
  <2>4. h = [i \in 0..(m + 1) |->
         IF i = 0 THEN empty
         ELSE Set(h[i - 1], words[i], IF i <= Len(parts) THEN parts[i] ELSE Zero)]
    BY <2>2, <2>3
  <2> QED BY <1>1, <2>4
<1>4. Nat \subseteq S
  BY <1>2, <1>3, Induction
<1> QED BY <1>1, <1>4 DEF WordsRead

LEMMA AttrsReadExists ==
  ASSUME NEW attrs, NEW other, NEW rest, NEW first, Len(rest) \in Nat
  PROVE  \E g : AttrsRead(attrs, other, rest, first, g)
<1>1. PICK S : S = {m \in Nat : \E g : g = [n \in 0..m |->
         IF n = 0 THEN first ELSE Attribute(attrs, other, g[n - 1], n, rest[n])]}
  OBVIOUS
<1>2. 0 \in S
  <2>1. PICK g : g = [i \in 0..0 |-> first]
    OBVIOUS
  <2>2. g = [n \in 0..0 |->
               IF n = 0 THEN first ELSE Attribute(attrs, other, g[n - 1], n, rest[n])]
    BY <2>1
  <2> QED BY <1>1, <2>2
<1>3. ASSUME NEW m \in Nat, m \in S
      PROVE  m + 1 \in S
  <2>1. PICK g : g = [n \in 0..m |->
         IF n = 0 THEN first ELSE Attribute(attrs, other, g[n - 1], n, rest[n])]
    BY <1>1, <1>3
  <2>2. PICK h : h = [n \in 0..(m + 1) |->
         IF n = m + 1 THEN Attribute(attrs, other, g[m], n, rest[n]) ELSE g[n]]
    OBVIOUS
  <2>3. ASSUME NEW i \in 0..(m + 1)
        PROVE  h[i] = IF i = 0 THEN first ELSE Attribute(attrs, other, h[i - 1], i, rest[i])
    <3>1. CASE i = m + 1
      <4>1. i # 0 /\ i - 1 = m /\ m \in 0..(m + 1) /\ m # m + 1
        BY <3>1
      <4>2. h[m] = g[m]
        BY <2>2, <4>1
      <4>3. h[i] = Attribute(attrs, other, g[m], i, rest[i])
        BY <2>2, <3>1
      <4> QED BY <4>1, <4>2, <4>3
    <3>2. CASE i # m + 1
      <4>1. i \in 0..m /\ (i # 0 => i - 1 \in 0..(m + 1) /\ i - 1 # m + 1)
        BY <3>2
      <4>2. g[i] = IF i = 0 THEN first ELSE Attribute(attrs, other, g[i - 1], i, rest[i])
        BY <2>1, <4>1
      <4>3. h[i] = g[i] /\ (i # 0 => h[i - 1] = g[i - 1])
        BY <2>2, <3>2, <4>1
      <4> QED BY <4>2, <4>3
    <3> QED BY <3>1, <3>2
  <2>4. h = [n \in 0..(m + 1) |->
         IF n = 0 THEN first ELSE Attribute(attrs, other, h[n - 1], n, rest[n])]
    BY <2>2, <2>3
  <2> QED BY <1>1, <2>4
<1>4. Nat \subseteq S
  BY <1>2, <1>3, Induction
<1> QED BY <1>1, <1>4 DEF AttrsRead

AfterWords(words, parts, empty) == CHOOSE g : WordsRead(words, parts, empty, g)
AfterAttrs(attrs, other, rest, first) == CHOOSE g : AttrsRead(attrs, other, rest, first, g)

\* Parse is these two loops, the second over what the first leaves.
EventOf(words, attrs, other, parts, rest) ==
  AfterAttrs(attrs, other, rest,
             AfterWords(words, parts, [f \in Fields(words, attrs, other) |-> Zero])
               [Len(words)])[Len(rest)]

ParseLoops(raw, words, attrs, other, parts, rest) ==
  Merge([Raw |-> raw], EventOf(words, attrs, other, parts, rest))

LEMMA ParseIsLoops ==
  ASSUME NEW raw, NEW words, NEW attrs, NEW other
  PROVE  Parse(raw, words, attrs, other) =
           ParseLoops(raw, words, attrs, other, Split(raw, SP),
                      Positional(Split(raw, SP), Len(words)))
BY Zenon DEF ParseLoops, EventOf, Parse, AfterAttrs, AfterWords, AttrsRead, WordsRead

----------------------------------------------------------------------------
(* What an attribute sets *)

\* The fields that a rule sets for a word or a value, and to what.
Touched(rule, str) ==
  CASE rule[2] = "skip" -> {}
    [] rule[2] = "address" /\ PartitionStringFromEnd(str, ":").ok -> {rule[1], PortOf[rule[1]]}
    [] OTHER -> {rule[1]}

Put(rule, str, f) ==
  LET target == PartitionStringFromEnd(str, ":")
  IN CASE rule[2] = "address" /\ target.ok ->
            IF f = PortOf[rule[1]] THEN Atoi(target.tail) ELSE target.head
       [] rule[2] = "address" /\ ~target.ok -> str
       [] OTHER -> Convert(rule[2], str)

LEMMA SetFields ==
  ASSUME NEW event, NEW rule, NEW str
  PROVE  /\ DOMAIN Set(event, rule, str) = DOMAIN event
         /\ \A f \in DOMAIN event :
              Set(event, rule, str)[f] =
                IF f \in Touched(rule, str) THEN Put(rule, str, f) ELSE event[f]
<1>1. PICK target : target = PartitionStringFromEnd(str, ":")
  OBVIOUS
<1>2. CASE rule[2] = "skip"
  <2>1. Set(event, rule, str) = event /\ Touched(rule, str) = {}
    BY <1>2 DEF Set, Touched
  <2> QED BY <2>1
<1>3. CASE rule[2] = "address" /\ target.ok
  <2>1. Set(event, rule, str) =
          [event EXCEPT ![rule[1]] = target.head, ![PortOf[rule[1]]] = Atoi(target.tail)]
    BY <1>1, <1>3, Zenon DEF Set
  <2>2. Touched(rule, str) = {rule[1], PortOf[rule[1]]}
    BY <1>1, <1>3, Zenon DEF Touched
  <2>3. \A f : Put(rule, str, f) =
                 IF f = PortOf[rule[1]] THEN Atoi(target.tail) ELSE target.head
    BY <1>1, <1>3, Zenon DEF Put
  <2> QED BY <2>1, <2>2, <2>3
<1>4. CASE rule[2] = "address" /\ ~target.ok
  <2>1. Set(event, rule, str) = [event EXCEPT ![rule[1]] = str]
    BY <1>1, <1>4, Zenon DEF Set
  <2>2. Touched(rule, str) = {rule[1]}
    BY <1>1, <1>4, Zenon DEF Touched
  <2>3. \A f : Put(rule, str, f) = str
    BY <1>1, <1>4, Zenon DEF Put
  <2> QED BY <2>1, <2>2, <2>3
<1>5. CASE rule[2] # "skip" /\ rule[2] # "address"
  <2>1. Set(event, rule, str) = [event EXCEPT ![rule[1]] = Convert(rule[2], str)]
    BY <1>1, <1>5, Zenon DEF Set
  <2>2. Touched(rule, str) = {rule[1]}
    BY <1>1, <1>5, Zenon DEF Touched
  <2>3. \A f : Put(rule, str, f) = Convert(rule[2], str)
    BY <1>1, <1>5, Zenon DEF Put
  <2> QED BY <2>1, <2>2, <2>3
<1> QED BY <1>2, <1>3, <1>4, <1>5

\* An attribute as it is on the line.
AttributeText(a) == <<a.key, "=">> \o a.val

\* The fields an attribute of an event sets.
TouchedBy(attrs, a) == IF a.key \in DOMAIN attrs THEN Touched(attrs[a.key], a.val) ELSE {}

IsAttribute(a) == a.key \in Tokens \ {"="} /\ a.val \in Texts

LEMMA AttributeRead ==
  ASSUME NEW a, IsAttribute(a)
  PROVE  PartitionString(AttributeText(a), "=") = [head |-> <<a.key>>, tail |-> a.val, ok |-> TRUE]
<1>1. PICK key \in Tokens : key = a.key /\ key # "="
  BY DEF IsAttribute
<1>2. PICK val \in Texts : val = a.val
  BY DEF IsAttribute
<1>3. "=" \in Tokens
  BY DEF Tokens, Literals
<1>4. PICK eq \in Tokens : eq = "="
  BY <1>3
<1>5. PICK k \in Seq(Tokens) : k = <<key>> /\ Len(k) = 1 /\ k[1] = key
  BY OneTuple
<1>6. \A i \in 1..Len(k) : k[i] # eq
  BY <1>1, <1>4, <1>5
<1>7. PartitionString(k \o (<<eq>> \o val), eq) = [head |-> k, tail |-> val, ok |-> TRUE]
  BY <1>6, PartitionFirst DEF Texts
<1>8. <<key, eq>> \o val = k \o (<<eq>> \o val)
  <2>1. PICK e \in Seq(Tokens) : e = <<eq>>
    BY OneTuple
  <2>2. <<key, eq>> = k \o e
    BY <1>5, <2>1, TwoTuples
  <2>3. (k \o e) \o val = k \o (e \o val)
    BY ConcatAssociative DEF Texts
  <2> QED BY <2>1, <2>2, <2>3
<1> QED BY <1>1, <1>2, <1>4, <1>5, <1>7, <1>8 DEF AttributeText

LEMMA KeyRead ==
  ASSUME NEW attrs, NEW a, IsAttribute(a)
  PROVE  \E kv : /\ kv = PartitionString(AttributeText(a), "=")
                 /\ kv.head = <<a.key>> /\ kv.head[1] = a.key /\ kv.tail = a.val /\ kv.ok = TRUE
                 /\ kv.head \in {<<key>> : key \in DOMAIN attrs} <=> a.key \in DOMAIN attrs
<1>1. PICK kv : /\ kv = PartitionString(AttributeText(a), "=")
                /\ kv.head = <<a.key>> /\ kv.tail = a.val /\ kv.ok = TRUE
  BY AttributeRead
<1>2. kv.head \in {<<key>> : key \in DOMAIN attrs} <=> a.key \in DOMAIN attrs
  <2>1. \A key : <<a.key>> = <<key>> => a.key = key
    OBVIOUS
  <2> QED BY <1>1, <2>1, Zenon
<1>3. kv.head[1] = a.key
  BY <1>1
<1> QED BY <1>1, <1>2, <1>3

\* An attribute does what its rule says.
LEMMA KnownAttribute ==
  ASSUME NEW attrs, NEW other, NEW event, NEW n, NEW a, IsAttribute(a), a.key \in DOMAIN attrs
  PROVE  Attribute(attrs, other, event, n, AttributeText(a)) = Set(event, attrs[a.key], a.val)
<1>1. PICK kv : /\ kv = PartitionString(AttributeText(a), "=")
                /\ kv.head = <<a.key>> /\ kv.head[1] = a.key /\ kv.tail = a.val /\ kv.ok = TRUE
                /\ kv.head \in {<<key>> : key \in DOMAIN attrs} <=> a.key \in DOMAIN attrs
  BY KeyRead, Zenon
<1> QED BY <1>1, Zenon DEF Attribute

\* One that has none does nothing, unless it is taken for a path or is kept as
\* an argument.
LEMMA UnknownAttribute ==
  ASSUME NEW attrs, NEW other, NEW event, NEW n, NEW a, IsAttribute(a),
         a.key \notin DOMAIN attrs, other # "arguments", other # "path" \/ n # 1
  PROVE  Attribute(attrs, other, event, n, AttributeText(a)) = event
<1>1. PICK kv : /\ kv = PartitionString(AttributeText(a), "=")
                /\ kv.head = <<a.key>> /\ kv.head[1] = a.key /\ kv.tail = a.val /\ kv.ok = TRUE
                /\ kv.head \in {<<key>> : key \in DOMAIN attrs} <=> a.key \in DOMAIN attrs
  BY KeyRead, Zenon
<1> QED BY <1>1 DEF Attribute

ArgumentOf(a) == [key \in {<<a.key>>} |-> Convert("maybe quoted", a.val)]

WithArguments(event, args) == [event EXCEPT !.Arguments = args]

LEMMA ArgumentAttribute ==
  ASSUME NEW attrs, NEW event, NEW n, NEW a, IsAttribute(a), a.key \notin DOMAIN attrs
  PROVE  Attribute(attrs, "arguments", event, n, AttributeText(a)) =
           WithArguments(event, Merge(ArgumentOf(a), event.Arguments))
<1>1. PICK kv : /\ kv = PartitionString(AttributeText(a), "=")
                /\ kv.head = <<a.key>> /\ kv.head[1] = a.key /\ kv.tail = a.val /\ kv.ok = TRUE
                /\ kv.head \in {<<key>> : key \in DOMAIN attrs} <=> a.key \in DOMAIN attrs
  BY KeyRead, Zenon
<1>2. PICK arg : arg = [key \in {kv.head} |-> Convert("maybe quoted", kv.tail)]
  OBVIOUS
<1>3. Attribute(attrs, "arguments", event, n, AttributeText(a)) =
        [event EXCEPT !.Arguments = Merge(arg, event.Arguments)]
  BY <1>1, <1>2, Zenon DEF Attribute
<1>4. arg = ArgumentOf(a)
  BY <1>1, <1>2 DEF ArgumentOf
<1> QED BY <1>3, <1>4 DEF WithArguments

\* What one attribute makes of an event.
AttributeSets(attrs, a, before, after) ==
  /\ DOMAIN after = DOMAIN before
  /\ \A f \in DOMAIN before :
       after[f] = IF f \in TouchedBy(attrs, a) THEN Put(attrs[a.key], a.val, f) ELSE before[f]

LEMMA AttributeFields ==
  ASSUME NEW attrs, NEW other, other # "arguments", NEW event, NEW n, NEW a, IsAttribute(a),
         a.key \in DOMAIN attrs \/ other # "path" \/ n # 1
  PROVE  AttributeSets(attrs, a, event, Attribute(attrs, other, event, n, AttributeText(a)))
<1>1. CASE a.key \in DOMAIN attrs
  <2>1. Attribute(attrs, other, event, n, AttributeText(a)) = Set(event, attrs[a.key], a.val)
    BY <1>1, KnownAttribute
  <2>2. TouchedBy(attrs, a) = Touched(attrs[a.key], a.val)
    BY <1>1 DEF TouchedBy
  <2> QED BY <2>1, <2>2, SetFields DEF AttributeSets
<1>2. CASE a.key \notin DOMAIN attrs
  <2>1. Attribute(attrs, other, event, n, AttributeText(a)) = event
    BY <1>2, UnknownAttribute
  <2>2. TouchedBy(attrs, a) = {}
    BY <1>2 DEF TouchedBy
  <2> QED BY <2>1, <2>2 DEF AttributeSets
<1> QED BY <1>1, <1>2

----------------------------------------------------------------------------
(* All the attributes of a line *)

\* The attributes come after w other words.
RestOf(rest, w, as) ==
  /\ w \in Nat /\ Len(as) \in Nat /\ Len(rest) = w + Len(as)
  /\ \A i \in 1..Len(as) : IsAttribute(as[i]) /\ rest[w + i] = AttributeText(as[i])

\* No field is set by two attributes, and none is taken for a path.
Settled(attrs, other, w, as) ==
  /\ \A i, j \in 1..Len(as) : \A f :
       f \in TouchedBy(attrs, as[i]) /\ f \in TouchedBy(attrs, as[j]) => i = j
  /\ other # "path" \/ w # 0 \/ \A i \in 1..Len(as) : as[i].key \in DOMAIN attrs

\* The first n attributes have set their fields, and nothing else.
FieldsAfter(attrs, as, n, before, after) ==
  /\ DOMAIN after = DOMAIN before
  /\ \A f \in DOMAIN before :
       /\ (\A i \in 1..n : f \notin TouchedBy(attrs, as[i])) => after[f] = before[f]
       /\ \A i \in 1..n : f \in TouchedBy(attrs, as[i]) =>
            after[f] = Put(attrs[as[i].key], as[i].val, f)

LEMMA OneMoreAttribute ==
  ASSUME NEW attrs, NEW as, NEW n \in Nat, NEW before, NEW after, NEW next,
         FieldsAfter(attrs, as, n, before, after),
         AttributeSets(attrs, as[n + 1], after, next),
         \A i \in 1..n : \A f : ~(f \in TouchedBy(attrs, as[i]) /\ f \in TouchedBy(attrs, as[n + 1]))
  PROVE  FieldsAfter(attrs, as, n + 1, before, next)
<1>1. DOMAIN next = DOMAIN before
  BY DEF FieldsAfter, AttributeSets
<1>2. ASSUME NEW f \in DOMAIN before
      PROVE  /\ (\A i \in 1..(n + 1) : f \notin TouchedBy(attrs, as[i])) => next[f] = before[f]
             /\ \A i \in 1..(n + 1) : f \in TouchedBy(attrs, as[i]) =>
                  next[f] = Put(attrs[as[i].key], as[i].val, f)
  <2>1. /\ (\A i \in 1..n : f \notin TouchedBy(attrs, as[i])) => after[f] = before[f]
        /\ \A i \in 1..n : f \in TouchedBy(attrs, as[i]) =>
             after[f] = Put(attrs[as[i].key], as[i].val, f)
    BY DEF FieldsAfter
  <2>2. next[f] = IF f \in TouchedBy(attrs, as[n + 1])
                  THEN Put(attrs[as[n + 1].key], as[n + 1].val, f) ELSE after[f]
    BY Zenon DEF FieldsAfter, AttributeSets
  <2>3. n + 1 \in 1..(n + 1) /\ \A i \in 1..(n + 1) : i = n + 1 \/ i \in 1..n
    OBVIOUS
  <2>4. \A i \in 1..n : i \in 1..(n + 1)
    OBVIOUS
  <2>5. CASE f \in TouchedBy(attrs, as[n + 1])
    BY <2>2, <2>3, <2>5, Zenon
  <2>6. CASE f \notin TouchedBy(attrs, as[n + 1])
    BY <2>1, <2>2, <2>3, <2>4, <2>6, Zenon
  <2> QED BY <2>5, <2>6
<1> QED BY <1>1, <1>2 DEF FieldsAfter

LEMMA AttributesSet ==
  ASSUME NEW attrs, NEW other, other # "arguments", NEW rest, NEW first, NEW h,
         AttrsRead(attrs, other, rest, first, h),
         NEW w, NEW as, RestOf(rest, w, as), Settled(attrs, other, w, as)
  PROVE  FieldsAfter(attrs, as, Len(as), h[w], h[w + Len(as)])
<1>1. PICK m \in Nat, l \in Nat : m = Len(as) /\ l = w /\ Len(rest) = l + m
  BY DEF RestOf
<1>2. PICK S : S = {n \in Nat : n <= m => FieldsAfter(attrs, as, n, h[l], h[l + n])}
  OBVIOUS
<1>3. 0 \in S
  <2>1. l + 0 = l /\ 1..0 = {}
    OBVIOUS
  <2>2. FieldsAfter(attrs, as, 0, h[l], h[l])
    BY <2>1 DEF FieldsAfter
  <2> QED BY <1>2, <2>1, <2>2
<1>4. ASSUME NEW n \in Nat, n \in S
      PROVE  n + 1 \in S
  <2> SUFFICES ASSUME n + 1 <= m
               PROVE  FieldsAfter(attrs, as, n + 1, h[l], h[l + (n + 1)])
    <3>1. n + 1 \in Nat
      OBVIOUS
    <3> QED BY <1>2, <3>1, Zenon
  <2>1. FieldsAfter(attrs, as, n, h[l], h[l + n])
    <3>1. n <= m
      OBVIOUS
    <3> QED BY <1>2, <1>4, <3>1
  <2>2. PICK k \in 1..m : k = n + 1
    OBVIOUS
  <2>3. PICK p \in 0..(l + m) : p = l + (n + 1) /\ p # 0 /\ p - 1 = l + n /\ p = l + k
    BY <2>2
  <2>4. PICK a : a = as[k]
    OBVIOUS
  <2>5. IsAttribute(a) /\ rest[p] = AttributeText(a)
    BY <1>1, <2>3, <2>4 DEF RestOf
  <2>6. h[p] = Attribute(attrs, other, h[l + n], p, AttributeText(a))
    <3>1. h[p] = IF p = 0 THEN first ELSE Attribute(attrs, other, h[p - 1], p, rest[p])
      BY <1>1 DEF AttrsRead
    <3> QED BY <2>3, <2>5, <3>1
  <2>7. a.key \in DOMAIN attrs \/ other # "path" \/ p # 1
    <3>1. l # 0 => p # 1
      BY <2>3
    <3> QED BY <1>1, <2>4, <3>1 DEF Settled
  <2>8. AttributeSets(attrs, a, h[l + n], h[p])
    BY <2>5, <2>6, <2>7, AttributeFields
  <2>9. \A i \in 1..n : \A f : ~(f \in TouchedBy(attrs, as[i]) /\ f \in TouchedBy(attrs, as[n + 1]))
    <3>1. \A i \in 1..n : i \in 1..m /\ i # n + 1
      OBVIOUS
    <3>2. n + 1 \in 1..m
      OBVIOUS
    <3> QED BY <1>1, <3>1, <3>2, Zenon DEF Settled
  <2>10. FieldsAfter(attrs, as, n + 1, h[l], h[p])
    BY <2>1, <2>2, <2>4, <2>8, <2>9, OneMoreAttribute, Zenon
  <2> QED BY <2>3, <2>10
<1>5. m \in S
  <2>1. Nat \subseteq S
    BY <1>3, <1>4, Induction
  <2> QED BY <2>1
<1>6. m <= m
  OBVIOUS
<1> QED BY <1>1, <1>2, <1>5, <1>6

\* The attributes that set something are the same ones, in whatever order.
Sets(attrs, as, bs) ==
  \A i \in 1..Len(as) :
    TouchedBy(attrs, as[i]) # {} => \E j \in 1..Len(bs) : bs[j] = as[i]

\* Two events that differ in nothing but the line they keep.
SameBut(x, y) == DOMAIN x = DOMAIN y /\ \A f \in DOMAIN x \ {"Raw"} : x[f] = y[f]

LEMMA SameFields ==
  ASSUME NEW attrs, NEW as, NEW bs, NEW before, NEW a, NEW b,
         FieldsAfter(attrs, as, Len(as), before, a), FieldsAfter(attrs, bs, Len(bs), before, b),
         Sets(attrs, as, bs), Sets(attrs, bs, as)
  PROVE  SameBut(a, b)
<1>1. DOMAIN a = DOMAIN before /\ DOMAIN b = DOMAIN before
  BY DEF FieldsAfter
<1>2. ASSUME NEW f \in DOMAIN before
      PROVE  a[f] = b[f]
  <2>1. CASE \E i \in 1..Len(as) : f \in TouchedBy(attrs, as[i])
    <3>1. PICK i \in 1..Len(as) : f \in TouchedBy(attrs, as[i])
      BY <2>1
    <3>2. PICK j \in 1..Len(bs) : bs[j] = as[i]
      BY <3>1, Zenon DEF Sets
    <3>3. a[f] = Put(attrs[as[i].key], as[i].val, f)
      BY <3>1 DEF FieldsAfter
    <3>4. b[f] = Put(attrs[bs[j].key], bs[j].val, f)
      BY <3>1, <3>2, Zenon DEF FieldsAfter
    <3> QED BY <3>2, <3>3, <3>4
  <2>2. CASE \A i \in 1..Len(as) : f \notin TouchedBy(attrs, as[i])
    <3>1. a[f] = before[f]
      BY <2>2, Zenon DEF FieldsAfter
    <3>2. ASSUME NEW j \in 1..Len(bs), f \in TouchedBy(attrs, bs[j])
          PROVE  FALSE
      <4>1. PICK i \in 1..Len(as) : as[i] = bs[j]
        BY <3>2, Zenon DEF Sets
      <4> QED BY <2>2, <3>2, <4>1
    <3>3. b[f] = before[f]
      BY <3>2, Zenon DEF FieldsAfter
    <3> QED BY <3>1, <3>3
  <2> QED BY <2>1, <2>2
<1> QED BY <1>1, <1>2 DEF SameBut

----------------------------------------------------------------------------
(* What comes before the attributes *)

\* Two texts that begin with the same n parts.
Begin(a, b, n) ==
  /\ n \in Nat /\ Len(a) \in Nat /\ Len(b) \in Nat /\ n <= Len(a) /\ n <= Len(b)
  /\ \A i \in 1..n : a[i] = b[i]

LEMMA WordsAgree ==
  ASSUME NEW words, NEW a, NEW b, NEW empty, NEW g, NEW h, Begin(a, b, Len(words)),
         WordsRead(words, a, empty, g), WordsRead(words, b, empty, h)
  PROVE  g[Len(words)] = h[Len(words)]
<1>1. PICK m \in Nat, k \in Nat, l \in Nat :
        m = Len(words) /\ k = Len(a) /\ l = Len(b) /\ m <= k /\ m <= l
  BY DEF Begin
<1>2. PICK S : S = {n \in Nat : n <= m => g[n] = h[n]}
  OBVIOUS
<1>3. 0 \in S
  BY <1>1, <1>2 DEF WordsRead
<1>4. ASSUME NEW n \in Nat, n \in S
      PROVE  n + 1 \in S
  <2> SUFFICES ASSUME n + 1 <= m
               PROVE  g[n + 1] = h[n + 1]
    <3>1. n + 1 \in Nat
      OBVIOUS
    <3> QED BY <1>2, <3>1, Zenon
  <2>1. n <= m
    OBVIOUS
  <2>2. g[n] = h[n]
    BY <1>2, <1>4, <2>1
  <2>3. PICK p \in 1..m : p = n + 1 /\ p - 1 = n /\ p \in 0..m /\ p # 0 /\ p <= k /\ p <= l
    BY <1>1
  <2>4. a[p] = b[p]
    BY <1>1, <2>3 DEF Begin
  <2>5. g[p] = Set(g[p - 1], words[p], a[p])
    BY <1>1, <2>3 DEF WordsRead
  <2>6. h[p] = Set(h[p - 1], words[p], b[p])
    BY <1>1, <2>3 DEF WordsRead
  <2> QED BY <2>2, <2>3, <2>4, <2>5, <2>6
<1>5. m \in S
  <2>1. Nat \subseteq S
    BY <1>3, <1>4, Induction
  <2> QED BY <2>1
<1>6. m <= m
  OBVIOUS
<1> QED BY <1>1, <1>2, <1>5, <1>6

LEMMA AttrsAgree ==
  ASSUME NEW attrs, NEW other, NEW a, NEW b, NEW first, NEW g, NEW h, NEW w, Begin(a, b, w),
         AttrsRead(attrs, other, a, first, g), AttrsRead(attrs, other, b, first, h)
  PROVE  g[w] = h[w]
<1>1. PICK m \in Nat, k \in Nat, l \in Nat :
        m = w /\ k = Len(a) /\ l = Len(b) /\ m <= k /\ m <= l
  BY DEF Begin
<1>2. PICK S : S = {n \in Nat : n <= m => g[n] = h[n]}
  OBVIOUS
<1>3. 0 \in S
  <2>1. 0 \in 0..k /\ 0 \in 0..l
    OBVIOUS
  <2> QED BY <1>1, <1>2, <2>1 DEF AttrsRead
<1>4. ASSUME NEW n \in Nat, n \in S
      PROVE  n + 1 \in S
  <2> SUFFICES ASSUME n + 1 <= m
               PROVE  g[n + 1] = h[n + 1]
    <3>1. n + 1 \in Nat
      OBVIOUS
    <3> QED BY <1>2, <3>1, Zenon
  <2>1. n <= m
    OBVIOUS
  <2>2. g[n] = h[n]
    BY <1>2, <1>4, <2>1
  <2>3. PICK p \in 1..m : p = n + 1 /\ p - 1 = n /\ p \in 0..k /\ p \in 0..l /\ p # 0
    BY <1>1
  <2>4. a[p] = b[p]
    BY <1>1, <2>3 DEF Begin
  <2>5. g[p] = Attribute(attrs, other, g[p - 1], p, a[p])
    BY <1>1, <2>3 DEF AttrsRead
  <2>6. h[p] = Attribute(attrs, other, h[p - 1], p, b[p])
    BY <1>1, <2>3 DEF AttrsRead
  <2> QED BY <2>2, <2>3, <2>4, <2>5, <2>6
<1>5. m \in S
  <2>1. Nat \subseteq S
    BY <1>3, <1>4, Induction
  <2> QED BY <2>1
<1>6. m <= m
  OBVIOUS
<1> QED BY <1>1, <1>2, <1>5, <1>6

----------------------------------------------------------------------------
(* Two lines *)

\* The words and the attributes of a line.
Parted(parts, ws, as) ==
  /\ parts \in Seq(Texts) /\ Len(ws) \in Nat /\ Len(as) \in Nat
  /\ Len(parts) = Len(ws) + Len(as)
  /\ \A i \in 1..Len(ws) : parts[i] = ws[i]
  /\ \A i \in 1..Len(as) : IsAttribute(as[i]) /\ parts[Len(ws) + i] = AttributeText(as[i])

\* The loop over the attributes sees what follows the first n words.
LEMMA AfterPositional ==
  ASSUME NEW parts, NEW ws, NEW as, Parted(parts, ws, as), NEW n \in Nat, n <= Len(ws)
  PROVE  /\ Len(Positional(parts, n)) = Len(parts) - n
         /\ \A i \in 1..(Len(parts) - n) : Positional(parts, n)[i] = parts[n + i]
<1>1. PICK ps \in Seq(Texts), l \in Nat : ps = parts /\ l = Len(ps) /\ n <= l
  <2>1. PICK ps \in Seq(Texts) : ps = parts
    BY DEF Parted
  <2>2. PICK k \in Nat, m \in Nat : k = Len(ws) /\ m = Len(as) /\ Len(parts) = k + m
    BY DEF Parted
  <2>a. n <= k
    BY <2>2
  <2>3. PICK l \in Nat : l = k + m /\ n <= l
    BY <2>a
  <2> QED BY <2>1, <2>2, <2>3
<1>2. Len(SubSeq(ps, n + 1, l)) = l - n
  <2>1. n + 1 \in Nat /\ n + 1 <= l + 1 /\ l - (n + 1) + 1 = l - n
    BY <1>1
  <2> QED BY <1>1, <2>1, SubSeqProperties
<1>3. \A i \in 1..(l - n) : SubSeq(ps, n + 1, l)[i] = ps[n + i]
  BY <1>1, SubSeqProperties
<1> QED BY <1>1, <1>2, <1>3 DEF Positional

\* The same event before two rows of attributes, and after each of them.
Halves(attrs, other, w, as, bs, a, b) ==
  \E first, p, q, g, h :
    /\ AttrsRead(attrs, other, p, first, g) /\ AttrsRead(attrs, other, q, first, h)
    /\ RestOf(p, w, as) /\ RestOf(q, w, bs) /\ g[w] = h[w]
    /\ a = g[w + Len(as)] /\ b = h[w + Len(bs)]

LEMMA RestAfter ==
  ASSUME NEW parts, NEW ws, NEW as, Parted(parts, ws, as), NEW n \in Nat, n <= Len(ws)
  PROVE  RestOf(Positional(parts, n), Len(ws) - n, as)
<1>1. PICK k \in Nat, m \in Nat : k = Len(ws) /\ m = Len(as) /\ Len(parts) = k + m
  BY DEF Parted
<1>2. PICK w \in Nat : w = k - n /\ Len(parts) - n = w + m
  <2>1. n <= k
    BY <1>1
  <2>2. PICK w \in Nat : w = k - n
    BY <2>1
  <2>3. (k + m) - n = w + m
    BY <2>2
  <2> QED BY <1>1, <2>2, <2>3
<1>3. PICK p : p = Positional(parts, n)
  OBVIOUS
<1>4. Len(p) = w + m /\ \A i \in 1..(w + m) : p[i] = parts[n + i]
  <2>1. /\ Len(p) = Len(parts) - n
        /\ \A i \in 1..(Len(parts) - n) : p[i] = parts[n + i]
    BY <1>3, AfterPositional, Zenon
  <2> QED BY <1>2, <2>1
<1>5. ASSUME NEW i \in 1..m
      PROVE  IsAttribute(as[i]) /\ p[w + i] = AttributeText(as[i])
  <2>1. w + i \in 1..(w + m) /\ n + (w + i) = k + i
    BY <1>2
  <2>2. p[w + i] = parts[k + i]
    BY <1>4, <2>1
  <2> QED BY <1>1, <2>2 DEF Parted
<1> QED BY <1>1, <1>2, <1>3, <1>4, <1>5 DEF RestOf

LEMMA LinesHalve ==
  ASSUME NEW rules, NEW attrs, NEW other, NEW ws, NEW as, NEW bs, NEW ps, NEW qs,
         Parted(ps, ws, as), Parted(qs, ws, bs), Len(rules) \in Nat, Len(rules) <= Len(ws)
  PROVE  Halves(attrs, other, Len(ws) - Len(rules), as, bs,
                EventOf(rules, attrs, other, ps, Positional(ps, Len(rules))),
                EventOf(rules, attrs, other, qs, Positional(qs, Len(rules))))
<1>1. PICK n \in Nat, k \in Nat, la \in Nat, lb \in Nat :
        /\ n = Len(rules) /\ k = Len(ws) /\ n <= k /\ la = Len(as) /\ lb = Len(bs)
        /\ Len(ps) = k + la /\ Len(qs) = k + lb
  BY DEF Parted
<1>a. n <= k
  BY <1>1
<1>2. PICK w \in Nat : w = k - n
  BY <1>a
<1>3. PICK p, q : p = Positional(ps, n) /\ q = Positional(qs, n)
  OBVIOUS
<1>4. RestOf(p, w, as) /\ RestOf(q, w, bs)
  BY <1>1, <1>2, <1>3, RestAfter
<1>5. Len(p) = w + la /\ Len(q) = w + lb
  BY <1>1, <1>4 DEF RestOf
<1>6. Begin(ps, qs, n)
  <2>1. \A i \in 1..n : ps[i] = qs[i]
    <3>1. \A i \in 1..n : i \in 1..k
      BY <1>1
    <3> QED BY <1>1, <3>1 DEF Parted
  <2>2. PICK l \in Nat, m \in Nat : l = k + la /\ m = k + lb /\ n <= l /\ n <= m
    BY <1>a
  <2>3. Len(ps) = l /\ Len(qs) = m
    BY <1>1, <2>2
  <2> QED BY <2>1, <2>2, <2>3 DEF Begin
<1>7. Begin(p, q, w)
  <2>1. ASSUME NEW i \in 1..w
        PROVE  p[i] = q[i]
    <3>1. n + i \in 1..k
      BY <1>1, <1>2
    <3>2. i \in 1..(Len(ps) - n) /\ i \in 1..(Len(qs) - n)
      <4>1. i \in 1..((k + la) - n) /\ i \in 1..((k + lb) - n)
        BY <1>2
      <4> QED BY <1>1, <4>1
    <3>3. p[i] = ps[n + i] /\ q[i] = qs[n + i]
      <4>1. n <= Len(ws)
        BY <1>1
      <4>2. \A m \in 1..(Len(ps) - n) : p[m] = ps[n + m]
        BY <1>3, <4>1, AfterPositional, Zenon
      <4>3. \A m \in 1..(Len(qs) - n) : q[m] = qs[n + m]
        BY <1>3, <4>1, AfterPositional, Zenon
      <4> QED BY <3>2, <4>2, <4>3
    <3>4. ps[n + i] = ws[n + i] /\ qs[n + i] = ws[n + i]
      <4>1. n + i \in 1..Len(ws)
        BY <1>1, <3>1
      <4> QED BY <4>1, Zenon DEF Parted
    <3> QED BY <3>3, <3>4
  <2> QED BY <1>5, <2>1 DEF Begin
<1>8. PICK empty : empty = [f \in Fields(rules, attrs, other) |-> Zero]
  OBVIOUS
<1>9. PICK first : first = AfterWords(rules, ps, empty)[n] /\ first = AfterWords(rules, qs, empty)[n]
  <2>1. /\ WordsRead(rules, ps, empty, AfterWords(rules, ps, empty))
        /\ WordsRead(rules, qs, empty, AfterWords(rules, qs, empty))
    BY <1>1, WordsReadExists, Zenon DEF AfterWords
  <2>2. AfterWords(rules, ps, empty)[n] = AfterWords(rules, qs, empty)[n]
    BY <1>1, <1>6, <2>1, WordsAgree
  <2> QED BY <2>2
<1>10. PICK g, h : g = AfterAttrs(attrs, other, p, first) /\ h = AfterAttrs(attrs, other, q, first)
  OBVIOUS
<1>11. AttrsRead(attrs, other, p, first, g) /\ AttrsRead(attrs, other, q, first, h)
  <2>1. Len(p) \in Nat /\ Len(q) \in Nat
    BY <1>5
  <2> QED BY <1>10, <2>1, AttrsReadExists, Zenon DEF AfterAttrs
<1>12. g[w] = h[w]
  BY <1>7, <1>11, AttrsAgree
<1>13. EventOf(rules, attrs, other, ps, p) = g[w + la] /\ EventOf(rules, attrs, other, qs, q) = h[w + lb]
  <2>1. EventOf(rules, attrs, other, ps, p) = g[Len(p)]
    BY <1>1, <1>8, <1>9, <1>10, Zenon DEF EventOf
  <2>2. EventOf(rules, attrs, other, qs, q) = h[Len(q)]
    BY <1>1, <1>8, <1>9, <1>10, Zenon DEF EventOf
  <2> QED BY <1>5, <2>1, <2>2
<1>14. Halves(attrs, other, w, as, bs, EventOf(rules, attrs, other, ps, p),
              EventOf(rules, attrs, other, qs, q))
  BY <1>1, <1>4, <1>11, <1>12, <1>13, Zenon DEF Halves
<1> QED BY <1>1, <1>2, <1>3, <1>14

LEMMA RawApart ==
  ASSUME NEW raw, NEW raw2, NEW x, NEW y, SameBut(x, y)
  PROVE  SameBut(Merge([Raw |-> raw], x), Merge([Raw |-> raw2], y))
<1>1. PICK u, v : u = Merge([Raw |-> raw], x) /\ v = Merge([Raw |-> raw2], y)
  OBVIOUS
<1>2. PICK r : r = [Raw |-> raw] /\ DOMAIN r = {"Raw"}
  <2>1. DOMAIN [Raw |-> raw] = {"Raw"}
    OBVIOUS
  <2> QED BY <2>1, Zenon
<1>a. PICK q : q = [Raw |-> raw2] /\ DOMAIN q = {"Raw"}
  <2>1. DOMAIN [Raw |-> raw2] = {"Raw"}
    OBVIOUS
  <2> QED BY <2>1, Zenon
<1>3. DOMAIN u = {"Raw"} \cup DOMAIN x /\ \A f \in DOMAIN x \ {"Raw"} : u[f] = x[f]
  BY <1>1, <1>2 DEF Merge
<1>4. DOMAIN v = {"Raw"} \cup DOMAIN y /\ \A f \in DOMAIN y \ {"Raw"} : v[f] = y[f]
  BY <1>1, <1>a DEF Merge
<1> QED BY <1>1, <1>3, <1>4 DEF SameBut

\* Attributes that set no field twice may come in any order, for all parsers
\* but those that keep arguments.
LEMMA ParseCommutes ==
  ASSUME NEW rules, NEW attrs, NEW other, other # "arguments", NEW raw, NEW raw2,
         NEW ws, NEW as, NEW bs, Parted(Split(raw, SP), ws, as), Parted(Split(raw2, SP), ws, bs),
         Len(rules) \in Nat, Len(rules) <= Len(ws),
         Settled(attrs, other, Len(ws) - Len(rules), as),
         Settled(attrs, other, Len(ws) - Len(rules), bs),
         Sets(attrs, as, bs), Sets(attrs, bs, as)
  PROVE  SameBut(Parse(raw, rules, attrs, other), Parse(raw2, rules, attrs, other))
<1>1. PICK w : w = Len(ws) - Len(rules)
  OBVIOUS
<1>2. PICK a, b : /\ a = EventOf(rules, attrs, other, Split(raw, SP), Positional(Split(raw, SP), Len(rules)))
                  /\ b = EventOf(rules, attrs, other, Split(raw2, SP), Positional(Split(raw2, SP), Len(rules)))
  OBVIOUS
<1>3. Halves(attrs, other, w, as, bs, a, b)
  BY <1>1, <1>2, LinesHalve
<1>4. SameBut(a, b)
  <2>1. PICK first, p, q, g, h :
          /\ AttrsRead(attrs, other, p, first, g) /\ AttrsRead(attrs, other, q, first, h)
          /\ RestOf(p, w, as) /\ RestOf(q, w, bs) /\ g[w] = h[w]
          /\ a = g[w + Len(as)] /\ b = h[w + Len(bs)]
    BY <1>3, Zenon DEF Halves
  <2>2. FieldsAfter(attrs, as, Len(as), g[w], a)
    BY <1>1, <2>1, AttributesSet
  <2>3. FieldsAfter(attrs, bs, Len(bs), g[w], b)
    BY <1>1, <2>1, AttributesSet
  <2>4. Sets(attrs, as, bs) /\ Sets(attrs, bs, as)
    OBVIOUS
  <2> QED BY <2>2, <2>3, <2>4, SameFields
<1> QED BY <1>2, <1>4, RawApart, ParseIsLoops DEF ParseLoops

----------------------------------------------------------------------------
(* The arguments of a STATUS event *)

IsMap(f) == f = [key \in DOMAIN f |-> f[key]]

\* The first n attributes have become arguments.
ArgumentsAfter(as, n, before, after) ==
  /\ n = 0 => after = before
  /\ n # 0 => IsMap(after)
  /\ \A key : key \in DOMAIN after <=>
       key \in DOMAIN before \/ \E i \in 1..n : key = <<as[i].key>>
  /\ \A i \in 1..n : after[<<as[i].key>>] = Convert("maybe quoted", as[i].val)
  /\ \A key \in DOMAIN before :
       (\A i \in 1..n : key # <<as[i].key>>) => after[key] = before[key]

\* One more argument.
Gains(key, val, before, after) ==
  /\ IsMap(after) /\ after[key] = val
  /\ \A k : k \in DOMAIN after <=> k = key \/ k \in DOMAIN before
  /\ \A k \in DOMAIN before : k # key => after[k] = before[k]

GainsArgument(a, before, after) == Gains(<<a.key>>, Convert("maybe quoted", a.val), before, after)

LEMMA MergeAdds ==
  ASSUME NEW a, NEW before
  PROVE  GainsArgument(a, before, Merge(ArgumentOf(a), before))
<1>a. PICK key, val : key = <<a.key>> /\ val = Convert("maybe quoted", a.val)
  OBVIOUS
<1>1. PICK new : new = [k \in {key} |-> val] /\ new = ArgumentOf(a)
  BY <1>a DEF ArgumentOf
<1>2. DOMAIN new = {key} /\ new[key] = val
  BY <1>1
<1>3. PICK after : after = Merge(new, before)
  OBVIOUS
<1>4. after = [f \in DOMAIN new \cup DOMAIN before |-> IF f \in DOMAIN new THEN new[f] ELSE before[f]]
  BY <1>3 DEF Merge
<1>5. IsMap(after)
  BY <1>4 DEF IsMap
<1>6. /\ after[key] = val
      /\ \A k : k \in DOMAIN after <=> k = key \/ k \in DOMAIN before
      /\ \A k \in DOMAIN before : k # key => after[k] = before[k]
  BY <1>2, <1>4
<1> QED BY <1>a, <1>1, <1>3, <1>5, <1>6 DEF Gains, GainsArgument

LEMMA OneMoreArgument ==
  ASSUME NEW as, NEW n \in Nat, NEW before, NEW after, NEW new,
         ArgumentsAfter(as, n, before, after),
         GainsArgument(as[n + 1], after, new),
         \A i \in 1..n : as[i].key # as[n + 1].key
  PROVE  ArgumentsAfter(as, n + 1, before, new)
<1>1. PICK m \in Nat : m = n + 1
  OBVIOUS
<1>2. /\ m # 0 /\ m \in 1..m /\ \A i \in 1..n : i \in 1..m
      /\ \A i \in 1..m : i = m \/ i \in 1..n
  <2>1. m # 0 /\ m \in 1..m
    BY <1>1
  <2>2. \A i \in 1..n : i \in 1..m
    BY <1>1
  <2>3. \A i \in 1..m : i = m \/ i \in 1..n
    BY <1>1
  <2> QED BY <2>1, <2>2, <2>3
<1>3. PICK key, val : key = <<as[m].key>> /\ val = Convert("maybe quoted", as[m].val)
  OBVIOUS
<1>4. \A i \in 1..n : <<as[i].key>> # key
  <2>1. \A x, y : <<x>> = <<y>> => x = y
    OBVIOUS
  <2>2. \A i \in 1..n : as[i].key # as[m].key
    BY <1>1
  <2> QED BY <1>3, <2>1, <2>2, Zenon
<1>5. Gains(key, val, after, new)
  BY <1>1, <1>3 DEF GainsArgument
<1>6. IsMap(new)
  BY <1>5 DEF Gains
<1>7. ASSUME NEW k
      PROVE  k \in DOMAIN new <=> k \in DOMAIN before \/ \E i \in 1..m : k = <<as[i].key>>
  <2>1. k \in DOMAIN new <=> k = key \/ k \in DOMAIN after
    BY <1>5 DEF Gains
  <2>2. k \in DOMAIN after <=> k \in DOMAIN before \/ \E i \in 1..n : k = <<as[i].key>>
    BY DEF ArgumentsAfter
  <2> QED BY <1>2, <1>3, <2>1, <2>2, Zenon
<1>8. ASSUME NEW i \in 1..m
      PROVE  new[<<as[i].key>>] = Convert("maybe quoted", as[i].val)
  <2>1. CASE i = m
    BY <1>3, <1>5, <2>1 DEF Gains
  <2>2. CASE i \in 1..n
    <3>1. PICK k : k = <<as[i].key>> /\ k # key
      BY <1>4, <2>2
    <3>2. k \in DOMAIN after /\ after[k] = Convert("maybe quoted", as[i].val)
      BY <2>2, <3>1, Zenon DEF ArgumentsAfter
    <3> QED BY <1>5, <3>1, <3>2, Zenon DEF Gains
  <2> QED BY <1>2, <2>1, <2>2
<1>9. ASSUME NEW k \in DOMAIN before, \A i \in 1..m : k # <<as[i].key>>
      PROVE  new[k] = before[k]
  <2>1. k # key /\ \A i \in 1..n : k # <<as[i].key>>
    BY <1>2, <1>3, <1>9, Zenon
  <2>2. k \in DOMAIN after /\ after[k] = before[k]
    BY <2>1, Zenon DEF ArgumentsAfter
  <2> QED BY <1>5, <2>1, <2>2, Zenon DEF Gains
<1> QED BY <1>1, <1>2, <1>6, <1>7, <1>8, <1>9, Zenon DEF ArgumentsAfter

\* The same attributes.
SameSet(as, bs) ==
  /\ \A i \in 1..Len(as) : \E j \in 1..Len(bs) : bs[j] = as[i]
  /\ \A j \in 1..Len(bs) : \E i \in 1..Len(as) : as[i] = bs[j]

LEMMA SameArguments ==
  ASSUME NEW as, NEW bs, NEW before, NEW x, NEW y, Len(as) \in Nat, Len(bs) \in Nat,
         ArgumentsAfter(as, Len(as), before, x), ArgumentsAfter(bs, Len(bs), before, y),
         SameSet(as, bs)
  PROVE  x = y
<1>1. PICK n \in Nat, m \in Nat : n = Len(as) /\ m = Len(bs)
  OBVIOUS
<1>2. n = 0 <=> m = 0
  <2>1. n # 0 => 1 \in 1..n
    OBVIOUS
  <2>2. m # 0 => 1 \in 1..m
    OBVIOUS
  <2>3. n = 0 => 1..n = {}
    OBVIOUS
  <2>4. m = 0 => 1..m = {}
    OBVIOUS
  <2> QED BY <1>1, <2>1, <2>2, <2>3, <2>4 DEF SameSet
<1>3. CASE n = 0
  BY <1>1, <1>2, <1>3 DEF ArgumentsAfter
<1>4. CASE n # 0
  <2>1. IsMap(x) /\ IsMap(y)
    BY <1>1, <1>2, <1>4 DEF ArgumentsAfter
  <2>2. ASSUME NEW key
        PROVE  (\E i \in 1..n : key = <<as[i].key>>) <=> (\E j \in 1..m : key = <<bs[j].key>>)
    BY <1>1, Zenon DEF SameSet
  <2>3. \A key : key \in DOMAIN x <=> key \in DOMAIN y
    <3>1. \A key : key \in DOMAIN x <=>
            key \in DOMAIN before \/ \E i \in 1..n : key = <<as[i].key>>
      BY <1>1, Zenon DEF ArgumentsAfter
    <3>2. \A key : key \in DOMAIN y <=>
            key \in DOMAIN before \/ \E i \in 1..m : key = <<bs[i].key>>
      BY <1>1, Zenon DEF ArgumentsAfter
    <3> QED BY <2>2, <3>1, <3>2, Zenon
  <2>4. ASSUME NEW key \in DOMAIN x
        PROVE  x[key] = y[key]
    <3>1. CASE \E i \in 1..n : key = <<as[i].key>>
      <4>1. PICK i \in 1..n : key = <<as[i].key>>
        BY <3>1
      <4>2. PICK j \in 1..m : bs[j] = as[i]
        BY <1>1 DEF SameSet
      <4>3. x[key] = Convert("maybe quoted", as[i].val)
        BY <1>1, <4>1, Zenon DEF ArgumentsAfter
      <4>4. y[<<bs[j].key>>] = Convert("maybe quoted", bs[j].val)
        BY <1>1, Zenon DEF ArgumentsAfter
      <4> QED BY <4>1, <4>2, <4>3, <4>4
    <3>2. CASE \A i \in 1..n : key # <<as[i].key>>
      <4>1. key \in DOMAIN before
        BY <1>1, <3>2, Zenon DEF ArgumentsAfter
      <4>2. x[key] = before[key]
        BY <1>1, <3>2, <4>1, Zenon DEF ArgumentsAfter
      <4>3. \A j \in 1..m : key # <<bs[j].key>>
        BY <2>2, <3>2, Zenon
      <4>4. y[key] = before[key]
        BY <1>1, <4>1, <4>3, Zenon DEF ArgumentsAfter
      <4> QED BY <4>2, <4>4
    <3> QED BY <3>1, <3>2, Zenon
  <2>5. DOMAIN x = DOMAIN y
    BY <2>3
  <2> QED BY <2>1, <2>4, <2>5 DEF IsMap
<1> QED BY <1>3, <1>4

\* An event whose arguments are those it had and the first n attributes.
StatusAfter(as, n, before, after) ==
  /\ DOMAIN after = DOMAIN before
  /\ \A f \in DOMAIN before \ {"Arguments"} : after[f] = before[f]
  /\ "Arguments" \in DOMAIN before =>
       ArgumentsAfter(as, n, before.Arguments, after.Arguments)

Distinct(as) == \A i, j \in 1..Len(as) : as[i].key = as[j].key => i = j

LEMMA StatusStep ==
  ASSUME NEW as, NEW n \in Nat, NEW before, NEW after, NEW p, NEW a,
         StatusAfter(as, n, before, after), a = as[n + 1], IsAttribute(a),
         \A i \in 1..n : as[i].key # as[n + 1].key
  PROVE  StatusAfter(as, n + 1, before, Attribute(NoAttrs, "arguments", after, p, AttributeText(a)))
<1>2. PICK args, new : args = after.Arguments /\ new = Merge(ArgumentOf(a), args)
  OBVIOUS
<1>3. PICK next : next = Attribute(NoAttrs, "arguments", after, p, AttributeText(a))
  OBVIOUS
<1>4. next = [after EXCEPT !.Arguments = new]
  <2>1. a.key \notin DOMAIN NoAttrs
    BY DEF NoAttrs
  <2>2. next = WithArguments(after, Merge(ArgumentOf(a), after.Arguments))
    BY <1>3, <2>1, ArgumentAttribute
  <2> QED BY <1>2, <2>2, Zenon DEF WithArguments
<1>5. DOMAIN after = DOMAIN before
  BY DEF StatusAfter
<1>6. /\ DOMAIN next = DOMAIN before
      /\ "Arguments" \in DOMAIN before => next.Arguments = new
      /\ \A f \in DOMAIN before \ {"Arguments"} : next[f] = after[f]
  BY <1>4, <1>5
<1>7. \A f \in DOMAIN before \ {"Arguments"} : next[f] = before[f]
  BY <1>6 DEF StatusAfter
<1>8. ASSUME "Arguments" \in DOMAIN before
      PROVE  ArgumentsAfter(as, n + 1, before.Arguments, new)
  <2>2. GainsArgument(as[n + 1], args, new)
    BY <1>2, MergeAdds
  <2>3. ArgumentsAfter(as, n, before.Arguments, args)
    BY <1>2, <1>8 DEF StatusAfter
  <2> QED BY <2>2, <2>3, OneMoreArgument
<1> QED BY <1>3, <1>5, <1>6, <1>7, <1>8 DEF StatusAfter

LEMMA ArgumentsSet ==
  ASSUME NEW rest, NEW first, NEW h, AttrsRead(NoAttrs, "arguments", rest, first, h),
         NEW w, NEW as, RestOf(rest, w, as), Distinct(as)
  PROVE  StatusAfter(as, Len(as), h[w], h[w + Len(as)])
<1>1. PICK m \in Nat, l \in Nat : m = Len(as) /\ l = w /\ Len(rest) = l + m
  BY DEF RestOf
<1>2. PICK S : S = {n \in Nat : n <= m => StatusAfter(as, n, h[l], h[l + n])}
  OBVIOUS
<1>3. 0 \in S
  <2>1. l + 0 = l /\ 1..0 = {}
    OBVIOUS
  <2>2. ArgumentsAfter(as, 0, h[l].Arguments, h[l].Arguments)
    BY <2>1 DEF ArgumentsAfter
  <2>3. StatusAfter(as, 0, h[l], h[l])
    BY <1>1, <2>2 DEF StatusAfter
  <2> QED BY <1>2, <2>1, <2>3
<1>4. ASSUME NEW n \in Nat, n \in S
      PROVE  n + 1 \in S
  <2> SUFFICES ASSUME n + 1 <= m
               PROVE  StatusAfter(as, n + 1, h[l], h[l + (n + 1)])
    <3>1. n + 1 \in Nat
      OBVIOUS
    <3> QED BY <1>2, <3>1, Zenon
  <2>1. StatusAfter(as, n, h[l], h[l + n])
    <3>1. n <= m
      OBVIOUS
    <3> QED BY <1>2, <1>4, <3>1
  <2>2. PICK k \in 1..m : k = n + 1
    OBVIOUS
  <2>3. PICK p \in 0..(l + m) : p = l + (n + 1) /\ p # 0 /\ p - 1 = l + n /\ p = l + k
    BY <2>2
  <2>4. PICK a : a = as[k]
    OBVIOUS
  <2>5. IsAttribute(a) /\ rest[p] = AttributeText(a)
    BY <1>1, <2>3, <2>4 DEF RestOf
  <2>6. h[p] = Attribute(NoAttrs, "arguments", h[l + n], p, AttributeText(a))
    <3>1. h[p] = IF p = 0 THEN first
                 ELSE Attribute(NoAttrs, "arguments", h[p - 1], p, rest[p])
      BY <1>1 DEF AttrsRead
    <3> QED BY <2>3, <2>5, <3>1
  <2>7. \A i \in 1..n : as[i].key # as[n + 1].key
    <3>1. \A i \in 1..n : i \in 1..m /\ i # n + 1
      OBVIOUS
    <3>2. n + 1 \in 1..m
      OBVIOUS
    <3> QED BY <1>1, <3>1, <3>2, Zenon DEF Distinct
  <2>8. StatusAfter(as, n + 1, h[l], h[p])
    BY <2>1, <2>2, <2>4, <2>5, <2>6, <2>7, StatusStep
  <2> QED BY <2>3, <2>8
<1>5. m \in S
  <2>1. Nat \subseteq S
    BY <1>3, <1>4, Induction
  <2> QED BY <2>1
<1>6. m <= m
  OBVIOUS
<1> QED BY <1>1, <1>2, <1>5, <1>6

LEMMA SameStatus ==
  ASSUME NEW as, NEW bs, NEW before, NEW a, NEW b, Len(as) \in Nat, Len(bs) \in Nat,
         StatusAfter(as, Len(as), before, a), StatusAfter(bs, Len(bs), before, b),
         SameSet(as, bs)
  PROVE  SameBut(a, b)
<1>1. DOMAIN a = DOMAIN b /\ DOMAIN a = DOMAIN before
  BY DEF StatusAfter
<1>2. \A f \in DOMAIN before \ {"Arguments"} : a[f] = b[f]
  BY DEF StatusAfter
<1>3. ASSUME "Arguments" \in DOMAIN before
      PROVE  a.Arguments = b.Arguments
  <2>1. PICK x, y, z : x = a.Arguments /\ y = b.Arguments /\ z = before.Arguments
    OBVIOUS
  <2>2. ArgumentsAfter(as, Len(as), z, x) /\ ArgumentsAfter(bs, Len(bs), z, y)
    BY <1>3, <2>1 DEF StatusAfter
  <2> QED BY <2>1, <2>2, SameArguments
<1> QED BY <1>1, <1>2, <1>3 DEF SameBut

\* Attributes with different keys may come in any order in a STATUS event too,
\* which keeps them all.
LEMMA StatusCommutes ==
  ASSUME NEW rules, NEW raw, NEW raw2, NEW ws, NEW as, NEW bs,
         Parted(Split(raw, SP), ws, as), Parted(Split(raw2, SP), ws, bs),
         Len(rules) \in Nat, Len(rules) <= Len(ws),
         Distinct(as), Distinct(bs), SameSet(as, bs)
  PROVE  SameBut(Parse(raw, rules, NoAttrs, "arguments"), Parse(raw2, rules, NoAttrs, "arguments"))
<1>1. PICK w : w = Len(ws) - Len(rules)
  OBVIOUS
<1>2. PICK a, b : /\ a = EventOf(rules, NoAttrs, "arguments", Split(raw, SP), Positional(Split(raw, SP), Len(rules)))
                  /\ b = EventOf(rules, NoAttrs, "arguments", Split(raw2, SP), Positional(Split(raw2, SP), Len(rules)))
  OBVIOUS
<1>3. Halves(NoAttrs, "arguments", w, as, bs, a, b)
  BY <1>1, <1>2, LinesHalve
<1>4. SameBut(a, b)
  <2>1. PICK first, p, q, g, h :
          /\ AttrsRead(NoAttrs, "arguments", p, first, g) /\ AttrsRead(NoAttrs, "arguments", q, first, h)
          /\ RestOf(p, w, as) /\ RestOf(q, w, bs) /\ g[w] = h[w]
          /\ a = g[w + Len(as)] /\ b = h[w + Len(bs)]
    BY <1>3, Zenon DEF Halves
  <2>2. StatusAfter(as, Len(as), g[w], a)
    BY <2>1, ArgumentsSet
  <2>3. StatusAfter(bs, Len(bs), g[w], b)
    BY <2>1, ArgumentsSet
  <2>4. Len(as) \in Nat /\ Len(bs) \in Nat
    BY <2>1 DEF RestOf
  <2> QED BY <2>2, <2>3, <2>4, SameStatus
<1> QED BY <1>2, <1>4, RawApart, ParseIsLoops DEF ParseLoops

----------------------------------------------------------------------------
(* The tables of the parsers *)

\* All the fields that a rule may set.
Owns(rule) == IF rule[2] = "address" THEN {rule[1], PortOf[rule[1]]} ELSE {rule[1]}

\* No two keys set a field, but the two times of CELL_STATS.
Apart(attrs) ==
  \A k, l \in DOMAIN attrs : \A f : f \in Owns(attrs[k]) /\ f \in Owns(attrs[l]) =>
    \/ k = l
    \/ k = "InboundTime" /\ l = "OutboundTime"
    \/ k = "OutboundTime" /\ l = "InboundTime"

Table(attrs) == Apart(attrs) /\ NewAttribute \notin DOMAIN attrs

LEMMA StreamTable ==
  Table(StreamAttrs)
BY DEF Table, Apart, Owns, PortOf, StreamAttrs, NewAttribute

LEMMA ORConnTable ==
  Table(ORConnAttrs)
BY DEF Table, Apart, Owns, ORConnAttrs, NewAttribute

LEMMA AddrMapTable ==
  Table(AddrMapAttrs)
<1>1. PICK attrs : attrs = AddrMapAttrs
  OBVIOUS
<1>2. DOMAIN attrs = {"error", "EXPIRES", "CACHED"}
  BY <1>1 DEF AddrMapAttrs
<1>3. /\ Owns(attrs["error"]) = {"ErrorCode"} /\ Owns(attrs["EXPIRES"]) = {"Expires"}
      /\ Owns(attrs["CACHED"]) = {"Cached"}
  BY <1>1 DEF AddrMapAttrs, Owns
<1>4. Apart(attrs)
  BY <1>2, <1>3 DEF Apart
<1> QED BY <1>1, <1>2, <1>4 DEF Table, NewAttribute

LEMMA ClientsSeenTable ==
  Table(ClientsSeenAttrs)
BY DEF Table, Apart, Owns, ClientsSeenAttrs, NewAttribute

LEMMA BuildTimeoutSetTable ==
  Table(BuildTimeoutSetAttrs)
BY DEF Table, Apart, Owns, BuildTimeoutSetAttrs, NewAttribute

LEMMA ConnBandwidthTable ==
  Table(ConnBandwidthAttrs)
BY DEF Table, Apart, Owns, ConnBandwidthAttrs, NewAttribute

LEMMA CircuitBandwidthTable ==
  Table(CircuitBandwidthAttrs)
BY DEF Table, Apart, Owns, CircuitBandwidthAttrs, NewAttribute

LEMMA CellStatsTable ==
  Table(CellStatsAttrs)
BY DEF Table, Apart, Owns, CellStatsAttrs, NewAttribute

LEMMA TokenBucketEmptyTable ==
  Table(TokenBucketEmptyAttrs)
BY DEF Table, Apart, Owns, TokenBucketEmptyAttrs, NewAttribute

LEMMA HSDescTable ==
  Table(HSDescAttrs)
BY DEF Table, Apart, Owns, HSDescAttrs, NewAttribute

LEMMA CircuitEventTable ==
  Table(CircuitEventAttrs) /\ DOMAIN CircuitAttrs \subseteq DOMAIN CircuitEventAttrs
BY DEF Table, Apart, Owns, CircuitEventAttrs, CircuitAttrs, Merge, NewAttribute

LEMMA CircuitMinorTable ==
  Table(CircuitMinorAttrs) /\ DOMAIN CircuitAttrs \subseteq DOMAIN CircuitMinorAttrs
BY DEF Table, Apart, Owns, CircuitMinorAttrs, CircuitAttrs, Merge, NewAttribute

----------------------------------------------------------------------------
(* The parsers *)

BothTimes(as) ==
  \E i, j \in 1..Len(as) : as[i].key = "InboundTime" /\ as[j].key = "OutboundTime"

LEMMA OwnedFields ==
  ASSUME NEW rule, NEW str
  PROVE  Touched(rule, str) \subseteq Owns(rule)
BY DEF Touched, Owns

LEMMA SettledWhen ==
  ASSUME NEW attrs, NEW other, NEW w, NEW as, Table(attrs), Distinct(as), ~BothTimes(as),
         other # "path" \/ w # 0 \/ \A i \in 1..Len(as) : as[i].key \in DOMAIN attrs
  PROVE  Settled(attrs, other, w, as)
<1>1. ASSUME NEW i \in 1..Len(as), NEW j \in 1..Len(as), NEW f,
             f \in TouchedBy(attrs, as[i]), f \in TouchedBy(attrs, as[j])
      PROVE  i = j
  <2>1. PICK k, l : k = as[i].key /\ l = as[j].key
    OBVIOUS
  <2>2. k \in DOMAIN attrs /\ l \in DOMAIN attrs
    BY <1>1, <2>1 DEF TouchedBy
  <2>3. f \in Owns(attrs[k]) /\ f \in Owns(attrs[l])
    BY <1>1, <2>1, <2>2, OwnedFields DEF TouchedBy
  <2>4. \/ k = l
        \/ k = "InboundTime" /\ l = "OutboundTime"
        \/ k = "OutboundTime" /\ l = "InboundTime"
    BY <2>2, <2>3 DEF Table, Apart
  <2>5. k = l
    BY <2>1, <2>4 DEF BothTimes
  <2> QED BY <2>1, <2>5 DEF Distinct
<1> QED BY <1>1 DEF Settled

SameKnown(as, bs) ==
  \A i \in 1..Len(as) : as[i].key # NewAttribute => \E j \in 1..Len(bs) : bs[j] = as[i]

LEMMA SetsWhen ==
  ASSUME NEW attrs, NEW as, NEW bs, Table(attrs), SameKnown(as, bs)
  PROVE  Sets(attrs, as, bs)
BY DEF Table, SameKnown, Sets, TouchedBy

\* A row of attributes that no parser minds.
Clear(as) == Distinct(as) /\ ~BothTimes(as)

Within(as, keys) == \A i \in 1..Len(as) : as[i].key \in keys

\* Two lines alike, as their attributes are read.
LinePair(raw, raw2, ws, as, bs) ==
  /\ Parted(Split(raw, SP), ws, as) /\ Parted(Split(raw2, SP), ws, bs)
  /\ Clear(as) /\ Clear(bs) /\ SameKnown(as, bs) /\ SameKnown(bs, as)

LEMMA ParserCommutes ==
  ASSUME NEW rules, NEW attrs, NEW other, other # "arguments", NEW raw, NEW raw2,
         NEW ws, NEW as, NEW bs, LinePair(raw, raw2, ws, as, bs), Table(attrs),
         Len(rules) \in Nat, Len(rules) <= Len(ws),
         \/ other # "path" \/ Len(ws) # Len(rules)
         \/ Within(as, DOMAIN attrs) /\ Within(bs, DOMAIN attrs)
  PROVE  SameBut(Parse(raw, rules, attrs, other), Parse(raw2, rules, attrs, other))
<1>1. /\ Parted(Split(raw, SP), ws, as) /\ Parted(Split(raw2, SP), ws, bs)
      /\ Clear(as) /\ Clear(bs) /\ SameKnown(as, bs) /\ SameKnown(bs, as)
  BY DEF LinePair
<1>2. PICK k \in Nat, n \in Nat : k = Len(ws) /\ n = Len(rules)
  BY <1>1 DEF Parted
<1>3. Len(ws) - Len(rules) # 0 \/ Len(ws) = Len(rules)
  BY <1>2
<1>4. Settled(attrs, other, Len(ws) - Len(rules), as)
  BY <1>1, <1>3, SettledWhen DEF Clear, Within
<1>5. Settled(attrs, other, Len(ws) - Len(rules), bs)
  BY <1>1, <1>3, SettledWhen DEF Clear, Within
<1>6. Sets(attrs, as, bs) /\ Sets(attrs, bs, as)
  BY <1>1, SetsWhen
<1> QED BY <1>1, <1>4, <1>5, <1>6, ParseCommutes

LEMMA MergeApart ==
  ASSUME NEW r, NEW x, NEW y, SameBut(x, y)
  PROVE  SameBut(Merge(r, x), Merge(r, y))
<1>1. PICK u, v : u = Merge(r, x) /\ v = Merge(r, y)
  OBVIOUS
<1>2. DOMAIN x = DOMAIN y /\ \A f \in DOMAIN x \ {"Raw"} : x[f] = y[f]
  BY DEF SameBut
<1>3. /\ u = [f \in DOMAIN r \cup DOMAIN x |-> IF f \in DOMAIN r THEN r[f] ELSE x[f]]
      /\ v = [f \in DOMAIN r \cup DOMAIN y |-> IF f \in DOMAIN r THEN r[f] ELSE y[f]]
  BY <1>1, Zenon DEF Merge
<1>4. DOMAIN u = DOMAIN v /\ \A f \in DOMAIN u \ {"Raw"} : u[f] = v[f]
  BY <1>2, <1>3
<1> QED BY <1>1, <1>4 DEF SameBut

StatusCodes == {"STATUS_CLIENT", "STATUS_GENERAL", "STATUS_SERVER"}

LEMMA Dispatched ==
  ASSUME NEW raw, NEW lines
  PROVE  /\ ParseEvent("CIRC", raw, lines) = ParseCircuitEvent(raw)
         /\ ParseEvent("CIRC_MINOR", raw, lines) = ParseCircuitMinorEvent(raw)
         /\ ParseEvent("STREAM", raw, lines) = ParseStreamEvent(raw)
         /\ ParseEvent("ORCONN", raw, lines) = ParseORConnEvent(raw)
         /\ ParseEvent("ADDRMAP", raw, lines) = ParseAddrMapEvent(raw)
         /\ \A code \in StatusCodes : ParseEvent(code, raw, lines) = ParseStatusEvent(code, raw)
         /\ ParseEvent("CLIENTS_SEEN", raw, lines) = ParseClientsSeenEvent(raw)
         /\ ParseEvent("BUILDTIMEOUT_SET", raw, lines) = ParseBuildTimeoutSetEvent(raw)
         /\ ParseEvent("CONN_BW", raw, lines) = ParseConnBandwidthEvent(raw)
         /\ ParseEvent("CIRC_BW", raw, lines) = ParseCircuitBandwidthEvent(raw)
         /\ ParseEvent("CELL_STATS", raw, lines) = ParseCellStatsEvent(raw)
         /\ ParseEvent("TB_EMPTY", raw, lines) = ParseTokenBucketEmptyEvent(raw)
         /\ ParseEvent("HS_DESC", raw, lines) = ParseHSDescEvent(raw)
BY DEF ParseEvent, StatusCodes

\* What else a line needs, by its code.
Allowed(code, ws, as) ==
  /\ code \in {"CIRC", "CIRC_MINOR"} /\ Len(ws) = 2 => Within(as, DOMAIN CircuitAttrs)
  /\ code \in StatusCodes => \A i \in 1..Len(as) : as[i].key # NewAttribute

\* A parser with a table of attributes, behind n words.
Parses(code, n, attrs, other) ==
  \E rules : /\ Len(rules) = n
             /\ \A raw : ParseEvent(code, raw, <<>>) = Parse(raw, rules, attrs, other)

LEMMA Parsers ==
  /\ Parses("STREAM", 4, StreamAttrs, "none")
  /\ Parses("ORCONN", 2, ORConnAttrs, "none")
  /\ Parses("ADDRMAP", 3, AddrMapAttrs, "none")
  /\ Parses("CLIENTS_SEEN", 1, ClientsSeenAttrs, "none")
  /\ Parses("BUILDTIMEOUT_SET", 2, BuildTimeoutSetAttrs, "none")
  /\ Parses("CONN_BW", 0, ConnBandwidthAttrs, "none")
  /\ Parses("CIRC_BW", 0, CircuitBandwidthAttrs, "none")
  /\ Parses("TB_EMPTY", 1, TokenBucketEmptyAttrs, "none")
  /\ Parses("HS_DESC", 4, HSDescAttrs, "id")
  /\ Parses("CIRC", 2, CircuitEventAttrs, "path")
  /\ Parses("CIRC_MINOR", 2, CircuitMinorAttrs, "path")
<1>1. Parses("STREAM", 4, StreamAttrs, "none")
  BY Dispatched DEF ParseStreamEvent, Parses
<1>2. Parses("ORCONN", 2, ORConnAttrs, "none")
  BY Dispatched DEF ParseORConnEvent, Parses
<1>3. Parses("ADDRMAP", 3, AddrMapAttrs, "none")
  BY Dispatched DEF ParseAddrMapEvent, Parses
<1>4. Parses("CLIENTS_SEEN", 1, ClientsSeenAttrs, "none")
  BY Dispatched DEF ParseClientsSeenEvent, Parses
<1>5. Parses("BUILDTIMEOUT_SET", 2, BuildTimeoutSetAttrs, "none")
  BY Dispatched DEF ParseBuildTimeoutSetEvent, Parses
<1>6. Parses("CONN_BW", 0, ConnBandwidthAttrs, "none")
  BY Dispatched DEF ParseConnBandwidthEvent, Parses
<1>7. Parses("CIRC_BW", 0, CircuitBandwidthAttrs, "none")
  BY Dispatched DEF ParseCircuitBandwidthEvent, Parses
<1>8. Parses("TB_EMPTY", 1, TokenBucketEmptyAttrs, "none")
  BY Dispatched DEF ParseTokenBucketEmptyEvent, Parses
<1>9. Parses("HS_DESC", 4, HSDescAttrs, "id")
  BY Dispatched DEF ParseHSDescEvent, Parses
<1>10. Parses("CIRC", 2, CircuitEventAttrs, "path")
  BY Dispatched DEF ParseCircuitEvent, Parses
<1>11. Parses("CIRC_MINOR", 2, CircuitMinorAttrs, "path")
  BY Dispatched DEF ParseCircuitMinorEvent, Parses
<1> QED BY <1>1, <1>2, <1>3, <1>4, <1>5, <1>6, <1>7, <1>8, <1>9, <1>10, <1>11

LEMMA TableParser ==
  ASSUME NEW code, NEW n \in Nat, NEW attrs, NEW other, other # "arguments",
         Parses(code, n, attrs, other), Table(attrs),
         NEW raw, NEW raw2, NEW ws, NEW as, NEW bs, LinePair(raw, raw2, ws, as, bs), n <= Len(ws),
         \/ other # "path" \/ Len(ws) # n
         \/ Within(as, DOMAIN attrs) /\ Within(bs, DOMAIN attrs)
  PROVE  SameBut(ParseEvent(code, raw, <<>>), ParseEvent(code, raw2, <<>>))
<1>1. PICK rules : /\ Len(rules) = n
                   /\ \A r : ParseEvent(code, r, <<>>) = Parse(r, rules, attrs, other)
  BY DEF Parses
<1>2. SameBut(Parse(raw, rules, attrs, other), Parse(raw2, rules, attrs, other))
  BY <1>1, ParserCommutes
<1> QED BY <1>1, <1>2

\* Two lines of words and attributes, of events alike.
AlikeLines(code, raw, raw2, ws, as, bs) ==
  /\ code \in DOMAIN PositionalWords /\ PositionalWords[code] <= Len(ws)
  /\ LinePair(raw, raw2, ws, as, bs) /\ Allowed(code, ws, as) /\ Allowed(code, ws, bs)

LEMMA CircuitLines ==
  ASSUME NEW code \in {"CIRC", "CIRC_MINOR"}, NEW raw, NEW raw2, NEW ws, NEW as, NEW bs,
         AlikeLines(code, raw, raw2, ws, as, bs)
  PROVE  SameBut(ParseEvent(code, raw, <<>>), ParseEvent(code, raw2, <<>>))
<1>1. PICK attrs : /\ Parses(code, 2, attrs, "path") /\ Table(attrs)
                   /\ DOMAIN CircuitAttrs \subseteq DOMAIN attrs
  BY Parsers, CircuitEventTable, CircuitMinorTable
<1>2. 2 <= Len(ws) /\ LinePair(raw, raw2, ws, as, bs)
  BY DEF AlikeLines, PositionalWords
<1>3. ASSUME Len(ws) = 2
      PROVE  Within(as, DOMAIN attrs) /\ Within(bs, DOMAIN attrs)
  <2>1. Within(as, DOMAIN CircuitAttrs) /\ Within(bs, DOMAIN CircuitAttrs)
    BY <1>3, Zenon DEF AlikeLines, Allowed
  <2> QED BY <1>1, <2>1, Zenon DEF Within
<1>4. PICK other : other = "path" /\ other # "arguments"
  OBVIOUS
<1> QED BY <1>1, <1>2, <1>3, <1>4, TableParser

LEMMA CellStatsLines ==
  ASSUME NEW code, code = "CELL_STATS", NEW raw, NEW raw2, NEW ws, NEW as, NEW bs,
         AlikeLines(code, raw, raw2, ws, as, bs)
  PROVE  SameBut(ParseEvent(code, raw, <<>>), ParseEvent(code, raw2, <<>>))
<1>1. PICK rules : rules = << >> /\ Len(rules) = 0
  OBVIOUS
<1>2. 0 <= Len(ws) /\ LinePair(raw, raw2, ws, as, bs)
  BY DEF AlikeLines, PositionalWords
<1>3. SameBut(Parse(raw, rules, CellStatsAttrs, "none"), Parse(raw2, rules, CellStatsAttrs, "none"))
  BY <1>1, <1>2, CellStatsTable, ParserCommutes
<1>4. \A r : ParseEvent(code, r, <<>>) =
               Merge([InboundTime |-> Zero], Parse(r, rules, CellStatsAttrs, "none"))
  BY <1>1, Dispatched DEF ParseCellStatsEvent
<1> QED BY <1>3, <1>4, MergeApart

LEMMA StatusLines ==
  ASSUME NEW code \in StatusCodes, NEW raw, NEW raw2, NEW ws, NEW as, NEW bs,
         AlikeLines(code, raw, raw2, ws, as, bs)
  PROVE  SameBut(ParseEvent(code, raw, <<>>), ParseEvent(code, raw2, <<>>))
<1>1. PICK rules : rules = << <<"Severity", "text">>, <<"Action", "text">> >> /\ Len(rules) = 2
  <2>1. Len(<< <<"Severity", "text">>, <<"Action", "text">> >>) = 2
    OBVIOUS
  <2> QED BY <2>1, Zenon
<1>2. 2 <= Len(ws) /\ LinePair(raw, raw2, ws, as, bs)
  BY DEF AlikeLines, PositionalWords, StatusCodes
<1>3. Distinct(as) /\ Distinct(bs)
  BY <1>2 DEF LinePair, Clear
<1>4. SameSet(as, bs)
  BY <1>2 DEF SameSet, LinePair, SameKnown, AlikeLines, Allowed
<1>5. SameBut(Parse(raw, rules, NoAttrs, "arguments"), Parse(raw2, rules, NoAttrs, "arguments"))
  BY <1>1, <1>2, <1>3, <1>4, StatusCommutes DEF LinePair
<1>6. \A r : ParseEvent(code, r, <<>>) =
               Merge([Type |-> code], Parse(r, rules, NoAttrs, "arguments"))
  BY <1>1, Dispatched DEF ParseStatusEvent
<1> QED BY <1>5, <1>6, MergeApart

\* The parsers do not mind the order of the attributes.
LEMMA LinesCommute ==
  ASSUME NEW code, NEW raw, NEW raw2, NEW ws, NEW as, NEW bs,
         AlikeLines(code, raw, raw2, ws, as, bs)
  PROVE  SameBut(ParseEvent(code, raw, <<>>), ParseEvent(code, raw2, <<>>))
<1>1. PICK none, id : none = "none" /\ id = "id" /\ none # "arguments" /\ id # "arguments"
                      /\ none # "path" /\ id # "path"
  OBVIOUS
<1>2. LinePair(raw, raw2, ws, as, bs)
  BY DEF AlikeLines
<1>3. CASE code = "STREAM"
  <2>1. 4 <= Len(ws)
    BY <1>3 DEF AlikeLines, PositionalWords
  <2>2. PICK n \in Nat : Parses(code, n, StreamAttrs, none) /\ n <= Len(ws)
    BY <1>1, <1>3, <2>1, Parsers
  <2> QED BY <1>1, <1>2, <2>2, StreamTable, TableParser
<1>4. CASE code = "ORCONN"
  <2>1. 2 <= Len(ws)
    BY <1>4 DEF AlikeLines, PositionalWords
  <2>2. PICK n \in Nat : Parses(code, n, ORConnAttrs, none) /\ n <= Len(ws)
    BY <1>1, <1>4, <2>1, Parsers
  <2> QED BY <1>1, <1>2, <2>2, ORConnTable, TableParser
<1>5. CASE code = "ADDRMAP"
  <2>1. 3 <= Len(ws)
    BY <1>5 DEF AlikeLines, PositionalWords
  <2>2. PICK n \in Nat : Parses(code, n, AddrMapAttrs, none) /\ n <= Len(ws)
    BY <1>1, <1>5, <2>1, Parsers
  <2> QED BY <1>1, <1>2, <2>2, AddrMapTable, TableParser
<1>6. CASE code = "CLIENTS_SEEN"
  <2>1. 1 <= Len(ws)
    BY <1>6 DEF AlikeLines, PositionalWords
  <2>2. PICK n \in Nat : Parses(code, n, ClientsSeenAttrs, none) /\ n <= Len(ws)
    BY <1>1, <1>6, <2>1, Parsers
  <2> QED BY <1>1, <1>2, <2>2, ClientsSeenTable, TableParser
<1>7. CASE code = "BUILDTIMEOUT_SET"
  <2>1. 2 <= Len(ws)
    BY <1>7 DEF AlikeLines, PositionalWords
  <2>2. PICK n \in Nat : Parses(code, n, BuildTimeoutSetAttrs, none) /\ n <= Len(ws)
    BY <1>1, <1>7, <2>1, Parsers
  <2> QED BY <1>1, <1>2, <2>2, BuildTimeoutSetTable, TableParser
<1>8. CASE code = "CONN_BW"
  <2>1. 0 <= Len(ws)
    BY <1>8 DEF AlikeLines, PositionalWords
  <2>2. PICK n \in Nat : Parses(code, n, ConnBandwidthAttrs, none) /\ n <= Len(ws)
    BY <1>1, <1>8, <2>1, Parsers
  <2> QED BY <1>1, <1>2, <2>2, ConnBandwidthTable, TableParser
<1>9. CASE code = "CIRC_BW"
  <2>1. 0 <= Len(ws)
    BY <1>9 DEF AlikeLines, PositionalWords
  <2>2. PICK n \in Nat : Parses(code, n, CircuitBandwidthAttrs, none) /\ n <= Len(ws)
    BY <1>1, <1>9, <2>1, Parsers
  <2> QED BY <1>1, <1>2, <2>2, CircuitBandwidthTable, TableParser
<1>10. CASE code = "TB_EMPTY"
  <2>1. 1 <= Len(ws)
    BY <1>10 DEF AlikeLines, PositionalWords
  <2>2. PICK n \in Nat : Parses(code, n, TokenBucketEmptyAttrs, none) /\ n <= Len(ws)
    BY <1>1, <1>10, <2>1, Parsers
  <2> QED BY <1>1, <1>2, <2>2, TokenBucketEmptyTable, TableParser
<1>11. CASE code = "HS_DESC"
  <2>1. 4 <= Len(ws)
    BY <1>11 DEF AlikeLines, PositionalWords
  <2>2. PICK n \in Nat : Parses(code, n, HSDescAttrs, id) /\ n <= Len(ws)
    BY <1>1, <1>11, <2>1, Parsers
  <2> QED BY <1>1, <1>2, <2>2, HSDescTable, TableParser
<1>12. CASE code \in {"CIRC", "CIRC_MINOR"}
  BY <1>12, CircuitLines
<1>13. CASE code = "CELL_STATS"
  BY <1>13, CellStatsLines
<1>14. CASE code \in StatusCodes
  BY <1>14, StatusLines
<1>15. DOMAIN PositionalWords =
        {"CIRC", "CIRC_MINOR", "STREAM", "ORCONN", "ADDRMAP", "STATUS_CLIENT", "STATUS_GENERAL",
         "STATUS_SERVER", "CLIENTS_SEEN", "BUILDTIMEOUT_SET", "CONN_BW", "CIRC_BW", "CELL_STATS",
         "TB_EMPTY", "HS_DESC"}
  BY DEF PositionalWords
<1> QED BY <1>3, <1>4, <1>5, <1>6, <1>7, <1>8, <1>9, <1>10, <1>11, <1>12, <1>13, <1>14, <1>15 DEF AlikeLines, StatusCodes

----------------------------------------------------------------------------
(* The line of an event *)

\* The words of an event's line, by their places.
Worded(words, code, ws, as) ==
  /\ Len(ws) \in Nat /\ Len(as) \in Nat /\ Len(words) = 1 + (Len(ws) + Len(as))
  /\ words[1] = <<code>>
  /\ \A i \in 1..Len(ws) : words[1 + i] = ws[i]
  /\ \A i \in 1..Len(as) : words[1 + (Len(ws) + i)] = AttributeText(as[i])

LEMMA WordsOfEvent ==
  ASSUME NEW e, IsEvent(e)
  PROVE  Worded(<< <<e.code>> >> \o e.words
                  \o [i \in DOMAIN e.attrs |-> <<e.attrs[i].key, "=">> \o e.attrs[i].val],
                e.code, e.words, e.attrs)
<1>1. PICK S : S = Seq(Chars) /\ Seq(InLine) \subseteq S /\ Seq(Seq(InLine)) \subseteq Seq(S)
  BY InLineIsInChars, WiderSequences
<1>2. PICK first \in Seq(S) : first = << <<e.code>> >> /\ Len(first) = 1 /\ first[1] = <<e.code>>
  <2>1. <<e.code>> \in S
    BY <1>1, InLineIsInChars DEF IsEvent
  <2> QED BY <2>1, OneTuple
<1>3. PICK ws \in Seq(S) : ws = e.words
  BY <1>1 DEF IsEvent
<1>4. PICK as : as = e.attrs /\ Len(as) \in Nat /\ DOMAIN as = 1..Len(as)
  <2>1. PICK T : T = [key : InLine, val : Seq(InLine)]
    OBVIOUS
  <2>2. e.attrs \in Seq(T)
    BY <2>1 DEF IsEvent
  <2>3. Len(e.attrs) \in Nat /\ DOMAIN e.attrs = 1..Len(e.attrs)
    BY <2>2
  <2> QED BY <2>3
<1>5. PICK others : /\ others = [i \in DOMAIN e.attrs |-> <<e.attrs[i].key, "=">> \o e.attrs[i].val]
                    /\ DOMAIN others = 1..Len(as)
                    /\ \A i \in 1..Len(as) : others[i] = AttributeText(as[i])
  <2>1. PICK others : others = [i \in DOMAIN e.attrs |-> <<e.attrs[i].key, "=">> \o e.attrs[i].val]
    OBVIOUS
  <2>2. others = [i \in 1..Len(as) |-> AttributeText(as[i])]
    BY <1>4, <2>1, Zenon DEF AttributeText
  <2>3. DOMAIN others = 1..Len(as) /\ \A i \in 1..Len(as) : others[i] = AttributeText(as[i])
    BY <2>2, Zenon
  <2> QED BY <2>1, <2>3
<1>6. PICK a \in Seq(S) : a = first \o ws
  BY Concat
<1>7. others \in Seq(S) /\ Len(others) = Len(as)
  <2>1. \A i \in 1..Len(as) : others[i] \in S
    <3> TAKE i \in 1..Len(as)
    <3>1. PICK key \in Chars, val \in Seq(Chars) : key = as[i].key /\ val = as[i].val
      <4>1. PICK T : T = [key : InLine, val : Seq(InLine)]
        OBVIOUS
      <4>2. PICK bs \in Seq(T) : bs = as
        BY <1>4, <4>1 DEF IsEvent
      <4>3. as[i] \in T
        <5>1. i \in 1..Len(bs)
          BY <4>2, Zenon
        <5>2. bs[i] \in T
          BY <5>1
        <5> QED BY <4>2, <5>2, Zenon
      <4>4. as[i].key \in InLine /\ as[i].val \in Seq(InLine)
        BY <4>1, <4>3
      <4> QED BY <4>4, InLineIsInChars, WiderSequences
    <3>2. <<key, "=">> \in Seq(Chars)
      BY InLineIsInChars
    <3>3. <<key, "=">> \o val \in Seq(Chars)
      BY <3>2, Concat
    <3> QED BY <1>1, <1>5, <3>1, <3>3 DEF AttributeText
  <2>2. PICK k \in Nat : k = Len(as)
    BY <1>4
  <2>3. others = [i \in 1..k |-> others[i]]
    BY <1>5, <2>2
  <2>4. others \in [1..k -> S]
    BY <2>1, <2>2, <2>3
  <2>5. PICK o : o = others
    OBVIOUS
  <2>6. o \in [1..k -> S]
    BY <2>4, <2>5
  <2>7. o \in Seq(S) /\ Len(o) = k
    BY <2>6
  <2> QED BY <2>2, <2>5, <2>7
<1>8. PICK w \in Seq(S) : w = a \o others
  BY <1>7, Concat
<1>9. /\ Len(a) = 1 + Len(ws) /\ a[1] = <<e.code>>
      /\ \A i \in 1..Len(ws) : a[1 + i] = ws[i]
  <2>1. /\ Len(a) = Len(first) + Len(ws) /\ \A j \in 1..Len(first) : a[j] = first[j]
        /\ \A j \in 1..Len(ws) : a[Len(first) + j] = ws[j]
    BY <1>6, Concat
  <2>2. 1 \in 1..1
    OBVIOUS
  <2> QED BY <1>2, <2>1, <2>2
<1>10. PICK n \in Nat, m \in Nat : n = Len(ws) /\ m = Len(as)
  BY <1>4
<1>11. /\ Len(w) = (1 + n) + m /\ \A j \in 1..(1 + n) : w[j] = a[j]
       /\ \A j \in 1..m : w[(1 + n) + j] = others[j]
  <2>1. PICK o \in Seq(S) : o = others /\ Len(o) = m
    BY <1>7, <1>10
  <2>2. /\ Len(w) = Len(a) + Len(o) /\ \A j \in 1..Len(a) : w[j] = a[j]
        /\ \A j \in 1..Len(o) : w[Len(a) + j] = o[j]
    BY <1>8, <2>1, Concat
  <2> QED BY <1>9, <1>10, <2>1, <2>2
<1>12. /\ (1 + n) + m = 1 + (n + m) /\ 1 \in 1..(1 + n) /\ \A i \in 1..n : 1 + i \in 1..(1 + n)
       /\ \A i \in 1..m : (1 + n) + i = 1 + (n + i)
  OBVIOUS
<1>13. Worded(w, e.code, ws, as)
  <2>1. Len(w) = 1 + (Len(ws) + Len(as)) /\ w[1] = <<e.code>>
    BY <1>9, <1>10, <1>11, <1>12, Zenon
  <2>2. \A i \in 1..Len(ws) : w[1 + i] = ws[i]
    BY <1>9, <1>10, <1>11, <1>12, Zenon
  <2>3. \A i \in 1..Len(as) : w[1 + (Len(ws) + i)] = AttributeText(as[i])
    <3>1. ASSUME NEW i \in 1..m
          PROVE  w[1 + (n + i)] = AttributeText(as[i])
      <4>1. w[(1 + n) + i] = others[i] /\ (1 + n) + i = 1 + (n + i)
        BY <1>11, <1>12, <3>1
      <4>2. others[i] = AttributeText(as[i])
        BY <1>5, <1>10, <3>1, Zenon
      <4> QED BY <4>1, <4>2
    <3> QED BY <1>10, <3>1, Zenon
  <2> QED BY <1>10, <2>1, <2>2, <2>3, Zenon DEF Worded
<1> QED BY <1>2, <1>3, <1>4, <1>5, <1>6, <1>8, <1>13

LEMMA AttributeHasNoSpace ==
  ASSUME NEW a, IsAttribute(a), a.key # SP, SP \notin Range(a.val)
  PROVE  \A j \in 1..Len(AttributeText(a)) : AttributeText(a)[j] # SP
<1>1. PICK key \in Tokens, val \in Texts : key = a.key /\ val = a.val /\ key # SP
  BY DEF IsAttribute
<1>2. \A j \in 1..Len(val) : val[j] # SP
  BY <1>1, NoSpaceIn
<1>3. PICK eq \in Tokens : eq = "=" /\ eq # SP
  <2>1. "=" \in Tokens
    BY InLineIsInChars
  <2>2. "=" # SP
    BY DEF SP
  <2> QED BY <2>1, <2>2
<1>4. PICK two \in Texts : two = <<key, eq>> /\ Len(two) = 2 /\ two[1] = key /\ two[2] = eq
  <2>1. <<key, eq>> \in Texts /\ Len(<<key, eq>>) = 2 /\ <<key, eq>>[1] = key /\ <<key, eq>>[2] = eq
    BY DEF Texts
  <2> QED BY <2>1, Zenon
<1>5. PICK text \in Texts : text = two \o val
  BY Concat DEF Texts
<1>6. /\ Len(text) = 2 + Len(val) /\ \A j \in 1..2 : text[j] = two[j]
      /\ \A j \in 1..Len(val) : text[2 + j] = val[j]
  BY <1>4, <1>5, Concat DEF Texts
<1>7. ASSUME NEW j \in 1..Len(text)
      PROVE  text[j] # SP
  <2>1. PICK l \in Nat : l = Len(val)
    BY DEF Texts
  <2>2. j = 1 \/ j = 2 \/ \E m \in 1..l : j = 2 + m
    <3>1. j \in 1..(2 + l)
      BY <1>6, <2>1
    <3>2. j > 2 => j - 2 \in 1..l /\ j = 2 + (j - 2)
      BY <3>1
    <3>3. j = 1 \/ j = 2 \/ j > 2
      BY <3>1
    <3> QED BY <3>2, <3>3
  <2>3. 1 \in 1..2 /\ 2 \in 1..2
    OBVIOUS
  <2> QED BY <1>1, <1>2, <1>3, <1>4, <1>6, <2>1, <2>2, <2>3
<1>8. text = AttributeText(a)
  BY <1>1, <1>3, <1>4, <1>5 DEF AttributeText
<1> QED BY <1>7, <1>8

\* What an event's attributes are.
LEMMA EventAttributes ==
  ASSUME NEW e, IsEvent(e), AttributeLine(e), NEW i \in 1..Len(e.attrs)
  PROVE  /\ IsAttribute(e.attrs[i]) /\ e.attrs[i].key # SP /\ SP \notin Range(e.attrs[i].val)
         /\ i \in DOMAIN e.attrs
<1>1. PICK T : T = [key : InLine, val : Seq(InLine)]
  OBVIOUS
<1>2. PICK as \in Seq(T) : as = e.attrs
  BY <1>1 DEF IsEvent
<1>3. i \in 1..Len(as) /\ i \in DOMAIN as
  BY <1>2
<1>4. as[i] \in T
  BY <1>3, Element
<1>5. PICK a : a = as[i]
  OBVIOUS
<1>6. a.key \in InLine /\ a.val \in Seq(InLine)
  BY <1>1, <1>4, <1>5
<1>7. a.key # SP /\ a.key # "=" /\ SP \notin Range(a.val)
  BY <1>2, <1>3, <1>5 DEF AttributeLine
<1>8. a.val \in Texts
  <2>1. InLine \subseteq Tokens
    BY InLineIsInChars
  <2> QED BY <1>6, <2>1, WiderSequences DEF Texts
<1> QED BY <1>2, <1>3, <1>5, <1>6, <1>7, <1>8, InLineIsInChars DEF IsAttribute

LEMMA EventWordsHaveNoSpace ==
  ASSUME NEW e, IsEvent(e), AttributeLine(e), NEW words, Worded(words, e.code, e.words, e.attrs)
  PROVE  \A i \in 1..Len(words) : \A j \in 1..Len(words[i]) : words[i][j] # SP
<1>1. PICK n \in Nat, m \in Nat :
        n = Len(e.words) /\ m = Len(e.attrs) /\ Len(words) = 1 + (n + m)
  BY DEF Worded
<1>2. ASSUME NEW j \in 1..Len(words[1])
      PROVE  words[1][j] # SP
  <2>1. e.code # SP
    <3>1. e.code \in DOMAIN PositionalWords
      BY DEF AttributeLine
    <3>2. SP \notin DOMAIN PositionalWords
      BY DEF PositionalWords, SP
    <3> QED BY <3>1, <3>2
  <2>2. words[1] = <<e.code>>
    BY DEF Worded
  <2>3. PICK code : code = e.code
    OBVIOUS
  <2>4. Len(<<code>>) = 1 /\ <<code>>[1] = code
    OBVIOUS
  <2>5. j = 1
    <3>1. j \in 1..1
      BY <2>2, <2>3, <2>4
    <3> QED BY <3>1
  <2> QED BY <2>1, <2>2, <2>3, <2>4, <2>5
<1>3. ASSUME NEW i \in 1..n, NEW j \in 1..Len(words[1 + i])
      PROVE  words[1 + i][j] # SP
  <2>1. words[1 + i] = e.words[i]
    BY <1>1 DEF Worded
  <2>2. PICK S : S = Seq(InLine)
    OBVIOUS
  <2>3. PICK ws \in Seq(S) : ws = e.words
    BY <2>2 DEF IsEvent
  <2>4. i \in 1..Len(ws) /\ i \in DOMAIN ws /\ ws[i] \in S
    BY <1>1, <2>3
  <2>5. SP \notin Range(ws[i])
    BY <2>3, <2>4 DEF AttributeLine
  <2>6. ws[i] \in Texts
    <3>1. InLine \subseteq Tokens
      BY InLineIsInChars
    <3> QED BY <2>2, <2>4, <3>1, WiderSequences DEF Texts
  <2> QED BY <2>1, <2>3, <2>5, <2>6, NoSpaceIn
<1>4. ASSUME NEW i \in 1..m, NEW j \in 1..Len(words[1 + (n + i)])
      PROVE  words[1 + (n + i)][j] # SP
  <2>1. words[1 + (n + i)] = AttributeText(e.attrs[i])
    BY <1>1 DEF Worded
  <2>2. IsAttribute(e.attrs[i]) /\ e.attrs[i].key # SP /\ SP \notin Range(e.attrs[i].val)
    BY <1>1, EventAttributes
  <2> QED BY <2>1, <2>2, AttributeHasNoSpace
<1>5. \A i \in 1..(1 + (n + m)) :
        \/ i = 1 \/ \E k \in 1..n : i = 1 + k
        \/ \E k \in 1..m : i = 1 + (n + k)
  <2> TAKE i \in 1..(1 + (n + m))
  <2>1. CASE i > 1 /\ i <= 1 + n
    <3>1. i - 1 \in 1..n /\ i = 1 + (i - 1)
      BY <2>1
    <3> QED BY <3>1
  <2>2. CASE i > 1 + n
    <3>1. i - (1 + n) \in 1..m /\ i = 1 + (n + (i - (1 + n)))
      BY <2>2
    <3> QED BY <3>1
  <2>3. i = 1 \/ i > 1
    OBVIOUS
  <2> QED BY <2>1, <2>2, <2>3
<1>6. ASSUME NEW i \in 1..Len(words), NEW j \in 1..Len(words[i])
      PROVE  words[i][j] # SP
  <2>1. CASE i = 1
    BY <1>2, <1>6, <2>1
  <2>2. ASSUME NEW k \in 1..n, i = 1 + k
        PROVE  words[i][j] # SP
    BY <1>3, <1>6, <2>2, Zenon
  <2>3. ASSUME NEW k \in 1..m, i = 1 + (n + k)
        PROVE  words[i][j] # SP
    BY <1>4, <1>6, <2>3, Zenon
  <2>4. i \in 1..(1 + (n + m))
    BY <1>1, <1>6
  <2>5. \/ i = 1 \/ \E k \in 1..n : i = 1 + k
        \/ \E k \in 1..m : i = 1 + (n + k)
    BY <1>5, <2>4, Zenon
  <2> QED BY <2>1, <2>2, <2>3, <2>5, Zenon
<1> QED BY <1>6

\* How the line of an event is read.
LEMMA EventLine ==
  ASSUME NEW e, IsEvent(e), AttributeLine(e)
  PROVE  \E t : /\ relayAsyncEvents(Meaning(EventMessage(e))) =
                     [code |-> <<e.code>>, event |-> ParseEvent(e.code, t, <<>>)]
                /\ Parted(Split(t, SP), e.words, e.attrs)
<1>1. PICK words \in Seq(Seq(Chars)) :
        /\ words = << <<e.code>> >> \o e.words
                     \o [i \in DOMAIN e.attrs |-> <<e.attrs[i].key, "=">> \o e.attrs[i].val]
        /\ Worded(words, e.code, e.words, e.attrs)
  BY EventWords, WordsOfEvent
<1>2. words \in Seq(Texts)
  BY InLineIsInChars, WiderSequences DEF Texts
<1>3. PICK n \in Nat, m \in Nat :
        /\ n = Len(e.words) /\ m = Len(e.attrs) /\ Len(words) = 1 + (n + m)
        /\ words[1] = <<e.code>> /\ n + m > 0
  BY <1>1 DEF Worded, AttributeLine
<1>4. PICK code \in Tokens : code = e.code
  BY InLineIsInChars DEF IsEvent
<1>5. Len(words[1]) = 1 /\ words[1][1] = code
  <2>1. Len(<<code>>) = 1 /\ <<code>>[1] = code
    OBVIOUS
  <2> QED BY <1>3, <1>4, <2>1
<1>6. \A i \in 1..Len(words) : \A j \in 1..Len(words[i]) : words[i][j] # SP
  <2>1. Worded(words, e.code, e.words, e.attrs)
    BY <1>1
  <2> QED BY <2>1, EventWordsHaveNoSpace, Zenon
<1>7. PICK t : /\ PartitionString(Join(words, SP), SP) =
                    [head |-> <<code>>, tail |-> t, ok |-> TRUE]
               /\ Split(t, SP) = Tail(words)
  <2>1. SP \in Tokens
    BY InLineIsInChars
  <2>2. Len(words) >= 2
    <3>1. n + m > 0
      BY <1>3
    <3>2. PICK l \in Nat : l = 1 + (n + m) /\ l >= 2
      BY <3>1
    <3> QED BY <1>3, <3>2
  <2> QED BY <1>2, <1>4, <1>5, <1>6, <2>1, <2>2, LineSplit DEF Texts
<1>8. PICK c : c = Meaning(EventMessage(e))
  OBVIOUS
<1>9. c.reply = Join(words, SP) /\ c.data = <<>>
  <2>1. PICK msg : msg = EventMessage(e)
    OBVIOUS
  <2>2. msg.reply = Join(words, SP) /\ msg.data = <<>>
    <3>1. e.style = "line"
      BY DEF AttributeLine
    <3> QED BY <1>1, <2>1, <3>1 DEF EventMessage, Words
  <2>3. c.reply = msg.reply
    BY <1>8, <2>1 DEF Meaning
  <2>4. c.data = <<>>
    <3>1. DOMAIN msg.data = {}
      BY <2>2
    <3>2. c.data = [i \in DOMAIN msg.data |->
               IF msg.data[i].lines = <<>> THEN msg.data[i].text
               ELSE msg.data[i].text \o <<CR, LF>> \o Join(msg.data[i].lines, LF)]
      BY <1>8, <2>1 DEF Meaning
    <3>3. DOMAIN c.data = {} /\ c.data = [i \in {} |-> c.data[i]]
      BY <3>1, <3>2
    <3>4. <<>> = [i \in {} |-> c.data[i]]
      OBVIOUS
    <3> QED BY <3>3, <3>4
  <2> QED BY <2>2, <2>3, <2>4
<1>10. SplitEvent(c) = [code |-> <<code>>, data |-> t, lines |-> <<>>]
  <2>1. Len(c.data) = 0
    BY <1>9
  <2>2. PICK reply : /\ reply = PartitionString(c.reply, SP)
                     /\ reply = [head |-> <<code>>, tail |-> t, ok |-> TRUE]
    BY <1>7, <1>9
  <2>3. SplitEvent(c) = [code |-> reply.head, data |-> reply.tail, lines |-> <<>>]
    BY <2>1, <2>2 DEF SplitEvent
  <2> QED BY <2>2, <2>3
<1>11. relayAsyncEvents(c) = [code |-> <<code>>, event |-> ParseEvent(code, t, <<>>)]
  <2>1. PICK event : event = SplitEvent(c) /\ event.code = <<code>> /\ event.data = t
                     /\ event.lines = <<>>
    BY <1>10
  <2>2. Len(<<code>>) = 1 /\ <<code>>[1] = code
    OBVIOUS
  <2>3. (IF Len(event.code) = 1 THEN event.code[1] ELSE "unknown") = code
    BY <2>1, <2>2
  <2> QED BY <2>1, <2>3, Zenon DEF relayAsyncEvents
<1>12. Parted(Split(t, SP), e.words, e.attrs)
  <2>1. PICK l \in Nat \ {0} : l = 1 + (n + m)
    OBVIOUS
  <2>2. PICK tail \in Seq(Texts) :
          /\ tail = Tail(words) /\ Len(tail) = l - 1
          /\ \A k \in 1..(l - 1) : tail[k] = words[k + 1]
    <3>1. Len(words) = l
      BY <1>3, <2>1
    <3>2. /\ Tail(words) \in Seq(Texts) /\ Len(Tail(words)) = l - 1
          /\ \A k \in 1..(l - 1) : Tail(words)[k] = words[k + 1]
      BY <1>2, <3>1, HeadAndTail
    <3> QED BY <3>2
  <2>3. /\ l - 1 = n + m
        /\ \A i \in 1..n : i \in 1..(l - 1) /\ i + 1 = 1 + i
        /\ \A i \in 1..m : n + i \in 1..(l - 1) /\ (n + i) + 1 = 1 + (n + i)
    BY <2>1
  <2>4. \A i \in 1..n : tail[i] = e.words[i]
    <3>1. \A i \in 1..n : words[1 + i] = e.words[i]
      BY <1>1, <1>3 DEF Worded
    <3> QED BY <2>2, <2>3, <3>1, Zenon
  <2>5. \A i \in 1..m : tail[n + i] = AttributeText(e.attrs[i])
    <3>1. \A i \in 1..m : words[1 + (n + i)] = AttributeText(e.attrs[i])
      BY <1>1, <1>3 DEF Worded
    <3> QED BY <2>2, <2>3, <3>1, Zenon
  <2>6. \A i \in 1..m : IsAttribute(e.attrs[i])
    BY <1>3, EventAttributes
  <2> QED BY <1>3, <1>7, <2>2, <2>3, <2>4, <2>5, <2>6, Zenon DEF Parted
<1> QED BY <1>4, <1>8, <1>11, <1>12

LEMMA LinesAlike ==
  ASSUME NEW d, NEW e, IsEvent(d), IsEvent(e), AttributeLine(d), AttributeLine(e), Alike(d, e),
         NEW t, NEW u, Parted(Split(t, SP), d.words, d.attrs), Parted(Split(u, SP), e.words, e.attrs)
  PROVE  AlikeLines(d.code, t, u, d.words, d.attrs, e.attrs)
<1>1. d.code = e.code /\ d.words = e.words /\ Known(d) = Known(e)
  BY DEF Alike
<1>2. ASSUME NEW x, IsEvent(x), AttributeLine(x)
      PROVE  /\ x.code \in DOMAIN PositionalWords /\ PositionalWords[x.code] <= Len(x.words)
             /\ Clear(x.attrs) /\ Allowed(x.code, x.words, x.attrs)
             /\ \A i \in 1..Len(x.attrs) : x.attrs[i].key # NewAttribute => x.attrs[i] \in Known(x)
             /\ \A a \in Known(x) : \E i \in 1..Len(x.attrs) : x.attrs[i] = a
  <2>1. PICK as : as = x.attrs /\ DOMAIN as = 1..Len(as)
    <3>1. PICK T : T = [key : InLine, val : Seq(InLine)]
      OBVIOUS
    <3>2. x.attrs \in Seq(T)
      BY <1>2, <3>1 DEF IsEvent
    <3>3. DOMAIN x.attrs = 1..Len(x.attrs)
      BY <3>2
    <3> QED BY <3>3
  <2>2. PICK keys : keys = {x.attrs[i].key : i \in DOMAIN x.attrs}
    OBVIOUS
  <2>3. /\ x.code \in DOMAIN PositionalWords /\ PositionalWords[x.code] <= Len(x.words)
        /\ \A i, j \in 1..Len(as) : as[i].key = as[j].key => i = j
    <3>1. PICK n \in Nat, k \in Nat : n = Len(x.words) /\ k = PositionalWords[x.code]
      <4>1. x.words \in Seq(Seq(InLine)) /\ x.code \in DOMAIN PositionalWords
        BY <1>2 DEF IsEvent, AttributeLine
      <4>2. PositionalWords[x.code] \in Nat
        BY <4>1 DEF PositionalWords
      <4>3. PICK S : S = Seq(InLine)
        OBVIOUS
      <4>4. PICK ws \in Seq(S) : ws = x.words
        BY <4>1, <4>3
      <4>5. Len(ws) \in Nat
        OBVIOUS
      <4> QED BY <4>2, <4>4, <4>5
    <3>2. /\ x.code \in DOMAIN PositionalWords /\ n >= k
          /\ \A i, j \in 1..Len(as) : as[i].key = as[j].key => i = j
      BY <1>2, <2>1, <3>1, Zenon DEF AttributeLine
    <3>3. k <= n
      BY <3>2
    <3> QED BY <3>1, <3>2, <3>3
  <2>4. /\ ~({"InboundTime", "OutboundTime"} \subseteq keys)
        /\ x.code \in {"CIRC", "CIRC_MINOR"} /\ Len(x.words) = 2 => keys \subseteq DOMAIN CircuitAttrs
        /\ x.code \in {"STATUS_CLIENT", "STATUS_GENERAL", "STATUS_SERVER"} => NewAttribute \notin keys
    BY <1>2, <2>2, Zenon DEF AttributeLine
  <2>5. \A i \in 1..Len(as) : as[i].key \in keys
    BY <2>1, <2>2
  <2>6. Clear(as)
    BY <2>3, <2>4, <2>5 DEF Clear, Distinct, BothTimes
  <2>7. Allowed(x.code, x.words, as)
    BY <2>4, <2>5 DEF Allowed, Within, StatusCodes
  <2>8. Known(x) = {a \in {as[i] : i \in 1..Len(as)} : a.key # NewAttribute}
    BY <2>1 DEF Known, Range
  <2>9. /\ \A i \in 1..Len(as) : as[i].key # NewAttribute => as[i] \in Known(x)
        /\ \A a \in Known(x) : \E i \in 1..Len(as) : as[i] = a
    BY <2>8
  <2> QED BY <2>1, <2>3, <2>6, <2>7, <2>9
<1>3. /\ d.code \in DOMAIN PositionalWords /\ PositionalWords[d.code] <= Len(d.words)
      /\ Clear(d.attrs) /\ Allowed(d.code, d.words, d.attrs)
      /\ Clear(e.attrs) /\ Allowed(e.code, e.words, e.attrs)
  BY <1>2
<1>4. SameKnown(d.attrs, e.attrs) /\ SameKnown(e.attrs, d.attrs)
  <2>1. ASSUME NEW x, NEW y, x \in {d, e}, y \in {d, e}
        PROVE  SameKnown(x.attrs, y.attrs)
    <3>1. Known(x) = Known(y)
      BY <1>1, <2>1
    <3>2. ASSUME NEW i \in 1..Len(x.attrs), x.attrs[i].key # NewAttribute
          PROVE  \E j \in 1..Len(y.attrs) : y.attrs[j] = x.attrs[i]
      <4>1. x.attrs[i] \in Known(x)
        BY <1>2, <2>1, <3>2, Zenon
      <4>2. x.attrs[i] \in Known(y)
        BY <3>1, <4>1
      <4> QED BY <1>2, <2>1, <4>2, Zenon
    <3> QED BY <3>2 DEF SameKnown
  <2> QED BY <2>1
<1> QED BY <1>1, <1>3, <1>4, Zenon DEF AlikeLines, LinePair

\* Events alike are decoded alike.
LEMMA EventsAlike ==
  ASSUME NEW d, NEW e, IsEvent(d), IsEvent(e), Alike(d, e),
         d = e \/ (AttributeLine(d) /\ AttributeLine(e))
  PROVE  SameBut(relayAsyncEvents(Meaning(EventMessage(d))).event,
                 relayAsyncEvents(Meaning(EventMessage(e))).event)
<1>1. CASE d = e
  BY <1>1 DEF SameBut
<1>2. CASE AttributeLine(d) /\ AttributeLine(e)
  <2>1. PICK t : /\ relayAsyncEvents(Meaning(EventMessage(d))) =
                      [code |-> <<d.code>>, event |-> ParseEvent(d.code, t, <<>>)]
                 /\ Parted(Split(t, SP), d.words, d.attrs)
    BY <1>2, EventLine
  <2>2. PICK u : /\ relayAsyncEvents(Meaning(EventMessage(e))) =
                      [code |-> <<e.code>>, event |-> ParseEvent(e.code, u, <<>>)]
                 /\ Parted(Split(u, SP), e.words, e.attrs)
    BY <1>2, EventLine
  <2>3. AlikeLines(d.code, t, u, d.words, d.attrs, e.attrs)
    BY <1>2, <2>1, <2>2, LinesAlike
  <2>4. SameBut(ParseEvent(d.code, t, <<>>), ParseEvent(d.code, u, <<>>))
    BY <2>3, LinesCommute
  <2>5. d.code = e.code
    BY DEF Alike
  <2> QED BY <2>1, <2>2, <2>4, <2>5
<1> QED BY <1>1, <1>2

\* Up to a protocol error or a torn line two events that differ only in the order
\* of their attributes, and in attributes that no parser knows, are decoded into the
\* same fields, whatever their words and values: the parsers go by the keys
\* (cmd_event.go:335-339).
THEOREM AttributesInAnyOrder ==
  ASSUME RepliesAreNoEvents, AttributeLines
  PROVE  Spec => []AttributesCommute
<1>1. ASSUME Inv, OwnEvents
      PROVE  AttributesCommute
  <2> SUFFICES ASSUME Intact, NEW i \in DOMAIN events, NEW j \in DOMAIN events,
                      Alike(session.events[i], session.events[j]),
                      NEW f \in DOMAIN events[i].event \ {"Raw"}
               PROVE  events[i].event[f] = events[j].event[f]
    BY DEF AttributesCommute
  <2>1. DOMAIN events = 1..Len(events)
    BY <1>1 DEF Inv, SessionOK, IsSequence
  <2>2. /\ i <= emitted /\ events[i] = relayAsyncEvents(Meaning(EventMessage(session.events[i])))
        /\ j <= emitted /\ events[j] = relayAsyncEvents(Meaning(EventMessage(session.events[j])))
    BY <1>1, <2>1 DEF OwnEvents, OwnEvent
  <2>3. session \in Sessions /\ i \in DOMAIN session.events /\ j \in DOMAIN session.events
    <3>1. session \in Sessions /\ emitted \in 0..Len(session.events)
      BY <1>1 DEF Inv, SessionOK
    <3>2. PICK evs \in Seq(Range(session.events)) : evs = session.events
      BY <3>1, SessionAssumption
    <3>3. DOMAIN evs = 1..Len(evs) /\ Len(evs) \in Nat
      OBVIOUS
    <3>4. PICK n \in Nat, m \in Nat : n = Len(events) /\ m = Len(evs) /\ i <= m /\ j <= m
      <4>1. Len(events) \in Nat
        BY <1>1 DEF Inv, SessionOK, IsSequence
      <4>2. PICK k \in Nat, m \in Nat : k = emitted /\ m = Len(evs) /\ k <= m
        BY <3>1, <3>2, <3>3
      <4>3. PICK n \in Nat : n = Len(events) /\ i \in 1..n /\ j \in 1..n
        BY <2>1, <4>1
      <4>4. i <= k /\ j <= k
        BY <2>2, <4>2
      <4>5. i <= m /\ j <= m
        BY <4>2, <4>3, <4>4
      <4> QED BY <4>2, <4>3, <4>5
    <3> QED BY <2>1, <3>1, <3>2, <3>3, <3>4
  <2>4. IsEvent(session.events[i]) /\ IsEvent(session.events[j])
    BY <2>3, SessionAssumption DEF Range
  <2>5. \/ session.events[i] = session.events[j]
        \/ AttributeLine(session.events[i]) /\ AttributeLine(session.events[j])
    BY <2>3 DEF AttributeLines
  <2>6. SameBut(events[i].event, events[j].event)
    BY <2>2, <2>4, <2>5, EventsAlike
  <2> QED BY <2>6 DEF SameBut
<1> QED BY <1>1, Invariance, EventsInOrder, PTL

----------------------------------------------------------------------------
(* The code of an event *)

\* Everything behind the code of an event's words follows a space.
LEMMA WordsBegin ==
  ASSUME NEW T, NEW words \in Seq(Seq(T)), NEW ch \in T, NEW code \in T, Len(words) >= 1,
         words[1] = <<code>>
  PROVE  \/ Len(words) = 1 /\ Join(words, ch) = <<code>>
         \/ Len(words) >= 2 /\ \E t \in Seq(T) : Join(words, ch) = TwoBefore(code, ch, t)
<1>1. PICK n \in Nat : n = Len(words) /\ n >= 1
  OBVIOUS
<1>2. PICK one \in Seq(T) : one = <<code>> /\ Len(one) = 1 /\ one[1] = code
  BY OneTuple
<1>3. Len(words[1]) = 1 /\ words[1][1] = code
  BY <1>2
<1>4. PICK str : str = Join(words, ch)
  OBVIOUS
<1>5. str \in Seq(T)
  <2>1. Join(words, ch) \in Seq(T)
    BY JoinLayout
  <2> QED BY <1>4, <2>1
<1>6. PICK s : Joined(words, ch, str, s)
  <2>1. \E s : Joined(words, ch, Join(words, ch), s)
    BY JoinLayout
  <2> QED BY <1>4, <2>1
<1>7. CASE n = 1
  <2>1. s[1] = 0 /\ Len(str) = s[1] + Len(words[1])
    BY <1>1, <1>6, <1>7, Zenon DEF Joined
  <2>2. Len(str) = 1
    BY <1>3, <2>1
  <2>3. str[s[1] + 1] = words[1][1]
    <3>1. 1 \in 1..n /\ 1 \in 1..1
      BY <1>1
    <3>2. \A i \in 1..n : \A j \in 1..Len(words[i]) : str[s[i] + j] = words[i][j]
      BY <1>1, <1>6, Zenon DEF Joined
    <3> QED BY <1>3, <3>1, <3>2, Zenon
  <2>4. str[1] = code
    <3>1. 0 + 1 = 1
      OBVIOUS
    <3> QED BY <1>3, <2>1, <2>3, <3>1, Zenon
  <2>5. str = one
    BY <1>2, <1>5, <2>2, <2>4
  <2> QED BY <1>1, <1>2, <1>4, <1>7, <2>5
<1>8. CASE n # 1
  <2>1. n >= 2
    BY <1>1, <1>8
  <2>2. PICK t : Following(T, str, code, ch, t)
    BY <1>1, <1>3, <1>5, <1>6, <2>1, TailJoined
  <2>3. str = TwoBefore(code, ch, t) /\ t \in Seq(T)
    BY <1>5, <2>2, FirstTwo DEF Following
  <2> QED BY <1>1, <1>4, <2>1, <2>3
<1> QED BY <1>7, <1>8

\* The first token goes up to the first ch.
LEMMA HeadRead ==
  ASSUME NEW T, NEW code \in T, NEW ch \in T, code # ch, NEW t \in Seq(T)
  PROVE  /\ PartitionString(<<code>>, ch).head = <<code>> /\ ~PartitionString(<<code>>, ch).ok
         /\ PartitionString(TwoBefore(code, ch, t), ch).head = <<code>>
         /\ PartitionString(TwoBefore(code, ch, t), ch).ok
<1>1. PICK one \in Seq(T) : one = <<code>> /\ Len(one) = 1 /\ one[1] = code
  BY OneTuple
<1>2. \A i \in 1..Len(one) : one[i] # ch
  BY <1>1
<1>3. PartitionString(one, ch) = [head |-> one, tail |-> <<>>, ok |-> FALSE]
  BY <1>2, PartitionNone
<1>4. PartitionString(one \o (<<ch>> \o t), ch) = [head |-> one, tail |-> t, ok |-> TRUE]
  BY <1>2, PartitionFirst
<1>5. TwoBefore(code, ch, t) = one \o (<<ch>> \o t)
  BY <1>1 DEF TwoBefore
<1>6. PICK p, q : p = PartitionString(one, ch) /\ q = PartitionString(TwoBefore(code, ch, t), ch)
  OBVIOUS
<1>7. p = [head |-> one, tail |-> <<>>, ok |-> FALSE] /\ q = [head |-> one, tail |-> t, ok |-> TRUE]
  BY <1>3, <1>4, <1>5, <1>6, Zenon
<1>8. p.head = one /\ ~p.ok /\ q.head = one /\ q.ok
  BY <1>7
<1> QED BY <1>1, <1>6, <1>8, Zenon

\* The code of an event can be read.
Readable(e) ==
  /\ e.code # SP
  /\ e.style = "body" /\ e.words = <<>> /\ e.attrs = <<>> =>
       \A i \in DOMAIN e.body : SP \notin Range(e.body[i])

EventLineOf(e) ==
  << <<e.code>> >> \o e.words
    \o [i \in DOMAIN e.attrs |-> <<e.attrs[i].key, "=">> \o e.attrs[i].val]

LEMMA LineOfWords ==
  ASSUME NEW e, IsEvent(e)
  PROVE  \E words \in Seq(Texts) :
           /\ words = EventLineOf(e) /\ Len(words) >= 1 /\ words[1] = <<e.code>>
           /\ Len(words) = 1 => e.words = <<>> /\ e.attrs = <<>>
<1>1. EventLineOf(e) \in Seq(Texts) /\ Worded(EventLineOf(e), e.code, e.words, e.attrs)
  <2>1. EventLineOf(e) \in Seq(Seq(Chars))
    BY EventWords, Zenon DEF EventLineOf
  <2>2. Worded(EventLineOf(e), e.code, e.words, e.attrs)
    BY WordsOfEvent, Zenon DEF EventLineOf
  <2> QED BY <2>1, <2>2, InLineIsInChars, WiderSequences DEF Texts
<1>2. PICK words \in Seq(Texts) :
        words = EventLineOf(e) /\ Worded(words, e.code, e.words, e.attrs)
  BY <1>1
<1>3. PICK n \in Nat, m \in Nat :
        /\ n = Len(e.words) /\ m = Len(e.attrs) /\ Len(words) = 1 + (n + m)
        /\ words[1] = <<e.code>>
  BY <1>2 DEF Worded
<1>4. 1 + (n + m) >= 1 /\ (1 + (n + m) = 1 => n = 0 /\ m = 0)
  OBVIOUS
<1>5. n = 0 => e.words = <<>>
  <2>1. PICK S : S = Seq(InLine)
    OBVIOUS
  <2>2. PICK ws \in Seq(S) : ws = e.words
    BY <2>1 DEF IsEvent
  <2>3. Len(ws) = 0 => ws = <<>>
    OBVIOUS
  <2> QED BY <1>3, <2>2, <2>3
<1>6. m = 0 => e.attrs = <<>>
  <2>1. PICK S : S = [key : InLine, val : Seq(InLine)]
    OBVIOUS
  <2>2. PICK as \in Seq(S) : as = e.attrs
    BY <2>1 DEF IsEvent
  <2>3. Len(as) = 0 => as = <<>>
    OBVIOUS
  <2> QED BY <1>3, <2>2, <2>3
<1> QED BY <1>2, <1>3, <1>4, <1>5, <1>6

\* What Tor writes of an event, by its style.
LEMMA EventParts ==
  ASSUME NEW e, IsEvent(e), NEW words, words = EventLineOf(e), NEW c, c = Meaning(EventMessage(e))
  PROVE  /\ e.style = "line" => c.data = <<>> /\ c.reply = Words(words)
         /\ e.style = "body" =>
              /\ Len(c.data) = 1
              /\ c.data[1] = IF e.body = <<>> THEN Words(words)
                             ELSE Words(words) \o <<CR, LF>> \o Join(e.body, LF)
         /\ e.style = "lines" => c.data = [i \in DOMAIN words |-> words[i]]
<1>1. PICK msg : msg = EventMessage(e)
  OBVIOUS
<1>2. /\ c.reply = msg.reply
      /\ c.data = [i \in DOMAIN msg.data |->
               IF msg.data[i].lines = <<>> THEN msg.data[i].text
               ELSE msg.data[i].text \o <<CR, LF>> \o Join(msg.data[i].lines, LF)]
  BY <1>1 DEF Meaning
<1>3. CASE e.style = "line"
  <2>1. msg.reply = Words(words) /\ msg.data = <<>>
    BY <1>1, <1>3 DEF EventMessage, EventLineOf
  <2>2. DOMAIN msg.data = {}
    BY <2>1
  <2>3. DOMAIN c.data = {} /\ c.data = [i \in {} |-> c.data[i]]
    BY <1>2, <2>2
  <2>4. <<>> = [i \in {} |-> c.data[i]]
    OBVIOUS
  <2> QED BY <1>2, <1>3, <2>1, <2>3, <2>4
<1>4. CASE e.style = "body"
  <2>1. PICK entry : entry = [text |-> Words(words), lines |-> e.body]
    OBVIOUS
  <2>2. msg.data = <<entry>>
    BY <1>1, <1>4, <2>1 DEF EventMessage, EventLineOf
  <2>3. DOMAIN msg.data = 1..1 /\ msg.data[1] = entry
    BY <2>2
  <2>4. entry.text = Words(words) /\ entry.lines = e.body
    BY <2>1
  <2>5. DOMAIN c.data = 1..1 /\ c.data = [i \in 1..1 |-> c.data[i]]
    BY <1>2, <2>3
  <2>6. Len(c.data) = 1
    BY <2>5
  <2>7. c.data[1] = IF entry.lines = <<>> THEN entry.text
                    ELSE entry.text \o <<CR, LF>> \o Join(entry.lines, LF)
    <3>1. 1 \in 1..1
      OBVIOUS
    <3> QED BY <1>2, <2>3, <3>1, Zenon
  <2> QED BY <1>4, <2>4, <2>6, <2>7
<1>5. CASE e.style = "lines"
  <2>1. msg.data = [i \in DOMAIN words |-> [text |-> words[i], lines |-> <<>>]]
    BY <1>1, <1>5, Zenon DEF EventMessage, EventLineOf
  <2>2. \A i \in DOMAIN words : msg.data[i].lines = <<>> /\ msg.data[i].text = words[i]
    BY <2>1
  <2>3. DOMAIN msg.data = DOMAIN words
    BY <2>1
  <2>4. c.data = [i \in DOMAIN words |-> words[i]]
    BY <1>2, <2>2, <2>3
  <2> QED BY <1>5, <2>4
<1> QED BY <1>3, <1>4, <1>5

LEMMA JoinHasNo ==
  ASSUME NEW parts \in Seq(Texts), NEW ch \in Tokens, NEW no, no # ch,
         \A i \in DOMAIN parts : no \notin Range(parts[i])
  PROVE  Join(parts, ch) \in Seq(Tokens \ {no})
<1>1. PICK T : T = Tokens \ {no}
  OBVIOUS
<1>2. ASSUME NEW i \in 1..Len(parts)
      PROVE  parts[i] \in Seq(T)
  <2>1. PICK part \in Texts : part = parts[i] /\ i \in DOMAIN parts
    OBVIOUS
  <2>2. no \notin Range(part)
    BY <2>1
  <2>3. PICK n \in Nat : n = Len(part) /\ DOMAIN part = 1..n
    BY DEF Texts
  <2>4. ASSUME NEW j \in 1..n
        PROVE  part[j] \in T
    <3>1. part[j] \in Tokens
      BY <2>3, Element DEF Texts
    <3>2. part[j] # no
      BY <2>2, <2>3 DEF Range
    <3> QED BY <1>1, <3>1, <3>2
  <2>5. part \in Seq(T)
    BY <2>3, <2>4 DEF Texts
  <2> QED BY <2>1, <2>5
<1>3. PICK S : S = Seq(T)
  OBVIOUS
<1>4. parts \in Seq(S)
  BY <1>2, <1>3
<1>5. Join(parts, ch) \in Seq(T)
  <2>1. parts \in Seq(Seq(T)) /\ ch \in T
    BY <1>1, <1>3, <1>4
  <2> QED BY <2>1, JoinText
<1> QED BY <1>1, <1>5

\* Concatenation, as an operator of its own.
Cat(x, y) == x \o y

LEMMA CatTexts ==
  ASSUME NEW T, NEW x \in Seq(T), NEW y \in Seq(T)
  PROVE  Cat(x, y) \in Seq(T) /\ \A z \in Seq(T) : Cat(Cat(x, y), z) = Cat(x, Cat(y, z))
<1>1. x \o y \in Seq(T)
  BY Concat
<1>2. ASSUME NEW z \in Seq(T)
      PROVE  (x \o y) \o z = x \o (y \o z)
  BY ConcatAssociative
<1> QED BY <1>1, <1>2 DEF Cat

CatsIn(S) ==
  /\ \A x, y \in S : Cat(x, y) \in S
  /\ \A x, y, z \in S : Cat(Cat(x, y), z) = Cat(x, Cat(y, z))

LEMMA CatsOver ==
  ASSUME NEW T
  PROVE  CatsIn(Seq(T))
<1>1. \A x, y \in Seq(T) : Cat(x, y) \in Seq(T)
  BY CatTexts
<1>2. \A x, y, z \in Seq(T) : Cat(Cat(x, y), z) = Cat(x, Cat(y, z))
  BY CatTexts
<1> QED BY <1>1, <1>2 DEF CatsIn

\* A line of the code alone, and what follows it.
BehindCode(code, b) == <<code>> \o <<CR, LF>> \o b

LEMMA BehindCodeIs ==
  ASSUME NEW T, NEW code \in T, NEW b \in Seq(T), CR \in T, LF \in T
  PROVE  /\ BehindCode(code, b) \in Seq(T)
         /\ \E t \in Seq(T) : BehindCode(code, b) = TwoBefore(code, CR, t)
<1>1. PICK cr \in T, lf \in T : cr = CR /\ lf = LF
  OBVIOUS
<1>2. PICK one \in Seq(T), c \in Seq(T), l \in Seq(T) :
        one = <<code>> /\ c = <<cr>> /\ l = <<lf>>
  BY OneTuple
<1>3. PICK S : S = Seq(T) /\ CatsIn(S)
  BY CatsOver
<1>4. one \in S /\ c \in S /\ l \in S /\ b \in S
  BY <1>3
<1>5. PICK cl \in S : cl = Cat(c, l) /\ cl = <<cr, lf>>
  <2>1. Cat(c, l) \in S
    BY <1>3, <1>4 DEF CatsIn
  <2>2. Cat(c, l) = <<cr, lf>>
    BY <1>2, TwoTuples DEF Cat
  <2> QED BY <2>1, <2>2
<1>6. PICK t \in S : t = Cat(l, b)
  BY <1>3, <1>4 DEF CatsIn
<1>7. Cat(Cat(one, cl), b) = Cat(one, Cat(c, t))
  <2>1. Cat(Cat(one, cl), b) = Cat(one, Cat(cl, b))
    BY <1>3, <1>4 DEF CatsIn
  <2>2. Cat(Cat(c, l), b) = Cat(c, t)
    BY <1>3, <1>4, <1>6 DEF CatsIn
  <2> QED BY <1>5, <2>1, <2>2
<1>8. Cat(one, Cat(c, t)) = TwoBefore(code, CR, t)
  BY <1>1, <1>2 DEF TwoBefore, Cat
<1>9. BehindCode(code, b) = Cat(Cat(one, cl), b)
  BY <1>1, <1>2, <1>5 DEF BehindCode, Cat
<1>10. Cat(Cat(one, cl), b) \in S
  BY <1>3, <1>4 DEF CatsIn
<1> QED BY <1>3, <1>7, <1>8, <1>9, <1>10

\* Behind the code alone a body without spaces begins at the line break.
LEMMA BodyRead ==
  ASSUME NEW code \in Chars, code # SP, NEW body \in Seq(Texts),
         \A i \in DOMAIN body : SP \notin Range(body[i]),
         NEW str, str = BehindCode(code, Join(body, LF))
  PROVE  /\ ~PartitionString(str, SP).ok /\ PartitionString(str, CR).ok
         /\ PartitionString(str, CR).head = <<code>>
<1>1. PICK T : T = Tokens \ {SP}
  OBVIOUS
<1>2. CR \in Tokens /\ LF \in Tokens /\ CR # SP /\ LF # SP /\ code \in Tokens /\ code # CR
  <2>1. CR \in Tokens /\ LF \in Tokens
    BY DEF Tokens, Literals
  <2>2. CR # SP /\ LF # SP
    BY DEF SP, CR, LF
  <2>3. code \in Tokens /\ code # CR
    BY InLineIsInChars DEF Chars
  <2> QED BY <2>1, <2>2, <2>3
<1>3. PICK b \in Seq(T) : b = Join(body, LF)
  <2>1. Join(body, LF) \in Seq(Tokens \ {SP})
    BY <1>2, JoinHasNo
  <2> QED BY <1>1, <2>1
<1>4. code \in T /\ CR \in T /\ LF \in T
  BY <1>1, <1>2
<1>5. str \in Seq(T) /\ \E t \in Seq(T) : str = TwoBefore(code, CR, t)
  BY <1>3, <1>4, BehindCodeIs
<1>6. PartitionString(str, CR).ok /\ PartitionString(str, CR).head = <<code>>
  <2>1. PICK t \in Seq(T) : str = TwoBefore(code, CR, t)
    BY <1>5
  <2>2. PICK cr \in T : cr = CR /\ code # cr
    BY <1>2, <1>4
  <2>3. /\ PartitionString(TwoBefore(code, cr, t), cr).ok
        /\ PartitionString(TwoBefore(code, cr, t), cr).head = <<code>>
    BY <1>4, <2>2, HeadRead
  <2> QED BY <2>1, <2>2, <2>3
<1>7. ~PartitionString(str, SP).ok
  <2>1. \A i \in 1..Len(str) : str[i] # SP
    <3>1. \A i \in 1..Len(str) : str[i] \in T
      BY <1>5, Element
    <3> QED BY <1>1, <3>1
  <2>2. PartitionString(str, SP) = [head |-> str, tail |-> <<>>, ok |-> FALSE]
    BY <1>5, <2>1, PartitionNone
  <2> QED BY <2>2
<1> QED BY <1>6, <1>7

LEMMA CountCases ==
  ASSUME NEW n \in Nat
  PROVE  /\ n = 0 \/ n = 1 \/ n > 1
         /\ n = 0 => n # 1 /\ ~(n > 1)
         /\ n > 1 => n # 1 /\ n # 0
OBVIOUS

\* Which text the code is, by the number of data lines.
LEMMA SplitCode ==
  ASSUME NEW c, NEW n \in Nat, n = Len(c.data)
  PROVE  /\ n = 0 => SplitEvent(c).code = PartitionString(c.reply, SP).head
         /\ n > 1 => SplitEvent(c).code = c.data[1]
         /\ n = 1 =>
              SplitEvent(c).code =
                IF PartitionString(c.data[1], SP).ok THEN PartitionString(c.data[1], SP).head
                ELSE IF PartitionString(c.data[1], CR).ok
                     THEN PartitionString(c.data[1], CR).head
                     ELSE c.data[1]
<1>1. PICK space : space = PartitionString(c.data[1], SP)
  OBVIOUS
<1>2. PICK br : br = PartitionString(c.data[1], CR)
  OBVIOUS
<1>3. CASE n = 0
  <2>1. SplitEvent(c).code = PartitionString(c.reply, SP).head
    BY <1>3 DEF SplitEvent
  <2> QED BY <1>3, <2>1, CountCases
<1>4. CASE n > 1
  <2>1. SplitEvent(c).code = c.data[1]
    BY <1>4 DEF SplitEvent
  <2> QED BY <1>4, <2>1, CountCases
<1>5. CASE n = 1
  <2>1. CASE space.ok
    BY <1>1, <1>5, <2>1 DEF SplitEvent
  <2>2. CASE ~space.ok /\ br.ok
    BY <1>1, <1>2, <1>5, <2>2 DEF SplitEvent
  <2>3. CASE ~space.ok /\ ~br.ok
    BY <1>1, <1>2, <1>5, <2>3 DEF SplitEvent
  <2> QED BY <1>1, <1>2, <1>5, <2>1, <2>2, <2>3
<1> QED BY <1>3, <1>4, <1>5, CountCases

\* A line, and what follows it.
LineBody(text, b) == text \o <<CR, LF>> \o b

\* What is behind a line is behind its code and the space.
LEMMA BeforeMore ==
  ASSUME NEW T, NEW code \in T, NEW ch \in T, NEW t \in Seq(T), NEW l \in Seq(T), NEW b \in Seq(T)
  PROVE  \E v \in Seq(T) : Cat(Cat(TwoBefore(code, ch, t), l), b) = TwoBefore(code, ch, v)
<1>1. PICK one \in Seq(T) : one = <<code>>
  BY OneTuple
<1>2. PICK two \in Seq(T) : two = <<ch>>
  BY OneTuple
<1>3. \A w \in Seq(T) : TwoBefore(code, ch, w) = Cat(one, Cat(two, w))
  BY <1>1, <1>2 DEF TwoBefore, Cat
<1>4. PICK S : S = Seq(T) /\ CatsIn(S)
  BY CatsOver
<1>5. one \in S /\ two \in S /\ t \in S /\ l \in S /\ b \in S
  BY <1>4
<1>6. PICK tl \in S : tl = Cat(t, l)
  BY <1>4, <1>5 DEF CatsIn
<1>7. PICK v \in S : v = Cat(tl, b)
  BY <1>4, <1>5, <1>6 DEF CatsIn
<1>8. Cat(Cat(two, t), l) = Cat(two, tl) /\ Cat(Cat(two, tl), b) = Cat(two, v)
  BY <1>4, <1>5, <1>6, <1>7 DEF CatsIn
<1>9. Cat(two, t) \in S /\ Cat(two, tl) \in S
  BY <1>4, <1>5 DEF CatsIn
<1>10. /\ Cat(Cat(one, Cat(two, t)), l) = Cat(one, Cat(Cat(two, t), l))
       /\ Cat(Cat(one, Cat(two, tl)), b) = Cat(one, Cat(Cat(two, tl), b))
  BY <1>4, <1>5, <1>9 DEF CatsIn
<1> QED BY <1>3, <1>4, <1>7, <1>8, <1>10

LEMMA LineBodyIs ==
  ASSUME NEW T, NEW code \in T, NEW ch \in T, NEW t \in Seq(T), NEW b \in Seq(T), CR \in T, LF \in T
  PROVE  \E v \in Seq(T) : LineBody(TwoBefore(code, ch, t), b) = TwoBefore(code, ch, v)
<1>1. PICK l \in Seq(T) : l = <<CR, LF>>
  BY Tuples
<1>2. \E v \in Seq(T) : Cat(Cat(TwoBefore(code, ch, t), l), b) = TwoBefore(code, ch, v)
  BY BeforeMore
<1> QED BY <1>1, <1>2 DEF LineBody, Cat

\* The first space of a line of several words is behind the code.
LEMMA LineHead ==
  ASSUME NEW code \in Tokens, code # SP, NEW t \in Texts, NEW b \in Texts,
         NEW str, str = LineBody(TwoBefore(code, SP, t), b)
  PROVE  /\ PartitionString(str, SP).ok
         /\ PartitionString(str, SP).head = <<code>>
<1>1. PICK T : T = Tokens
  OBVIOUS
<1>2. SP \in Tokens /\ CR \in Tokens /\ LF \in Tokens
  BY DEF Tokens, Literals
<1>3. PICK sp \in T, cr \in T, lf \in T : sp = SP /\ cr = CR /\ lf = LF
  BY <1>1, <1>2
<1>4. code \in T /\ t \in Seq(T) /\ b \in Seq(T)
  BY <1>1 DEF Texts
<1>9. PICK v \in Seq(T) : LineBody(TwoBefore(code, sp, t), b) = TwoBefore(code, sp, v)
  BY <1>3, <1>4, LineBodyIs
<1>10. str = TwoBefore(code, sp, v)
  BY <1>3, <1>9
<1>11. code # sp
  BY <1>3
<1>12. /\ PartitionString(TwoBefore(code, sp, v), sp).ok
       /\ PartitionString(TwoBefore(code, sp, v), sp).head = <<code>>
  BY <1>4, <1>11, HeadRead
<1> QED BY <1>3, <1>10, <1>12

\* The code is read off whatever the event.
LEMMA CodeRead ==
  ASSUME NEW e, IsEvent(e), Readable(e)
  PROVE  relayAsyncEvents(Meaning(EventMessage(e))).code = <<e.code>>
<1>1. PICK code \in Chars : code = e.code /\ code # SP /\ code # CR /\ code \in Tokens /\ SP \in Tokens
  BY InLineIsInChars DEF IsEvent, Readable, Chars
<1>2. PICK words \in Seq(Texts) :
        /\ words = EventLineOf(e) /\ Len(words) >= 1 /\ words[1] = <<code>>
        /\ Len(words) = 1 => e.words = <<>> /\ e.attrs = <<>>
  BY <1>1, LineOfWords
<1>3. PICK str : /\ str = Words(words)
                 /\ \/ Len(words) = 1 /\ str = <<code>>
                    \/ Len(words) >= 2 /\ \E t \in Texts : str = TwoBefore(code, SP, t)
  <2>1. words \in Seq(Seq(Tokens))
    BY DEF Texts
  <2> QED BY <1>1, <1>2, <2>1, WordsBegin DEF Words, Texts
<1>4. PICK c : c = Meaning(EventMessage(e))
  OBVIOUS
<1>5. PICK split : split = SplitEvent(c)
  OBVIOUS
<1>6. code \in Tokens
  BY <1>1
<1>7. relayAsyncEvents(c).code = split.code
  BY <1>5 DEF relayAsyncEvents
<1> SUFFICES split.code = <<code>>
  BY <1>1, <1>4, <1>7
<1>8. /\ PartitionString(str, SP).head = <<code>>
      /\ PartitionString(str, SP).ok <=> Len(words) # 1
  <2>1. PICK sp \in Tokens : sp = SP /\ code # sp
    BY <1>1
  <2>2. CASE Len(words) = 1
    <3>1. PICK t \in Seq(Tokens) : t = <<>>
      BY EmptySequence
    <3>2. PartitionString(<<code>>, sp).head = <<code>> /\ ~PartitionString(<<code>>, sp).ok
      BY <1>6, <2>1, <3>1, HeadRead
    <3>3. str = <<code>>
      BY <1>3, <2>2
    <3> QED BY <2>1, <2>2, <3>2, <3>3
  <2>3. CASE Len(words) # 1
    <3>1. PICK t \in Seq(Tokens) : str = TwoBefore(code, SP, t)
      BY <1>3, <2>3 DEF Texts
    <3>2. /\ PartitionString(TwoBefore(code, sp, t), sp).ok
          /\ PartitionString(TwoBefore(code, sp, t), sp).head = <<code>>
      BY <1>6, <2>1, HeadRead
    <3> QED BY <2>1, <2>3, <3>1, <3>2
  <2> QED BY <2>2, <2>3
<1>9. PICK one \in Texts : one = <<code>>
  BY <1>1, OneTuple DEF Texts
<1>10. /\ ~PartitionString(one, SP).ok /\ ~PartitionString(one, CR).ok
  <2>1. PICK t \in Seq(Tokens) : t = <<>>
    BY EmptySequence
  <2>2. PICK sp \in Tokens, cr \in Tokens : sp = SP /\ cr = CR /\ code # sp /\ code # cr
    BY <1>1 DEF Tokens, Literals
  <2>3. ~PartitionString(<<code>>, sp).ok /\ ~PartitionString(<<code>>, cr).ok
    BY <1>1, <2>1, <2>2, HeadRead
  <2> QED BY <1>9, <2>2, <2>3
<1>11. CASE e.style = "line"
  <2>1. c.data = <<>> /\ c.reply = str
    BY <1>2, <1>3, <1>4, <1>11, EventParts
  <2>2. Len(c.data) = 0
    BY <2>1
  <2>3. split.code = PartitionString(c.reply, SP).head
    BY <1>5, <2>2, SplitCode
  <2> QED BY <1>8, <2>1, <2>3
<1>12. CASE e.style = "body"
  <2>1. Len(c.data) = 1
    BY <1>2, <1>4, <1>12, EventParts
  <2>2. PICK d : d = c.data[1]
    OBVIOUS
  <2>3. d = IF e.body = <<>> THEN str ELSE str \o <<CR, LF>> \o Join(e.body, LF)
    BY <1>2, <1>3, <1>4, <1>12, <2>2, EventParts
  <2>4. split.code = IF PartitionString(d, SP).ok THEN PartitionString(d, SP).head
                     ELSE IF PartitionString(d, CR).ok THEN PartitionString(d, CR).head
                     ELSE d
    BY <1>5, <2>1, <2>2, SplitCode
  <2>5. CASE e.body = <<>>
    <3>1. d = str
      BY <2>3, <2>5
    <3>2. CASE Len(words) = 1
      <4>1. d = one
        BY <1>3, <1>9, <3>1, <3>2
      <4> QED BY <1>9, <1>10, <2>4, <4>1
    <3>3. CASE Len(words) # 1
      BY <1>8, <2>4, <3>1, <3>3
    <3> QED BY <3>2, <3>3
  <2>6. CASE e.body # <<>>
    <3>1. PICK body \in Seq(Texts) : body = e.body
      BY <1>1, InLineIsInChars, WiderSequences DEF IsEvent, Texts, Chars
    <3>2. PICK b \in Texts : b = Join(body, LF)
      <4>1. PICK lf \in Tokens : lf = LF
        BY DEF Tokens, Literals
      <4>2. Join(body, lf) \in Seq(Tokens)
        BY JoinText DEF Texts
      <4> QED BY <4>1, <4>2 DEF Texts
    <3>3. d = str \o <<CR, LF>> \o b
      BY <2>3, <2>6, <3>1, <3>2
    <3>4. CASE Len(words) = 1
      <4>1. str = <<code>>
        BY <1>3, <3>4
      <4>2. d = BehindCode(code, Join(body, LF))
        BY <3>2, <3>3, <4>1 DEF BehindCode
      <4>3. \A i \in DOMAIN body : SP \notin Range(body[i])
        BY <1>2, <1>12, <3>1, <3>4 DEF Readable
      <4>4. /\ ~PartitionString(d, SP).ok /\ PartitionString(d, CR).ok
            /\ PartitionString(d, CR).head = <<code>>
        BY <1>1, <4>2, <4>3, BodyRead
      <4> QED BY <2>4, <4>4
    <3>5. CASE Len(words) # 1
      <4>1. PICK t \in Texts : str = TwoBefore(code, SP, t)
        BY <1>3, <3>5
      <4>2. d = LineBody(TwoBefore(code, SP, t), b)
        BY <3>3, <4>1 DEF LineBody
      <4>3. code \in Tokens /\ code # SP
        BY <1>1
      <4>4. PartitionString(d, SP).ok /\ PartitionString(d, SP).head = <<code>>
        BY <4>2, <4>3, LineHead
      <4> QED BY <2>4, <4>4
    <3> QED BY <3>4, <3>5
  <2> QED BY <2>5, <2>6
<1>13. CASE e.style = "lines"
  <2>1. c.data = [i \in DOMAIN words |-> words[i]]
    BY <1>2, <1>4, <1>13, EventParts
  <2>2. PICK n \in Nat : n = Len(words) /\ n >= 1 /\ DOMAIN words = 1..n
    BY <1>2
  <2>3. c.data = words
    BY <2>1
  <2>4. c.data[1] = one
    BY <1>2, <1>9, <2>3
  <2>5. Len(c.data) = n
    BY <2>2, <2>3
  <2>6. n = 1 \/ n > 1
    BY <2>2
  <2>7. n > 1 => split.code = c.data[1]
    BY <1>5, <2>5, SplitCode
  <2>8. n = 1 => split.code =
                   IF PartitionString(one, SP).ok THEN PartitionString(one, SP).head
                   ELSE IF PartitionString(one, CR).ok THEN PartitionString(one, CR).head
                   ELSE one
    BY <1>5, <2>4, <2>5, SplitCode
  <2> QED BY <1>9, <1>10, <2>4, <2>6, <2>7, <2>8
<1>14. e.style \in {"line", "body", "lines"}
  BY DEF IsEvent
<1> QED BY <1>11, <1>12, <1>13, <1>14

\* An event goes to the listeners of the code that Tor sent.
CodeKept == Intact => \A i \in DOMAIN events : events[i].code = <<session.events[i].code>>

\* Up to a protocol error or a torn line every event has the code Tor sent,
\* whatever line, body or data lines it came in and whatever was answered
\* between the events (relayAsyncEvents, cmd_event.go:269-286).
THEOREM CodesKept ==
  ASSUME RepliesAreNoEvents, EventsReadable
  PROVE  Spec => []CodeKept
<1>1. ASSUME Inv, OwnEvents
      PROVE  CodeKept
  <2> SUFFICES ASSUME Intact, NEW i \in DOMAIN events
               PROVE  events[i].code = <<session.events[i].code>>
    BY DEF CodeKept
  <2>1. DOMAIN events = 1..Len(events) /\ Len(events) \in Nat
    BY <1>1 DEF Inv, SessionOK, IsSequence
  <2>2. i <= emitted /\ events[i] = relayAsyncEvents(Meaning(EventMessage(session.events[i])))
    BY <1>1, <2>1 DEF OwnEvents, OwnEvent
  <2>3. session \in Sessions /\ i \in DOMAIN session.events
    <3>1. session \in Sessions /\ emitted \in 0..Len(session.events)
      BY <1>1 DEF Inv, SessionOK
    <3>2. PICK evs \in Seq(Range(session.events)) : evs = session.events
      BY <3>1, SessionAssumption
    <3>3. DOMAIN evs = 1..Len(evs) /\ Len(evs) \in Nat
      OBVIOUS
    <3>4. PICK m \in Nat, k \in Nat : m = Len(evs) /\ k = emitted /\ k <= m
      BY <3>1, <3>2, <3>3
    <3>5. PICK n \in Nat : n = Len(events) /\ i \in 1..n
      BY <2>1
    <3>6. i <= k
      BY <2>2, <3>4
    <3>7. i \in 1..m
      BY <3>4, <3>5, <3>6
    <3> QED BY <3>1, <3>2, <3>3, <3>4, <3>7
  <2>4. PICK e : e = session.events[i]
    OBVIOUS
  <2>5. IsEvent(e)
    BY <2>3, <2>4, SessionAssumption DEF Range
  <2>6. Readable(e)
    BY <2>3, <2>4 DEF EventsReadable, Readable
  <2>7. relayAsyncEvents(Meaning(EventMessage(e))).code = <<e.code>>
    BY <2>5, <2>6, CodeRead
  <2> QED BY <2>2, <2>4, <2>6, <2>7
<1> QED BY <1>1, Invariance, EventsInOrder, PTL
=============================================================================
