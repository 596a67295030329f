------------------------- MODULE ControlWireProofs -------------------------
(***************************************************************************)
(* ReadResponse frames what Tor writes, for any sessions: any number of    *)
(* calls, events and messages, with any texts and payloads.                *)
(***************************************************************************)
EXTENDS ControlWire, TextProofs, FiniteSetTheorems

----------------------------------------------------------------------------
(* The lines of a message *)

CodeSet ==
  {"250", "251", "451", "500", "510", "511", "512", "513", "514", "515", "550",
   "551", "552", "553", "554", "555", "650", "299"}

LEMMA CodesAre ==
  /\ Codes = CodeSet
  /\ Codes \subseteq Chars /\ "abc" \notin Codes
  /\ {SP, ".", "-", "+", "*", "x", "2", "abc", "OK"} \subseteq Chars
<1>1. Codes = CodeSet
  BY DEF Codes, statusCodeStringMap, CodeSet
<1>2. CodeSet \subseteq Chars /\ {SP, ".", "-", "+", "*", "x", "2", "abc", "OK"} \subseteq Chars
  BY DEF CodeSet, Chars, Tokens, Literals, CR, LF, SP
<1>3. "abc" \notin CodeSet
  BY DEF CodeSet
<1> QED BY <1>1, <1>2, <1>3

WireMessages == Messages(Chars)
Lines == Seq(Seq(Chars))

Separator(entry) == IF entry.lines = <<>> THEN "-" ELSE "+"

\* What is known of the lines of an entry.
LEMMA EntryLinesAre ==
  ASSUME NEW code \in Codes, NEW entry \in Entries(Chars)
  PROVE  /\ EntryLines(code, entry) \in Lines
         /\ EntryLines(code, entry)[1] = <<code, Separator(entry)>> \o entry.text
         /\ entry.lines = <<>> => Len(EntryLines(code, entry)) = 1
         /\ entry.lines # <<>> =>
              /\ Len(EntryLines(code, entry)) = Len(entry.lines) + 2
              /\ EntryLines(code, entry)[Len(entry.lines) + 2] = Dot
              /\ \A j \in 1..Len(entry.lines) :
                   EntryLines(code, entry)[j + 1] = Stuffed(entry.lines[j])
<1>1. entry.text \in Seq(Chars) /\ entry.lines \in Seq(Seq(Chars)) /\ Len(entry.lines) \in Nat
  BY DEF Entries
<1>2. code \in Chars /\ "-" \in Chars /\ "+" \in Chars /\ "." \in Chars
  BY CodesAre
<1>3. CASE entry.lines = <<>>
  <2>1. PICK first \in Seq(Chars) : first = <<code, "-">> \o entry.text
    <3>1. <<code, "-">> \in Seq(Chars)
      BY <1>2
    <3> QED BY <1>1, <3>1, Concat
  <2>2. EntryLines(code, entry) = <<first>>
    BY <1>3, <2>1 DEF EntryLines
  <2> QED BY <1>3, <2>1, <2>2 DEF Separator, Lines
<1>4. CASE entry.lines # <<>>
  <2>1. PICK first \in Seq(Chars) : first = <<code, "+">> \o entry.text
    <3>1. <<code, "+">> \in Seq(Chars)
      BY <1>2
    <3> QED BY <1>1, <3>1, Concat
  <2>2. PICK body : body = [i \in DOMAIN entry.lines |-> Stuffed(entry.lines[i])]
    OBVIOUS
  <2>3. ASSUME NEW i \in 1..Len(entry.lines)
        PROVE  Stuffed(entry.lines[i]) \in Seq(Chars)
    <3>1. PICK plain \in Seq(Chars) : plain = entry.lines[i]
      BY <1>1
    <3>2. <<".">> \o plain \in Seq(Chars)
      BY <1>2
    <3> QED BY <3>1, <3>2 DEF Stuffed
  <2>4. DOMAIN entry.lines = 1..Len(entry.lines)
    BY <1>1
  <2>5. body \in Lines /\ Len(body) = Len(entry.lines)
    BY <1>1, <2>2, <2>3, <2>4 DEF Lines
  <2>6. <<first>> \in Lines /\ <<Dot>> \in Lines /\ <<first>>[1] = first /\ <<Dot>>[1] = Dot
        /\ Len(<<first>>) = 1 /\ Len(<<Dot>>) = 1
    BY <1>2, <2>1 DEF Lines, Dot
  <2>7. /\ <<first>> \o body \in Lines /\ Len(<<first>> \o body) = 1 + Len(body)
        /\ (<<first>> \o body)[1] = first
        /\ \A j \in 1..Len(body) : (<<first>> \o body)[1 + j] = body[j]
    BY <2>5, <2>6, Concat DEF Lines
  <2>8. PICK start \in Lines : start = <<first>> \o body
    BY <2>7
  <2>9. /\ start \o <<Dot>> \in Lines /\ Len(start \o <<Dot>>) = Len(start) + 1
        /\ \A j \in 1..Len(start) : (start \o <<Dot>>)[j] = start[j]
        /\ (start \o <<Dot>>)[Len(start) + 1] = Dot
    <3>1. \A j \in 1..Len(<<Dot>>) : (start \o <<Dot>>)[Len(start) + j] = <<Dot>>[j]
      BY <2>6, Concat DEF Lines
    <3> QED BY <2>6, <3>1, Concat DEF Lines
  <2>10. EntryLines(code, entry) = start \o <<Dot>>
    BY <1>4, <2>1, <2>2, <2>8 DEF EntryLines
  <2>11. \A j \in 1..Len(body) : start[j + 1] = Stuffed(entry.lines[j])
    BY <2>2, <2>4, <2>5, <2>7, <2>8
  <2>12. PICK n \in Nat : n = Len(entry.lines)
    BY <1>1
  <2>13. PICK all \in Lines : all = EntryLines(code, entry)
    BY <2>9, <2>10
  <2>14. /\ Len(start) = n + 1 /\ Len(all) = n + 2 /\ all[n + 2] = Dot /\ all[1] = first
        /\ \A j \in 1..n : all[j + 1] = Stuffed(entry.lines[j])
    <3>1. Len(start) = n + 1
      BY <2>5, <2>7, <2>8, <2>12
    <3>2. Len(all) = n + 2 /\ all[n + 2] = Dot /\ \A j \in 1..(n + 1) : all[j] = start[j]
      BY <2>9, <2>10, <2>13, <3>1, (n + 1) + 1 = n + 2
    <3>3. all[1] = first
      BY <2>7, <2>8, <3>2
    <3>4. \A j \in 1..n : all[j + 1] = Stuffed(entry.lines[j])
      BY <2>5, <2>11, <2>12, <3>2
    <3> QED BY <3>1, <3>2, <3>3, <3>4
  <2> QED BY <1>4, <2>1, <2>12, <2>13, <2>14 DEF Separator
<1> QED BY <1>3, <1>4

Parts(msg) == [i \in DOMAIN msg.data |-> EntryLines(msg.code, msg.data[i])]

\* Where the lines of each entry begin, and where those of the last one end.
Off(msg) == CHOOSE off : Layout(Parts(msg), FlattenSeq(Parts(msg)), off)
DataLines(msg) == Off(msg)[Len(msg.data) + 1]

LastLine(msg) == IF msg.bad = "last" THEN <<msg.code>> ELSE <<msg.code, " ">> \o msg.reply

LEMMA BadLineIs ==
  ASSUME NEW msg \in WireMessages
  PROVE  /\ BadLine(msg) \in Lines
         /\ BadLine(msg) = <<>> \/ Len(BadLine(msg)) = 1
<1>1. msg.code \in Chars /\ {"-", "*", "x", "2", "abc", "299"} \subseteq Chars
  <2>1. msg.code \in Codes /\ "299" \in Codes
    BY DEF WireMessages, Messages, Codes
  <2> QED BY <2>1, CodesAre
<1>2. /\ <<"2">> \in Seq(Chars) /\ <<"abc", "-", "x">> \in Seq(Chars)
      /\ <<msg.code, "*", "x">> \in Seq(Chars) /\ <<"299", "-", "x">> \in Seq(Chars)
  BY <1>1
<1>3. \A a \in Seq(Chars) : << a >> \in Seq(Seq(Chars)) /\ Len(<< a >>) = 1
  OBVIOUS
<1> QED BY <1>2, <1>3 DEF BadLine, Lines

\* The lines of a message are those of its entries, a bad line if there is one,
\* and the last.
LEMMA MessageLinesAre ==
  ASSUME NEW msg \in WireMessages
  PROVE  /\ MessageLines(msg) \in Lines
         /\ Off(msg) \in [1..(Len(msg.data) + 1) -> Nat] /\ Off(msg)[1] = 0
         /\ \A k \in 1..Len(msg.data) :
              LET all == EntryLines(msg.code, msg.data[k])
              IN /\ Off(msg)[k + 1] = Off(msg)[k] + Len(all)
                 /\ \A j \in 1..Len(all) : MessageLines(msg)[Off(msg)[k] + j] = all[j]
                 /\ Off(msg)[k + 1] <= DataLines(msg)
         /\ Len(MessageLines(msg)) = DataLines(msg) + Len(BadLine(msg)) + 1
         /\ BadLine(msg) # <<>> =>
              MessageLines(msg)[DataLines(msg) + 1] = BadLine(msg)[1]
         /\ MessageLines(msg)[Len(MessageLines(msg))] = LastLine(msg)
<1>1. /\ msg.code \in Codes /\ msg.data \in Seq(Entries(Chars)) /\ msg.reply \in Seq(Chars)
      /\ Len(msg.data) \in Nat /\ DOMAIN msg.data = 1..Len(msg.data)
  BY DEF WireMessages, Messages
<1>2. ASSUME NEW k \in 1..Len(msg.data)
      PROVE  EntryLines(msg.code, msg.data[k]) \in Lines
  <2>1. msg.data[k] \in Entries(Chars)
    BY <1>1
  <2> QED BY <1>1, <2>1, EntryLinesAre
<1>3. Parts(msg) \in Seq(Lines) /\ Len(Parts(msg)) = Len(msg.data)
      /\ \A k \in 1..Len(msg.data) : Parts(msg)[k] = EntryLines(msg.code, msg.data[k])
  BY <1>1, <1>2 DEF Parts
<1>4. /\ FlattenSeq(Parts(msg)) \in Lines
      /\ Layout(Parts(msg), FlattenSeq(Parts(msg)), Off(msg))
  <2>1. /\ FlattenSeq(Parts(msg)) \in Lines
        /\ \E off : Layout(Parts(msg), FlattenSeq(Parts(msg)), off)
    BY <1>3, FlattenSeqLayout DEF Lines
  <2>2. Layout(Parts(msg), FlattenSeq(Parts(msg)), Off(msg))
    BY <2>1, Zenon DEF Off
  <2> QED BY <2>1, <2>2
<1>0. PICK off : off = Off(msg)
  OBVIOUS
<1>5. PICK n \in Nat, data \in Lines, bad \in Lines, last \in Seq(Chars) :
        /\ n = Len(msg.data) /\ data = FlattenSeq(Parts(msg))
        /\ bad = BadLine(msg) /\ last = LastLine(msg)
  <2>1. LastLine(msg) \in Seq(Chars)
    <3>1. msg.code \in Chars /\ " " \in Chars
      BY <1>1, CodesAre DEF SP
    <3>2. <<msg.code>> \in Seq(Chars) /\ <<msg.code, " ">> \in Seq(Chars)
      BY <3>1, Tuples
    <3> QED BY <1>1, <3>1, <3>2, Concat DEF LastLine
  <2> QED BY <1>1, <1>4, <2>1, BadLineIs
<1>6. /\ off \in [1..(n + 1) -> Nat] /\ off[1] = 0 /\ Len(data) = off[n + 1]
      /\ \A k \in 1..n : /\ off[k + 1] = off[k] + Len(EntryLines(msg.code, msg.data[k]))
                         /\ \A j \in 1..Len(EntryLines(msg.code, msg.data[k])) :
                              data[off[k] + j] = EntryLines(msg.code, msg.data[k])[j]
  BY <1>0, <1>3, <1>4, <1>5 DEF Layout
<1>7. \A k \in 1..n : off[k + 1] <= off[n + 1]
  <2>1. PICK S : S = {d \in Nat : n - d \in 1..n => off[(n - d) + 1] <= off[n + 1]}
    OBVIOUS
  <2>2. 0 \in S
    BY <1>6, <2>1
  <2>3. ASSUME NEW d \in Nat, d \in S, n - (d + 1) \in 1..n
        PROVE  off[(n - (d + 1)) + 1] <= off[n + 1]
    <3>1. PICK k \in 1..n : k = n - d
      BY <2>3
    <3>2. off[k + 1] <= off[n + 1]
      BY <2>1, <2>3, <3>1
    <3>3. Len(EntryLines(msg.code, msg.data[k])) \in Nat
      BY <1>2, <1>5 DEF Lines
    <3>4. off[k] <= off[k + 1] /\ (n - (d + 1)) + 1 = k
      <4>1. off[k + 1] = off[k] + Len(EntryLines(msg.code, msg.data[k])) /\ off[k] \in Nat
        BY <1>6
      <4> QED BY <3>1, <3>3, <4>1
    <3>5. off[k] \in Nat /\ off[k + 1] \in Nat /\ off[n + 1] \in Nat
      BY <1>6
    <3> QED BY <3>2, <3>4, <3>5
  <2>4. Nat \subseteq S
    <3>1. \A d \in Nat : d \in S => d + 1 \in S
      BY <2>1, <2>3
    <3> QED BY <2>2, <3>1, Induction
  <2>5. ASSUME NEW k \in 1..n
        PROVE  off[k + 1] <= off[n + 1]
    <3>1. n - k \in S /\ n - (n - k) = k
      BY <2>4
    <3> QED BY <2>1, <3>1
  <2> QED BY <2>5
<1>8. MessageLines(msg) = data \o bad \o <<last>>
  BY <1>5 DEF MessageLines, LastLine, Parts
<1>9. PICK start \in Lines : start = data \o bad
  BY Concat DEF Lines
<1>10. /\ Len(start) = off[n + 1] + Len(bad) /\ off[n + 1] \in Nat /\ Len(bad) \in Nat
       /\ \A j \in 1..off[n + 1] : start[j] = data[j]
       /\ bad # <<>> => start[off[n + 1] + 1] = bad[1]
  <2>1. /\ Len(data) \in Nat /\ Len(bad) \in Nat /\ Len(start) = Len(data) + Len(bad)
        /\ \A j \in 1..Len(data) : start[j] = data[j]
        /\ \A j \in 1..Len(bad) : start[Len(data) + j] = bad[j]
    BY <1>9, Concat DEF Lines
  <2>2. bad # <<>> => 1 \in 1..Len(bad)
    BY DEF Lines
  <2> QED BY <1>6, <2>1, <2>2
<1>11. PICK all \in Lines : all = start \o <<last>>
  <2>1. <<last>> \in Seq(Seq(Chars))
    OBVIOUS
  <2> QED BY <2>1, Concat DEF Lines
<1>12. /\ Len(all) = Len(start) + 1 /\ all[Len(start) + 1] = last
       /\ \A j \in 1..Len(start) : all[j] = start[j]
  <2>1. <<last>> \in Seq(Seq(Chars)) /\ Len(<<last>>) = 1 /\ <<last>>[1] = last
    OBVIOUS
  <2>2. /\ Len(all) = Len(start) + 1
        /\ \A j \in 1..Len(start) : all[j] = start[j]
        /\ \A j \in 1..1 : all[Len(start) + j] = <<last>>[j]
    BY <1>11, <2>1, Concat DEF Lines
  <2> QED BY <2>1, <2>2
<1>13. MessageLines(msg) = all
  BY <1>8, <1>9, <1>11
<1>14. ASSUME NEW k \in 1..n, NEW j \in 1..Len(EntryLines(msg.code, msg.data[k]))
       PROVE  all[off[k] + j] = EntryLines(msg.code, msg.data[k])[j]
  <2>0. PICK entry \in Lines : entry = EntryLines(msg.code, msg.data[k])
    BY <1>2, <1>5
  <2>1. Len(entry) \in Nat /\ off[k] \in Nat /\ j \in 1..Len(entry)
    BY <1>6, <2>0 DEF Lines
  <2>2. /\ off[k] + j <= off[k + 1] /\ off[k + 1] <= off[n + 1] /\ off[k + 1] \in Nat
        /\ off[n + 1] \in Nat
    BY <1>6, <1>7, <2>0, <2>1
  <2>3. PICK p \in Nat : p = off[k] + j
    BY <2>1
  <2>4. p \in 1..off[n + 1] /\ p \in 1..Len(start)
    <3>1. PICK d \in Nat, c \in Nat : d = off[n + 1] /\ c = off[k + 1]
      BY <2>2
    <3>2. 1 <= p /\ p <= c /\ c <= d
      BY <2>1, <2>2, <2>3, <3>1
    <3>3. d <= Len(start) /\ Len(start) \in Nat
      BY <1>10, <3>1
    <3> QED BY <3>1, <3>2, <3>3
  <2>5. all[p] = data[p]
    BY <1>10, <1>12, <2>4
  <2> QED BY <1>6, <2>3, <2>5
<1>15. Len(all) = off[n + 1] + Len(bad) + 1 /\ all[Len(all)] = last
       /\ (bad # <<>> => all[off[n + 1] + 1] = bad[1])
  <2>1. bad # <<>> => Len(bad) >= 1
    BY DEF Lines
  <2>2. PICK m \in Nat, b \in Nat : m = off[n + 1] /\ b = Len(bad)
    BY <1>10
  <2>3. Len(all) = m + b + 1 /\ Len(start) = m + b
    BY <1>10, <1>12, <2>2
  <2>4. bad # <<>> => m + 1 \in 1..Len(start)
    BY <2>1, <2>2, <2>3
  <2> QED BY <1>10, <1>12, <2>2, <2>3, <2>4
<1> QED BY <1>0, <1>5, <1>6, <1>7, <1>13, <1>14, <1>15 DEF DataLines

----------------------------------------------------------------------------
(* Where a reading stands within a message *)

Entry(msg, k) == msg.data[k]

\* Line p is the first one of the k-th entry, a bad line, or the last.
EntryAt(msg, k, p) ==
  LET all == MessageLines(msg)
      lines == Entry(msg, k).lines
  IN /\ p = Off(msg)[k] + 1
     /\ all[p] = <<msg.code, Separator(Entry(msg, k))>> \o Entry(msg, k).text
     /\ lines = <<>> => Off(msg)[k + 1] = p /\ p < Len(all)
     /\ lines # <<>> =>
          /\ Off(msg)[k + 1] = p + Len(lines) + 1 /\ p + Len(lines) + 1 < Len(all)
          /\ all[p + Len(lines) + 1] = Dot
          /\ \A j \in 1..Len(lines) : all[p + j] = Stuffed(lines[j])

BadAt(msg, p) ==
  /\ BadLine(msg) # <<>> /\ p = DataLines(msg) + 1 /\ p + 1 = Len(MessageLines(msg))
  /\ MessageLines(msg)[p] = BadLine(msg)[1]

LastAt(msg, p) == p = Len(MessageLines(msg)) /\ MessageLines(msg)[p] = LastLine(msg)

Boundary(msg, p) ==
  (\E k \in 1..(Len(msg.data) + 1) : p = Off(msg)[k] + 1) \/ p = DataLines(msg) + 2

LEMMA EntryAtItsPlace ==
  ASSUME NEW msg \in WireMessages, NEW k \in 1..Len(msg.data)
  PROVE  EntryAt(msg, k, Off(msg)[k] + 1)
<1>1. PICK entry \in Entries(Chars) : entry = Entry(msg, k)
  BY DEF WireMessages, Messages, Entry
<1>2. PICK own \in Lines : own = EntryLines(msg.code, entry)
  BY <1>1, EntryLinesAre DEF WireMessages, Messages
<1>3. /\ own[1] = <<msg.code, Separator(entry)>> \o entry.text
      /\ entry.lines = <<>> => Len(own) = 1
      /\ entry.lines # <<>> =>
           /\ Len(own) = Len(entry.lines) + 2 /\ own[Len(entry.lines) + 2] = Dot
           /\ \A j \in 1..Len(entry.lines) : own[j + 1] = Stuffed(entry.lines[j])
  BY <1>1, <1>2, EntryLinesAre DEF WireMessages, Messages
<1>4. Len(entry.lines) \in Nat
  BY DEF Entries
<1>5. PICK a \in Nat, b \in Nat, d \in Nat, all \in Lines :
        a = Off(msg)[k] /\ b = Off(msg)[k + 1] /\ d = DataLines(msg) /\ all = MessageLines(msg)
  <2>1. Len(msg.data) \in Nat
    BY DEF WireMessages, Messages
  <2>2. k \in 1..(Len(msg.data) + 1) /\ k + 1 \in 1..(Len(msg.data) + 1)
        /\ Len(msg.data) + 1 \in 1..(Len(msg.data) + 1)
    BY <2>1
  <2> QED BY <2>2, MessageLinesAre DEF DataLines
<1>6. PICK l \in Nat, m \in Nat, n \in Nat :
        l = Len(own) /\ m = Len(all) /\ n = Len(entry.lines)
  BY <1>4 DEF Lines
<1>7. /\ b = a + l /\ b <= d /\ d < m
      /\ \A j \in 1..l : all[a + j] = own[j]
  <2>1. PICK bad \in Nat : bad = Len(BadLine(msg))
    BY BadLineIs DEF Lines
  <2>2. m = d + bad + 1
    BY <1>5, <1>6, <2>1, MessageLinesAre
  <2>3. b = a + l /\ b <= d /\ \A j \in 1..l : all[a + j] = own[j]
    BY <1>1, <1>2, <1>5, <1>6, MessageLinesAre DEF Entry
  <2> QED BY <2>2, <2>3
<1>8. CASE entry.lines = <<>>
  <2>1. l = 1
    BY <1>3, <1>6, <1>8
  <2>2. b = a + 1 /\ all[a + 1] = own[1] /\ a + 1 < m
    BY <1>7, <2>1
  <2> QED BY <1>1, <1>3, <1>5, <1>6, <1>8, <2>2 DEF EntryAt
<1>9. CASE entry.lines # <<>>
  <2>1. l = n + 2 /\ own[n + 2] = Dot /\ \A j \in 1..n : own[j + 1] = Stuffed(entry.lines[j])
    BY <1>3, <1>6, <1>9
  <2>2. b = (a + 1) + n + 1 /\ (a + 1) + n + 1 < m
    BY <1>7, <2>1
  <2>3. \A j \in 1..(n + 2) : all[a + j] = own[j]
    BY <1>7, <2>1
  <2>4. all[(a + 1) + n + 1] = Dot /\ all[a + 1] = own[1]
    <3>1. (a + 1) + n + 1 = a + (n + 2) /\ n + 2 \in 1..(n + 2) /\ 1 \in 1..(n + 2)
      OBVIOUS
    <3> QED BY <2>1, <2>3, <3>1
  <2>5. ASSUME NEW j \in 1..n
        PROVE  all[(a + 1) + j] = Stuffed(entry.lines[j])
    <3>1. (a + 1) + j = a + (j + 1) /\ j + 1 \in 1..(n + 2)
      OBVIOUS
    <3> QED BY <2>1, <2>3, <3>1
  <2> QED BY <1>1, <1>3, <1>5, <1>6, <1>9, <2>2, <2>4, <2>5 DEF EntryAt
<1> QED BY <1>8, <1>9

LEMMA AfterTheEntries ==
  ASSUME NEW msg \in WireMessages, NEW p \in 1..Len(MessageLines(msg)),
         p = DataLines(msg) + 1 \/ p = DataLines(msg) + 2
  PROVE  BadAt(msg, p) \/ LastAt(msg, p)
<1>1. PICK n \in Nat, d \in Nat, all \in Lines, bad \in Lines :
        /\ n = Len(msg.data) /\ d = DataLines(msg) /\ all = MessageLines(msg)
        /\ bad = BadLine(msg)
  <2>1. Len(msg.data) \in Nat
    BY DEF WireMessages, Messages
  <2>2. Len(msg.data) + 1 \in 1..(Len(msg.data) + 1)
    BY <2>1
  <2> QED BY <2>1, <2>2, MessageLinesAre, BadLineIs DEF DataLines
<1>2. /\ Len(all) = d + Len(bad) + 1 /\ all[Len(all)] = LastLine(msg)
      /\ bad # <<>> => all[d + 1] = bad[1]
      /\ bad = <<>> \/ Len(bad) = 1
  BY <1>1, MessageLinesAre, BadLineIs
<1>3. PICK b \in Nat, l \in Nat : b = Len(bad) /\ l = Len(all)
  BY DEF Lines
<1>4. l = d + b + 1 /\ p <= l /\ (b = 0 \/ b = 1)
  BY <1>1, <1>2, <1>3
<1>5. CASE p = l
  BY <1>1, <1>2, <1>3, <1>5 DEF LastAt
<1>6. CASE p = d + 1 /\ b = 1
  <2>1. bad # <<>>
    <3>1. Len(<<>>) = 0 /\ Len(bad) # 0
      BY <1>3, <1>6
    <3> QED BY <3>1, Zenon
  <2> QED BY <1>1, <1>2, <1>3, <1>4, <1>6, <2>1 DEF BadAt
<1> QED BY <1>1, <1>4, <1>5, <1>6

----------------------------------------------------------------------------
(* What a line says to the reader *)

LEMMA PairLine ==
  ASSUME NEW a \in Chars, NEW b \in Chars, NEW text \in Seq(Chars)
  PROVE  LET t == <<a, b>> \o text
         IN /\ t \in Seq(Chars) /\ Len(t) >= 2 /\ t[1] = a /\ t[2] = b
            /\ SubSeq(t, 3, Len(t)) = text
<1>1. PICK t : t = <<a, b>> \o text
  OBVIOUS
<1>2. PICK pair \in Seq(Chars) : pair = <<a, b>> /\ Len(pair) = 2 /\ pair[1] = a /\ pair[2] = b
  <2>1. <<a, b>>[1] = a /\ <<a, b>>[2] = b
    OBVIOUS
  <2> QED BY <2>1, Tuples
<1>3. PICK n \in Nat : n = Len(text)
  OBVIOUS
<1>4. /\ t \in Seq(Chars) /\ Len(t) = 2 + n
      /\ \A j \in 1..2 : t[j] = pair[j]
      /\ \A j \in 1..n : t[2 + j] = text[j]
  BY <1>1, <1>2, <1>3, Concat
<1>5. SubSeq(t, 3, 2 + n) = text
  <2>1. PICK u : u = SubSeq(t, 3, 2 + n)
    OBVIOUS
  <2>2. \A i \in 3..(2 + n) : t[i] \in Chars
    <3>1. \A i \in 3..(2 + n) : i \in 1..Len(t)
      BY <1>4
    <3> QED BY <1>4, <3>1
  <2>3. /\ u \in Seq(Chars)
        /\ Len(u) = (IF 3 <= 2 + n THEN (2 + n) - 3 + 1 ELSE 0)
        /\ \A i \in 1..((2 + n) - 3 + 1) : u[i] = t[3 + i - 1]
    BY <2>1, <2>2, SubSeqProperties
  <2>4. Len(u) = n /\ \A i \in 1..n : u[i] = t[2 + i]
    <3>1. (2 + n) - 3 + 1 = n /\ \A i \in 1..n : 3 + i - 1 = 2 + i
      OBVIOUS
    <3>2. Len(u) = n
      BY <2>3, <3>1
    <3> QED BY <2>3, <3>1, <3>2
  <2>5. \A i \in 1..Len(u) : u[i] = text[i]
    BY <1>4, <2>4
  <2> QED BY <1>3, <2>1, <2>3, <2>4, <2>5, SeqEqual
<1> QED BY <1>1, <1>2, <1>4, <1>5

\* What WellFormed asks of the line at hand.
WellFormedLine(t, r) ==
  /\ Len(t) >= 2 /\ t[1] \in Codes /\ (r = None \/ r.code = t[1])
  /\ t[2] \in {SP, "-", "+"}

LEMMA StuffedIsNoDot ==
  ASSUME NEW text \in Seq(Chars)
  PROVE  Stuffed(text) # Dot
<1>1. Dot \in Seq(STRING \cup {"."}) /\ Len(Dot) = 1 /\ Dot[1] = "."
  BY DEF Dot
<1>2. CASE text = <<>>
  <2>1. Stuffed(text) = <<>> /\ Len(<<>>) = 0
    BY <1>2 DEF Stuffed
  <2>2. Len(Dot) # 0
    BY <1>1
  <2> QED BY <2>1, <2>2, Zenon
<1>3. CASE text # <<>> /\ text[1] = "."
  <2>1. PICK n \in Nat \ {0} : n = Len(text)
    BY <1>3
  <2>2. Len(<<".">> \o text) = 1 + n
    BY <2>1, CodesAre
  <2>3. Stuffed(text) = <<".">> \o text
    BY <1>3 DEF Stuffed
  <2> QED BY <1>1, <2>1, <2>2, <2>3
<1>4. CASE text # <<>> /\ text[1] # "."
  BY <1>1, <1>4 DEF Stuffed
<1> QED BY <1>2, <1>3, <1>4

\* Reading takes the stuffing away again.
LEMMA DotBodyOfStuffed ==
  ASSUME NEW lines \in Seq(Seq(Chars)), lines # <<>>, lines[Len(lines)] # <<>>,
         NEW read, read = [i \in 1..Len(lines) |-> Stuffed(lines[i])]
  PROVE  DotBody(read) = Join(lines, LF)
<1>1. PICK n \in Nat \ {0} : n = Len(lines) /\ DOMAIN lines = 1..n
  OBVIOUS
<1>2. PICK plain : plain = [i \in DOMAIN read |->
                              IF read[i] # <<>> /\ read[i][1] = "." THEN Tail(read[i]) ELSE read[i]]
  OBVIOUS
<1>3. ASSUME NEW i \in 1..n
      PROVE  plain[i] = lines[i]
  <2>1. PICK text \in Seq(Chars) : text = lines[i]
    BY <1>1
  <2>2. PICK st : st = Stuffed(text)
    OBVIOUS
  <2>3. plain[i] = IF st # <<>> /\ st[1] = "." THEN Tail(st) ELSE st
    BY <1>1, <1>2, <2>1, <2>2
  <2>4. CASE text # <<>> /\ text[1] = "."
    <3>1. st = <<".">> \o text
      BY <2>2, <2>4 DEF Stuffed
    <3>2. PICK one \in Seq(Chars) : one = <<".">> /\ Len(one) = 1 /\ one[1] = "."
      <4>1. "." \in Chars /\ <<".">>[1] = "."
        BY CodesAre
      <4> QED BY <4>1, Tuples
    <3>3. st = one \o text
      BY <3>1, <3>2
    <3>4. /\ st \in Seq(Chars) /\ Len(st) = 1 + Len(text) /\ st[1] = "." /\ Len(text) \in Nat
          /\ \A j \in 1..Len(text) : st[1 + j] = text[j]
      BY <3>2, <3>3, Concat
    <3>5. st # <<>>
      BY <3>4
    <3>6. Tail(st) = text
      <4>1. /\ Tail(st) \in Seq(Chars) /\ Len(Tail(st)) = Len(text)
            /\ \A j \in 1..Len(text) : Tail(st)[j] = st[j + 1]
        BY <3>4, <3>5, HeadTailProperties
      <4>2. \A j \in 1..Len(text) : Tail(st)[j] = text[j]
        <5>1. \A j \in 1..Len(text) : 1 + j = j + 1
          OBVIOUS
        <5> QED BY <3>4, <4>1, <5>1
      <4> QED BY <4>1, <4>2, SeqEqual
    <3> QED BY <2>1, <2>3, <3>4, <3>5, <3>6
  <2>5. CASE ~(text # <<>> /\ text[1] = ".")
    BY <2>1, <2>2, <2>3, <2>5 DEF Stuffed
  <2> QED BY <2>4, <2>5
<1>4. plain = lines
  <2>1. DOMAIN plain = 1..n /\ plain = [i \in 1..n |-> plain[i]]
    BY <1>1, <1>2
  <2>2. lines = [i \in 1..n |-> lines[i]]
    BY <1>1
  <2>3. [i \in 1..n |-> plain[i]] = [i \in 1..n |-> lines[i]]
    BY <1>3
  <2> QED BY <2>1, <2>2, <2>3, Zenon
<1>5. PICK kept : kept = {i \in DOMAIN plain : plain[i] # <<>>}
  OBVIOUS
<1>6. n \in kept /\ \A j \in kept : j \in Nat /\ j <= n
  BY <1>1, <1>4, <1>5
<1>7. PICK last \in kept : last = CHOOSE i \in kept : \A j \in kept : j <= i
  <2>1. \E i \in kept : \A j \in kept : j <= i
    BY <1>6
  <2>2. (CHOOSE i \in kept : \A j \in kept : j <= i) \in kept
    BY <2>1, Zenon
  <2> QED BY <2>2, Zenon
<1>8. last = n
  <2>1. \E i \in kept : \A j \in kept : j <= i
    BY <1>6
  <2>2. \A j \in kept : j <= last
    BY <1>7, <2>1, Zenon
  <2> QED BY <1>6, <1>7, <2>2
<1>9. DotBody(read) = Join(SubSeq(plain, 1, last), LF)
  <2>1. kept # {}
    BY <1>6
  <2>2. (IF kept = {} THEN 0 ELSE CHOOSE i \in kept : \A j \in kept : j <= i) = last
    BY <1>7, <2>1, Zenon
  <2>3. DotBody(read) =
          Join(SubSeq(plain, 1, IF kept = {} THEN 0
                                ELSE CHOOSE i \in kept : \A j \in kept : j <= i), LF)
    BY <1>2, <1>5 DEF DotBody
  <2> QED BY <2>2, <2>3, Zenon
<1>10. SubSeq(lines, 1, n) = lines
  BY <1>1, SubSeqFull
<1> QED BY <1>4, <1>8, <1>9, <1>10

----------------------------------------------------------------------------
(* The lines that a reading may meet at a boundary *)

LEMMA CodeIsAChar ==
  ASSUME NEW msg \in WireMessages
  PROVE  msg.code \in Codes /\ msg.code \in Chars /\ msg.code # ""
<1>1. msg.code \in Codes
  BY DEF WireMessages, Messages
<1> QED BY <1>1, CodesAre DEF CodeSet

LEMMA EntryLineRead ==
  ASSUME NEW msg \in WireMessages, NEW k \in 1..Len(msg.data), NEW p, EntryAt(msg, k, p)
  PROVE  LET t == MessageLines(msg)[p]
         IN /\ Len(t) >= 2 /\ t[1] = msg.code /\ t[2] = Separator(Entry(msg, k))
            /\ t[2] \in {"-", "+"}
            /\ SubSeq(t, 3, Len(t)) = Entry(msg, k).text
<1>1. Entry(msg, k).text \in Seq(Chars)
  BY DEF WireMessages, Messages, Entries, Entry
<1>2. Separator(Entry(msg, k)) \in {"-", "+"} /\ {"-", "+"} \subseteq Chars
  BY CodesAre DEF Separator
<1>3. msg.code \in Chars
  BY CodeIsAChar
<1>4. MessageLines(msg)[p] = <<msg.code, Separator(Entry(msg, k))>> \o Entry(msg, k).text
  BY DEF EntryAt
<1> QED BY <1>1, <1>2, <1>3, <1>4, PairLine

\* A bad line is well formed only when it changes the code and is the first one.
LEMMA BadLineRead ==
  ASSUME NEW msg \in WireMessages, NEW p, BadAt(msg, p), NEW r,
         WellFormedLine(MessageLines(msg)[p], r)
  PROVE  /\ msg.bad = "changed" /\ msg.code # "299"
         /\ MessageLines(msg)[p][1] = "299" /\ MessageLines(msg)[p][2] = "-"
<1>1. PICK t : t = MessageLines(msg)[p] /\ t = BadLine(msg)[1] /\ BadLine(msg) # <<>>
  BY DEF BadAt
<1>2. Len(t) >= 2 /\ t[1] \in Codes /\ t[2] \in {SP, "-", "+"}
  BY <1>1 DEF WellFormedLine
<1>3. CASE msg.bad = "short"
  <2>1. t = <<"2">>
    BY <1>1, <1>3 DEF BadLine
  <2>2. Len(<<"2">>) = 1
    OBVIOUS
  <2>3. Len(t) = 1 /\ ~(1 >= 2)
    <3>1. ~(1 >= 2)
      OBVIOUS
    <3> QED BY <2>1, <2>2, <3>1, Zenon
  <2> QED BY <1>2, <2>3, Zenon
<1>4. CASE msg.bad = "code"
  <2>1. t = <<"abc", "-", "x">>
    BY <1>1, <1>4 DEF BadLine
  <2> QED BY <1>2, <2>1, CodesAre
<1>5. CASE msg.bad = "separator"
  <2>1. t[2] = "*"
    BY <1>1, <1>5 DEF BadLine
  <2> QED BY <1>2, <2>1 DEF SP
<1>6. CASE msg.bad = "changed"
  <2>1. t = <<"299", "-", "x">>
    BY <1>1, <1>6 DEF BadLine
  <2>2. msg.code # "299"
    BY <1>6 DEF WireMessages, Messages
  <2> QED BY <1>1, <1>6, <2>1, <2>2
<1> QED BY <1>1, <1>3, <1>4, <1>5, <1>6 DEF BadLine

LEMMA LastLineRead ==
  ASSUME NEW msg \in WireMessages, NEW p, LastAt(msg, p), NEW r,
         WellFormedLine(MessageLines(msg)[p], r)
  PROVE  LET t == MessageLines(msg)[p]
         IN t[1] = msg.code /\ t[2] = SP /\ SubSeq(t, 3, Len(t)) = msg.reply
<1>1. PICK t : t = MessageLines(msg)[p] /\ t = LastLine(msg)
  BY DEF LastAt
<1>2. Len(t) >= 2
  BY <1>1 DEF WellFormedLine
<1>3. msg.bad # "last"
  <2>1. msg.bad = "last" => t = <<msg.code>>
    BY <1>1 DEF LastLine
  <2>2. Len(<<msg.code>>) = 1
    OBVIOUS
  <2>3. (msg.bad = "last" => Len(t) = 1) /\ ~(1 >= 2)
    <3>1. ~(1 >= 2)
      OBVIOUS
    <3> QED BY <2>1, <2>2, <3>1, Zenon
  <2> QED BY <1>2, <2>3, Zenon
<1>4. t = <<msg.code, SP>> \o msg.reply
  BY <1>1, <1>3, Zenon DEF LastLine, SP
<1>5. msg.code \in Chars /\ SP \in Chars /\ msg.reply \in Seq(Chars)
  BY CodeIsAChar, CodesAre DEF WireMessages, Messages
<1>6. t[1] = msg.code /\ t[2] = SP /\ SubSeq(t, 3, Len(t)) = msg.reply
  <2>1. PICK a \in Chars, b \in Chars, text \in Seq(Chars) :
          a = msg.code /\ b = SP /\ text = msg.reply
    BY <1>5
  <2>2. t = <<a, b>> \o text
    BY <1>4, <2>1
  <2>3. t[1] = a /\ t[2] = b /\ SubSeq(t, 3, Len(t)) = text
    BY <2>2, PairLine
  <2> QED BY <2>1, <2>3
<1> QED BY <1>1, <1>6, Zenon

----------------------------------------------------------------------------
(* The response that is being read *)

IsResponse(r) == r = [code |-> r.code, data |-> r.data, reply |-> r.reply, from |-> r.from]

\* It has lines of one message, and its code unless a bad line has changed it.
InMessage(msg, m, p, r) ==
  /\ Boundary(msg, p) /\ IsResponse(r)
  /\ r = None \/ r.from = {m}
  /\ r = None \/ r.code = msg.code \/ p = DataLines(msg) + 2

Datum(entry) ==
  IF entry.lines = <<>> THEN entry.text
  ELSE entry.text \o <<CR, LF>> \o Join(entry.lines, LF)

DataAre(msg, k, data) ==
  /\ data \in Seq(Texts) /\ Len(data) = k
  /\ \A j \in 1..k : data[j] = Datum(Entry(msg, j))

\* It has the data of all entries so far, or it will never be returned.
Exact(msg, p, r) ==
  \/ \E k \in 0..Len(msg.data) : p = Off(msg)[k + 1] + 1 /\ DataAre(msg, k, r.data)
  \/ p = DataLines(msg) + 2 /\ r.code = "299" /\ msg.bad = "changed"

LEMMA Meeting ==
  ASSUME NEW msg \in WireMessages, NEW p \in 1..Len(MessageLines(msg)), NEW r,
         Boundary(msg, p)
  PROVE  \/ \E k \in 1..Len(msg.data) :
              EntryAt(msg, k, p) /\ (Exact(msg, p, r) => DataAre(msg, k - 1, r.data))
         \/ BadAt(msg, p)
         \/ /\ LastAt(msg, p)
            /\ Exact(msg, p, r) => \/ DataAre(msg, Len(msg.data), r.data)
                                   \/ r.code = "299" /\ msg.bad = "changed"
<1>1. PICK n \in Nat : n = Len(msg.data)
  BY DEF WireMessages, Messages
<1>2. ASSUME NEW k \in 0..n, p = Off(msg)[k + 1] + 1
      PROVE  \/ k + 1 \in 1..n /\ EntryAt(msg, k + 1, p)
             \/ k = n /\ (BadAt(msg, p) \/ LastAt(msg, p))
  <2>1. CASE k = n
    <3>1. p = DataLines(msg) + 1
      BY <1>1, <1>2, <2>1 DEF DataLines
    <3> QED BY <2>1, <3>1, AfterTheEntries
  <2>2. CASE k # n
    <3>1. k + 1 \in 1..n
      BY <2>2
    <3> QED BY <1>1, <1>2, <3>1, EntryAtItsPlace
  <2> QED BY <2>1, <2>2
<1>3. CASE Exact(msg, p, r)
  <2>1. CASE \E k \in 0..n : p = Off(msg)[k + 1] + 1 /\ DataAre(msg, k, r.data)
    <3>1. PICK k \in 0..n : p = Off(msg)[k + 1] + 1 /\ DataAre(msg, k, r.data)
      BY <2>1
    <3>2. PICK j \in 1..(n + 1) : j = k + 1 /\ k = j - 1
      OBVIOUS
    <3>3. \/ j \in 1..n /\ EntryAt(msg, j, p)
          \/ k = n /\ (BadAt(msg, p) \/ LastAt(msg, p))
      BY <1>2, <3>1, <3>2
    <3>4. DataAre(msg, j - 1, r.data)
      BY <3>1, <3>2
    <3> QED BY <1>1, <3>1, <3>3, <3>4
  <2>2. CASE p = DataLines(msg) + 2 /\ r.code = "299" /\ msg.bad = "changed"
    BY <2>2, AfterTheEntries
  <2> QED BY <1>1, <1>3, <2>1, <2>2 DEF Exact
<1>4. CASE ~Exact(msg, p, r)
  <2>1. CASE \E k \in 1..(n + 1) : p = Off(msg)[k] + 1
    <3>1. PICK k \in 1..(n + 1) : p = Off(msg)[k] + 1
      BY <2>1
    <3>2. PICK j \in 0..n : j + 1 = k
      <4>1. k - 1 \in 0..n /\ (k - 1) + 1 = k
        OBVIOUS
      <4> QED BY <4>1
    <3>3. \/ k \in 1..n /\ EntryAt(msg, k, p)
          \/ BadAt(msg, p) \/ LastAt(msg, p)
      BY <1>2, <3>1, <3>2
    <3> QED BY <1>1, <1>4, <3>3
  <2>2. CASE p = DataLines(msg) + 2
    BY <1>4, <2>2, AfterTheEntries
  <2> QED BY <1>1, <2>1, <2>2 DEF Boundary
<1> QED BY <1>3, <1>4

\* The first line of an entry is not the line after a bad one.
LEMMA EntryIsEarly ==
  ASSUME NEW msg \in WireMessages, NEW k \in 1..Len(msg.data), NEW p \in Nat,
         EntryAt(msg, k, p)
  PROVE  /\ p <= DataLines(msg) /\ DataLines(msg) \in Nat
         /\ Off(msg)[k + 1] \in Nat /\ k + 1 \in 1..(Len(msg.data) + 1)
         /\ Off(msg)[k + 1] + 1 <= Len(MessageLines(msg))
<1>1. PICK n \in Nat : n = Len(msg.data)
  BY DEF WireMessages, Messages
<1>2. k + 1 \in 1..(n + 1) /\ n + 1 \in 1..(n + 1)
  BY <1>1
<1>3. PICK o \in Nat, d \in Nat : o = Off(msg)[k + 1] /\ d = DataLines(msg)
  BY <1>1, <1>2, MessageLinesAre DEF DataLines
<1>4. o <= d
  BY <1>3, MessageLinesAre
<1>5. Len(MessageLines(msg)) \in Nat /\ d + 1 <= Len(MessageLines(msg))
  <2>1. PICK b \in Nat : b = Len(BadLine(msg))
    BY BadLineIs DEF Lines
  <2> QED BY <1>3, <2>1, MessageLinesAre
<1>6. PICK l \in Nat : l = Len(Entry(msg, k).lines)
  BY DEF WireMessages, Messages, Entries, Entry
<1>7. o = p \/ o = p + l + 1
  BY <1>3, <1>6 DEF EntryAt
<1> QED BY <1>1, <1>2, <1>3, <1>4, <1>5, <1>7

LEMMA EntryWellFormed ==
  ASSUME NEW msg \in WireMessages, NEW k \in 1..Len(msg.data), NEW p \in Nat,
         EntryAt(msg, k, p), NEW m, NEW r, InMessage(msg, m, p, r)
  PROVE  WellFormedLine(MessageLines(msg)[p], r)
<1>1. p # DataLines(msg) + 2
  BY EntryIsEarly
<1>2. r = None \/ r.code = msg.code
  BY <1>1 DEF InMessage
<1> QED BY <1>2, EntryLineRead, CodeIsAChar DEF WellFormedLine

\* A response with a code, a datum and the lines of a message added to it.
Grown(r, code, text, m) ==
  [r EXCEPT !.code = code, !.data = Append(@, text), !.from = @ \cup {m}]

LEMMA GrownIs ==
  ASSUME NEW msg, NEW m, NEW p, NEW r, InMessage(msg, m, p, r), NEW code, NEW text
  PROVE  Grown(r, code, text, m) =
           [code |-> code, data |-> Append(r.data, text), reply |-> r.reply, from |-> {m}]
<1>1. r.from \cup {m} = {m}
  <2>1. None.from = {}
    BY DEF None
  <2>2. r.from = {} \/ r.from = {m}
    BY <2>1, Zenon DEF InMessage
  <2> QED BY <2>2
<1>2. PICK a : a = [r EXCEPT !.code = code]
  OBVIOUS
<1>3. PICK data : data = Append(r.data, text)
  OBVIOUS
<1>4. PICK b : b = [a EXCEPT !.data = data]
  OBVIOUS
<1>5. PICK c : c = [b EXCEPT !.from = {m}]
  OBVIOUS
<1>6. a = [code |-> code, data |-> r.data, reply |-> r.reply, from |-> r.from]
  <2>1. PICK w, x, y, z : r = [code |-> w, data |-> x, reply |-> y, from |-> z]
    BY Zenon DEF InMessage, IsResponse
  <2> QED BY <1>2, <2>1
<1>7. b = [code |-> code, data |-> data, reply |-> r.reply, from |-> r.from]
  BY <1>4, <1>6
<1>8. c = [code |-> code, data |-> data, reply |-> r.reply, from |-> {m}]
  BY <1>5, <1>7
<1>9. [r EXCEPT !.code = code, !.data = data, !.from = {m}] = c
  BY <1>2, <1>4, <1>5, Zenon
<1>10. Grown(r, code, text, m) = [r EXCEPT !.code = code, !.data = data, !.from = {m}]
  BY <1>1, <1>3, Zenon DEF Grown
<1> QED BY <1>3, <1>8, <1>9, <1>10, Zenon

LEMMA DatumIsAText ==
  ASSUME NEW msg \in WireMessages, NEW k \in 1..Len(msg.data)
  PROVE  Datum(Entry(msg, k)) \in Texts
<1>1. PICK entry \in Entries(Chars) : entry = Entry(msg, k)
  BY DEF WireMessages, Messages, Entry
<1>2. Chars \subseteq Tokens
  BY DEF Chars
<1>3. entry.text \in Texts /\ entry.lines \in Seq(Texts)
  <2>1. entry.text \in Seq(Chars) /\ entry.lines \in Seq(Seq(Chars))
    BY DEF Entries
  <2>2. Seq(Chars) \subseteq Texts
    BY <1>2 DEF Texts
  <2> QED BY <2>1, <2>2 DEF Texts
<1>4. CR \in Tokens /\ LF \in Tokens
  BY DEF Tokens, Literals
<1>5. Join(entry.lines, LF) \in Texts
  BY <1>3, <1>4, JoinText DEF Texts
<1>6. <<CR, LF>> \in Texts
  BY <1>4 DEF Texts
<1>7. entry.text \o <<CR, LF>> \in Texts
  BY <1>3, <1>6, Concat DEF Texts
<1>8. (entry.text \o <<CR, LF>>) \o Join(entry.lines, LF) \in Texts
  BY <1>5, <1>7, Concat DEF Texts
<1> QED BY <1>1, <1>3, <1>8 DEF Datum

\* An entry that was read brings the reading to the next boundary.
LEMMA EntryStep ==
  ASSUME NEW msg \in WireMessages, NEW k \in 1..Len(msg.data), NEW p \in Nat,
         EntryAt(msg, k, p), NEW m, NEW r, InMessage(msg, m, p, r),
         NEW q, q = Off(msg)[k + 1] + 1,
         NEW s, s = Grown(r, msg.code, Datum(Entry(msg, k)), m)
  PROVE  /\ InMessage(msg, m, q, s)
         /\ DataAre(msg, k - 1, r.data) => Exact(msg, q, s)
<1>1. PICK n \in Nat : n = Len(msg.data)
  BY DEF WireMessages, Messages
<1>2. s = [code |-> msg.code, data |-> Append(r.data, Datum(Entry(msg, k))),
           reply |-> r.reply, from |-> {m}]
  <2>1. PICK code, text : code = msg.code /\ text = Datum(Entry(msg, k))
    OBVIOUS
  <2>2. Grown(r, code, text, m) =
          [code |-> code, data |-> Append(r.data, text), reply |-> r.reply, from |-> {m}]
    BY GrownIs
  <2> QED BY <2>1, <2>2, Zenon
<1>3. Boundary(msg, q)
  <2>1. k + 1 \in 1..(n + 1)
    BY <1>1
  <2> QED BY <1>1, <2>1 DEF Boundary
<1>4. InMessage(msg, m, q, s)
  BY <1>2, <1>3 DEF InMessage, IsResponse
<1>5. ASSUME DataAre(msg, k - 1, r.data)
      PROVE  Exact(msg, q, s)
  <2>1. PICK data \in Seq(Texts) : data = r.data /\ Len(data) = k - 1
    BY <1>5 DEF DataAre
  <2>2. PICK text \in Texts : text = Datum(Entry(msg, k))
    BY DatumIsAText
  <2>3. PICK longer : longer = Append(data, text)
    OBVIOUS
  <2>4. longer \in Seq(Texts) /\ Len(longer) = k /\ longer[k] = text
        /\ \A j \in 1..(k - 1) : longer[j] = data[j]
    <3>1. k \in Nat /\ (k - 1) + 1 = k
      BY <1>1
    <3>2. /\ longer \in Seq(Texts) /\ Len(longer) = Len(data) + 1
          /\ longer[Len(data) + 1] = text
          /\ \A j \in 1..Len(data) : longer[j] = data[j]
      BY <2>3, AppendProperties
    <3> QED BY <2>1, <3>1, <3>2
  <2>5. ASSUME NEW j \in 1..k
        PROVE  longer[j] = Datum(Entry(msg, j))
    <3>1. j = k \/ j \in 1..(k - 1)
      BY <1>1
    <3> QED BY <1>5, <2>1, <2>2, <2>4, <3>1 DEF DataAre
  <2>6. DataAre(msg, k, s.data)
    BY <1>2, <2>1, <2>2, <2>3, <2>4, <2>5 DEF DataAre
  <2>7. k \in 0..Len(msg.data)
    BY <1>1
  <2> QED BY <2>6, <2>7 DEF Exact
<1> QED BY <1>4, <1>5

\* A bad line that is read as if it began a message: the code it brings keeps
\* the response from ever being returned.
LEMMA ChangedStep ==
  ASSUME NEW msg \in WireMessages, NEW p \in Nat, BadAt(msg, p),
         NEW m, NEW r, InMessage(msg, m, p, r), WellFormedLine(MessageLines(msg)[p], r),
         NEW text, NEW s, s = Grown(r, MessageLines(msg)[p][1], text, m)
  PROVE  InMessage(msg, m, p + 1, s) /\ Exact(msg, p + 1, s)
<1>1. msg.bad = "changed" /\ MessageLines(msg)[p][1] = "299"
  BY BadLineRead
<1>2. p + 1 = DataLines(msg) + 2
  <2>1. PICK d \in Nat : d = DataLines(msg)
    <3>1. Len(msg.data) \in Nat
      BY DEF WireMessages, Messages
    <3>2. Len(msg.data) + 1 \in 1..(Len(msg.data) + 1)
      BY <3>1
    <3> QED BY <3>2, MessageLinesAre DEF DataLines
  <2>2. p = d + 1
    BY <2>1 DEF BadAt
  <2> QED BY <2>1, <2>2
<1>3. s = [code |-> "299", data |-> Append(r.data, text), reply |-> r.reply, from |-> {m}]
  <2>1. PICK code : code = MessageLines(msg)[p][1]
    OBVIOUS
  <2>2. Grown(r, code, text, m) =
          [code |-> code, data |-> Append(r.data, text), reply |-> r.reply, from |-> {m}]
    BY GrownIs
  <2> QED BY <1>1, <2>1, <2>2, Zenon
<1>4. IsResponse(s) /\ s.from = {m} /\ s.code = "299"
  BY <1>3 DEF IsResponse
<1>5. Boundary(msg, p + 1)
  BY <1>2 DEF Boundary
<1> QED BY <1>1, <1>2, <1>4, <1>5, Zenon DEF InMessage, Exact

LEMMA MidStep ==
  ASSUME NEW msg \in WireMessages, NEW p \in 1..Len(MessageLines(msg)),
         NEW m, NEW r, InMessage(msg, m, p, r),
         NEW t, t = MessageLines(msg)[p], WellFormedLine(t, r), t[2] = "-",
         NEW s, s = Grown(r, t[1], SubSeq(t, 3, Len(t)), m)
  PROVE  /\ p + 1 <= Len(MessageLines(msg))
         /\ InMessage(msg, m, p + 1, s)
         /\ Exact(msg, p, r) => Exact(msg, p + 1, s)
<1>1. Boundary(msg, p) /\ p \in Nat
  BY DEF InMessage
<1>2. ASSUME NEW k \in 1..Len(msg.data), EntryAt(msg, k, p)
      PROVE  /\ p + 1 <= Len(MessageLines(msg))
             /\ InMessage(msg, m, p + 1, s)
             /\ DataAre(msg, k - 1, r.data) => Exact(msg, p + 1, s)
  <2>1. Separator(Entry(msg, k)) = "-" /\ t[1] = msg.code
        /\ SubSeq(t, 3, Len(t)) = Entry(msg, k).text
    BY <1>2, EntryLineRead
  <2>2. Entry(msg, k).lines = <<>>
    BY <2>1 DEF Separator
  <2>3. Datum(Entry(msg, k)) = SubSeq(t, 3, Len(t))
    BY <2>1, <2>2 DEF Datum
  <2>4. Off(msg)[k + 1] + 1 = p + 1
    BY <1>2, <2>2 DEF EntryAt
  <2>5. s = Grown(r, msg.code, Datum(Entry(msg, k)), m)
    BY <2>1, <2>3
  <2>6. p + 1 <= Len(MessageLines(msg))
    BY <1>1, <1>2, <2>4, EntryIsEarly
  <2> QED BY <1>1, <1>2, <2>4, <2>5, <2>6, EntryStep
<1>3. CASE \E k \in 1..Len(msg.data) :
             EntryAt(msg, k, p) /\ (Exact(msg, p, r) => DataAre(msg, k - 1, r.data))
  BY <1>2, <1>3
<1>4. CASE BadAt(msg, p)
  <2>1. p + 1 = Len(MessageLines(msg))
    BY <1>4 DEF BadAt
  <2>2. InMessage(msg, m, p + 1, s) /\ Exact(msg, p + 1, s)
    BY <1>1, <1>4, ChangedStep
  <2> QED BY <1>1, <2>1, <2>2
<1>5. CASE LastAt(msg, p)
  <2>1. t[2] = SP
    BY <1>5, LastLineRead
  <2> QED BY <2>1 DEF SP
<1> QED BY <1>1, <1>3, <1>4, <1>5, Meeting

\* A line that begins a payload.
LEMMA DotLine ==
  ASSUME NEW msg \in WireMessages, NEW p \in 1..Len(MessageLines(msg)),
         NEW m, NEW r, InMessage(msg, m, p, r),
         NEW t, t = MessageLines(msg)[p], WellFormedLine(t, r), t[2] = "+"
  PROVE  \E k \in 1..Len(msg.data) :
           /\ EntryAt(msg, k, p) /\ Entry(msg, k).lines # <<>>
           /\ t[1] = msg.code /\ SubSeq(t, 3, Len(t)) = Entry(msg, k).text
           /\ Exact(msg, p, r) => DataAre(msg, k - 1, r.data)
<1>1. Boundary(msg, p) /\ p \in Nat
  BY DEF InMessage
<1>2. ~BadAt(msg, p)
  <2>1. BadAt(msg, p) => t[2] = "-"
    BY BadLineRead
  <2> QED BY <2>1
<1>3. ~LastAt(msg, p)
  <2>1. LastAt(msg, p) => t[2] = SP
    BY LastLineRead
  <2> QED BY <2>1 DEF SP
<1>4. PICK k \in 1..Len(msg.data) :
        EntryAt(msg, k, p) /\ (Exact(msg, p, r) => DataAre(msg, k - 1, r.data))
  BY <1>1, <1>2, <1>3, Meeting
<1>5. Separator(Entry(msg, k)) = "+" /\ t[1] = msg.code
      /\ SubSeq(t, 3, Len(t)) = Entry(msg, k).text
  BY <1>4, EntryLineRead
<1>6. Entry(msg, k).lines # <<>>
  BY <1>5 DEF Separator
<1> QED BY <1>4, <1>5, <1>6

\* The payload up to its dot is the entry's.
\* The dot-encoded entry k was read, and s is what r becomes.
PayloadRead(msg, k, p, m, r, read, s, q) ==
  /\ EntryAt(msg, k, p) /\ Entry(msg, k).lines # <<>> /\ InMessage(msg, m, p, r)
  /\ read = [i \in 1..Len(Entry(msg, k).lines) |-> Stuffed(Entry(msg, k).lines[i])]
  /\ s = Grown(r, msg.code, Entry(msg, k).text \o <<CR, LF>> \o DotBody(read), m)
  /\ q = p + Len(Entry(msg, k).lines) + 2

LEMMA DotStep ==
  ASSUME NEW msg \in WireMessages, NEW k \in 1..Len(msg.data), NEW p \in Nat,
         NEW m, NEW r, NEW read, NEW s, NEW q, PayloadRead(msg, k, p, m, r, read, s, q)
  PROVE  /\ q <= Len(MessageLines(msg)) /\ q \in Nat
         /\ InMessage(msg, m, q, s)
         /\ DataAre(msg, k - 1, r.data) => Exact(msg, q, s)
<1> USE DEF PayloadRead
<1>1. PICK entry \in Entries(Chars) : entry = Entry(msg, k)
  BY DEF WireMessages, Messages, Entry
<1>2. entry.lines \in Seq(Seq(Chars)) /\ entry.lines[Len(entry.lines)] # <<>>
  BY <1>1 DEF Entries
<1>3. DotBody(read) = Join(entry.lines, LF)
  BY <1>1, <1>2, DotBodyOfStuffed
<1>4. Datum(entry) = entry.text \o <<CR, LF>> \o DotBody(read)
  BY <1>1, <1>3 DEF Datum
<1>5. s = Grown(r, msg.code, Datum(Entry(msg, k)), m)
  BY <1>1, <1>4
<1>6. PICK l \in Nat : l = Len(entry.lines)
  <2>1. PICK lines \in Seq(Seq(Chars)) : lines = entry.lines
    BY <1>2
  <2>2. Len(lines) \in Nat
    OBVIOUS
  <2> QED BY <2>1, <2>2
<1>7. Off(msg)[k + 1] = p + l + 1
  BY <1>1, <1>6 DEF EntryAt
<1>8. q = Off(msg)[k + 1] + 1 /\ q \in Nat
  BY <1>1, <1>6, <1>7
<1>9. q <= Len(MessageLines(msg))
  BY <1>8, EntryIsEarly
<1>10. InMessage(msg, m, q, s) /\ (DataAre(msg, k - 1, r.data) => Exact(msg, q, s))
  BY <1>5, <1>8, EntryStep
<1> QED BY <1>8, <1>9, <1>10

\* A response as its last line leaves it.
Completed(r, code, reply, m) ==
  [r EXCEPT !.code = code, !.reply = reply, !.from = @ \cup {m}]

LEMMA CompletedIs ==
  ASSUME NEW msg, NEW m, NEW p, NEW r, InMessage(msg, m, p, r), NEW code, NEW reply
  PROVE  Completed(r, code, reply, m) =
           [code |-> code, data |-> r.data, reply |-> reply, from |-> {m}]
<1>1. r.from \cup {m} = {m}
  <2>1. None.from = {}
    BY DEF None
  <2>2. r.from = {} \/ r.from = {m}
    BY <2>1, Zenon DEF InMessage
  <2> QED BY <2>2
<1>2. PICK a : a = [r EXCEPT !.code = code]
  OBVIOUS
<1>3. PICK b : b = [a EXCEPT !.reply = reply]
  OBVIOUS
<1>4. PICK c : c = [b EXCEPT !.from = {m}]
  OBVIOUS
<1>5. a = [code |-> code, data |-> r.data, reply |-> r.reply, from |-> r.from]
  <2>1. PICK w, x, y, z : r = [code |-> w, data |-> x, reply |-> y, from |-> z]
    BY Zenon DEF InMessage, IsResponse
  <2> QED BY <1>2, <2>1
<1>6. b = [code |-> code, data |-> r.data, reply |-> reply, from |-> r.from]
  BY <1>3, <1>5
<1>7. c = [code |-> code, data |-> r.data, reply |-> reply, from |-> {m}]
  BY <1>4, <1>6
<1>8. [r EXCEPT !.code = code, !.reply = reply, !.from = {m}] = c
  BY <1>2, <1>3, <1>4, Zenon
<1>9. Completed(r, code, reply, m) = [r EXCEPT !.code = code, !.reply = reply, !.from = {m}]
  BY <1>1, Zenon DEF Completed
<1> QED BY <1>7, <1>8, <1>9, Zenon

LEMMA LastStep ==
  ASSUME NEW msg \in WireMessages, NEW p \in 1..Len(MessageLines(msg)),
         NEW m, NEW r, InMessage(msg, m, p, r),
         NEW t, t = MessageLines(msg)[p], WellFormedLine(t, r), t[2] = SP,
         NEW s, s = Completed(r, t[1], SubSeq(t, 3, Len(t)), m)
  PROVE  /\ p = Len(MessageLines(msg))
         /\ s.from = {m} /\ s.code = msg.code
         /\ Exact(msg, p, r) =>
              [code |-> s.code, reply |-> s.reply, data |-> s.data] = Meaning(msg)
<1>1. Boundary(msg, p) /\ p \in Nat
  <2>1. Boundary(msg, p)
    BY Zenon DEF InMessage
  <2>2. p \in Nat
    OBVIOUS
  <2> QED BY <2>1, <2>2
<1>2. ~BadAt(msg, p)
  <2>1. BadAt(msg, p) => t[2] = "-"
    BY BadLineRead
  <2> QED BY <2>1, Zenon DEF SP
<1>3. ASSUME NEW k \in 1..Len(msg.data)
      PROVE  ~EntryAt(msg, k, p)
  <2>1. EntryAt(msg, k, p) => t[2] \in {"-", "+"}
    BY EntryLineRead
  <2> QED BY <2>1, Zenon DEF SP
<1>4. /\ LastAt(msg, p)
      /\ Exact(msg, p, r) => \/ DataAre(msg, Len(msg.data), r.data)
                             \/ r.code = "299" /\ msg.bad = "changed"
  BY <1>1, <1>2, <1>3, Meeting
<1>5. t[1] = msg.code /\ SubSeq(t, 3, Len(t)) = msg.reply
  BY <1>4, LastLineRead
<1>6. p = Len(MessageLines(msg))
  BY <1>4 DEF LastAt
<1>7. s = [code |-> msg.code, data |-> r.data, reply |-> msg.reply, from |-> {m}]
  <2>1. PICK code, reply : code = t[1] /\ reply = SubSeq(t, 3, Len(t))
    OBVIOUS
  <2>2. Completed(r, code, reply, m) = [code |-> code, data |-> r.data, reply |-> reply, from |-> {m}]
    BY CompletedIs
  <2> QED BY <1>5, <2>1, <2>2, Zenon
<1>8. ASSUME Exact(msg, p, r)
      PROVE  [code |-> s.code, reply |-> s.reply, data |-> s.data] = Meaning(msg)
  <2>1. ~(r.code = "299" /\ msg.bad = "changed")
    <3>1. msg.bad = "changed" => msg.code # "299"
      BY DEF WireMessages, Messages
    <3>2. r = None \/ r.code = msg.code
      BY <1>5 DEF WellFormedLine
    <3>3. None.code = ""
      BY DEF None
    <3> QED BY <3>1, <3>2, <3>3
  <2>2. DataAre(msg, Len(msg.data), r.data)
    BY <1>4, <1>8, <2>1
  <2>3. PICK n \in Nat : n = Len(msg.data) /\ DOMAIN msg.data = 1..n
    <3>1. msg.data \in Seq(Entries(Chars))
      BY DEF WireMessages, Messages
    <3>2. Len(msg.data) \in Nat /\ DOMAIN msg.data = 1..Len(msg.data)
      BY <3>1
    <3> QED BY <3>2
  <2>4. PICK data \in Seq(Texts) : data = r.data /\ Len(data) = n
        /\ \A j \in 1..n : data[j] = Datum(msg.data[j])
    BY <2>2, <2>3 DEF DataAre, Entry
  <2>5. data = [i \in 1..n |-> Datum(msg.data[i])]
    <3>1. DOMAIN data = 1..n /\ data = [i \in DOMAIN data |-> data[i]]
      BY <2>4
    <3> QED BY <2>4, <3>1
  <2>6. Meaning(msg) = [code |-> msg.code, reply |-> msg.reply, data |-> data]
    <3>1. Meaning(msg) = [code |-> msg.code, reply |-> msg.reply,
                          data |-> [i \in DOMAIN msg.data |-> Datum(msg.data[i])]]
      BY DEF Meaning, Datum
    <3> QED BY <2>3, <2>5, <3>1
  <2>7. s.code = msg.code /\ s.reply = msg.reply /\ s.data = data
    BY <1>7, <2>4
  <2> QED BY <2>6, <2>7
<1> QED BY <1>6, <1>7, <1>8

\* A line that is refused is the last one, or the last but one.
LEMMA ErrorStep ==
  ASSUME NEW msg \in WireMessages, NEW p \in 1..Len(MessageLines(msg)),
         NEW m, NEW r, InMessage(msg, m, p, r),
         ~WellFormedLine(MessageLines(msg)[p], r)
  PROVE  \/ p = Len(MessageLines(msg))
         \/ p + 1 = Len(MessageLines(msg)) /\ InMessage(msg, m, p + 1, None)
<1>1. Boundary(msg, p) /\ p \in Nat
  BY DEF InMessage
<1>2. ASSUME NEW k \in 1..Len(msg.data)
      PROVE  ~EntryAt(msg, k, p)
  BY <1>1, EntryWellFormed
<1>3. CASE LastAt(msg, p)
  BY <1>3 DEF LastAt
<1>4. CASE BadAt(msg, p)
  <2>1. PICK d \in Nat : d = DataLines(msg)
    <3>1. Len(msg.data) \in Nat
      BY DEF WireMessages, Messages
    <3>2. Len(msg.data) + 1 \in 1..(Len(msg.data) + 1)
      BY <3>1
    <3> QED BY <3>2, MessageLinesAre DEF DataLines
  <2>2. p = d + 1 /\ p + 1 = Len(MessageLines(msg))
    BY <1>4, <2>1 DEF BadAt
  <2>3. p + 1 = DataLines(msg) + 2
    BY <2>1, <2>2
  <2>4. IsResponse(None)
    BY DEF IsResponse, None
  <2> QED BY <2>2, <2>3, <2>4 DEF InMessage, Boundary
<1> QED BY <1>1, <1>2, <1>3, <1>4, Meeting

----------------------------------------------------------------------------
(* The lines on the wire *)

Items == [text : Seq(Chars), msg : Nat]
Own(msgs, m) == MessageLines(msgs[m])

\* Every line is line pos[i] of its message.  The lines of a message follow one
\* another, and then those of the next message, until the last one was written.
Placed(str, msgs, end, pos) ==
  /\ pos \in [1..Len(str) -> Nat]
  /\ \A i \in 1..Len(str) :
       /\ str[i].msg \in 1..Len(msgs)
       /\ pos[i] \in 1..Len(Own(msgs, str[i].msg))
       /\ str[i].text = Own(msgs, str[i].msg)[pos[i]]
  /\ \A i, j \in 1..Len(str) :
       i <= j =>
         /\ pos[i] + (j - i) <= Len(Own(msgs, str[i].msg)) =>
              str[j].msg = str[i].msg /\ pos[j] = pos[i] + (j - i)
         /\ pos[i] + (j - i) = Len(Own(msgs, str[i].msg)) + 1 =>
              str[j].msg = str[i].msg + 1 /\ pos[j] = 1
  /\ ~end /\ str # <<>> =>
       /\ str[Len(str)].msg = Len(msgs)
       /\ pos[Len(str)] = Len(Own(msgs, Len(msgs)))

\* Lines that follow one another are of one message until it ends.
LEMMA PlacedFrom ==
  ASSUME NEW str, NEW msgs, NEW end, NEW pos, Placed(str, msgs, end, pos),
         NEW i \in 1..Len(str), NEW j \in 1..Len(str), i <= j
  PROVE  /\ pos[i] + (j - i) <= Len(Own(msgs, str[i].msg)) =>
              str[j].msg = str[i].msg /\ pos[j] = pos[i] + (j - i)
         /\ pos[i] + (j - i) = Len(Own(msgs, str[i].msg)) + 1 =>
              str[j].msg = str[i].msg + 1 /\ pos[j] = 1
BY Zenon DEF Placed

LEMMA OwnLines ==
  ASSUME NEW msgs \in Seq(WireMessages), NEW m \in 1..Len(msgs)
  PROVE  /\ msgs[m] \in WireMessages /\ Own(msgs, m) \in Lines
         /\ Len(Own(msgs, m)) \in Nat \ {0}
<1>1. PICK msg \in WireMessages : msg = msgs[m]
  OBVIOUS
<1>2. PICK d \in Nat, b \in Nat : d = DataLines(msg) /\ b = Len(BadLine(msg))
  <2>1. Len(msg.data) \in Nat
    BY DEF WireMessages, Messages
  <2>2. Len(msg.data) + 1 \in 1..(Len(msg.data) + 1)
    BY <2>1
  <2> QED BY <2>2, MessageLinesAre, BadLineIs DEF DataLines, Lines
<1>3. Len(MessageLines(msg)) = d + b + 1
  BY <1>2, MessageLinesAre
<1>4. Own(msgs, m) = MessageLines(msg)
  BY <1>1 DEF Own
<1>5. MessageLines(msg) \in Lines
  BY MessageLinesAre
<1>6. d + b + 1 \in Nat \ {0}
  OBVIOUS
<1> QED BY <1>1, <1>3, <1>4, <1>5, <1>6, Zenon

\* The lines that are left when n were read.
Left(str, n, rest) ==
  /\ rest \in Seq(Items) /\ Len(rest) = Len(str) - n
  /\ \A i \in 1..Len(rest) : rest[i] = str[n + i]

LEMMA LeftPlaced ==
  ASSUME NEW str \in Seq(Items), NEW msgs, NEW end, NEW pos, Placed(str, msgs, end, pos),
         NEW n \in 1..Len(str), NEW rest, Left(str, n, rest),
         NEW q, q = [i \in 1..Len(rest) |-> pos[n + i]]
  PROVE  Placed(rest, msgs, end, q)
<1>1. PICK l \in Nat, k \in Nat : l = Len(str) /\ k = Len(rest) /\ l = k + n
  BY DEF Left
<1>2. \A i \in 1..k : n + i \in 1..l /\ rest[i] = str[n + i] /\ q[i] = pos[n + i]
  BY <1>1 DEF Left
<1>3. q \in [1..k -> Nat]
  BY <1>1, <1>2 DEF Placed
<1>4. ASSUME NEW i \in 1..k
      PROVE  /\ rest[i].msg \in 1..Len(msgs)
             /\ q[i] \in 1..Len(Own(msgs, rest[i].msg))
             /\ rest[i].text = Own(msgs, rest[i].msg)[q[i]]
  BY <1>1, <1>2 DEF Placed
<1>5. ASSUME NEW i \in 1..k, NEW j \in 1..k, i <= j
      PROVE  /\ q[i] + (j - i) <= Len(Own(msgs, rest[i].msg)) =>
                  rest[j].msg = rest[i].msg /\ q[j] = q[i] + (j - i)
             /\ q[i] + (j - i) = Len(Own(msgs, rest[i].msg)) + 1 =>
                  rest[j].msg = rest[i].msg + 1 /\ q[j] = 1
  <2>1. PICK a \in 1..l, b \in 1..l : a = n + i /\ b = n + j
    BY <1>2
  <2>2. a <= b /\ b - a = j - i
    BY <2>1, <1>5
  <2>3. /\ pos[a] + (b - a) <= Len(Own(msgs, str[a].msg)) =>
             str[b].msg = str[a].msg /\ pos[b] = pos[a] + (b - a)
        /\ pos[a] + (b - a) = Len(Own(msgs, str[a].msg)) + 1 =>
             str[b].msg = str[a].msg + 1 /\ pos[b] = 1
    BY <1>1, <2>2 DEF Placed
  <2>4. rest[i] = str[a] /\ rest[j] = str[b] /\ q[i] = pos[a] /\ q[j] = pos[b]
    BY <1>2, <2>1
  <2> QED BY <2>2, <2>3, <2>4
<1>6. ASSUME ~end, rest # <<>>
      PROVE  /\ rest[k].msg = Len(msgs)
             /\ q[k] = Len(Own(msgs, Len(msgs)))
  <2>1. k # 0
    BY <1>1, <1>6 DEF Left
  <2>2. k \in 1..k /\ n + k = l
    BY <1>1, <2>1
  <2>3. str # <<>>
    <3>1. Len(str) # 0
      BY <1>1, <2>1
    <3> QED BY <3>1, EmptySeq
  <2> QED BY <1>1, <1>2, <1>6, <2>2, <2>3 DEF Placed
<1> QED BY <1>1, <1>3, <1>4, <1>5, <1>6 DEF Placed

\* Where the reading stands after n lines of a message.
LEMMA NextHead ==
  ASSUME NEW str \in Seq(Items), NEW msgs \in Seq(WireMessages), NEW end, NEW pos,
         Placed(str, msgs, end, pos),
         NEW n \in 1..Len(str), NEW rest, Left(str, n, rest),
         NEW q, q = [i \in 1..Len(rest) |-> pos[n + i]]
  PROVE  LET m == str[1].msg
             last == Len(Own(msgs, m))
         IN /\ pos[1] + n <= last =>
                 /\ rest # <<>> => rest[1].msg = m /\ q[1] = pos[1] + n
                 /\ rest = <<>> => end
            /\ pos[1] + n = last + 1 =>
                 /\ rest # <<>> => rest[1].msg = m + 1 /\ q[1] = 1
                 /\ rest = <<>> /\ ~end => m = Len(msgs)
<1>1. PICK l \in Nat \ {0}, k \in Nat : l = Len(str) /\ k = Len(rest) /\ l = k + n
  BY DEF Left
<1>2. 1 \in 1..l /\ n \in 1..l
  BY <1>1
<1>3. PICK m \in 1..Len(msgs) : m = str[1].msg
  BY <1>1, <1>2 DEF Placed
<1>4. PICK p \in Nat, last \in Nat : p = pos[1] /\ last = Len(Own(msgs, m))
  BY <1>1, <1>2, <1>3, OwnLines DEF Placed
<1>5. ASSUME NEW j \in 1..l
      PROVE  /\ p + (j - 1) <= last => str[j].msg = m /\ pos[j] = p + (j - 1)
             /\ p + (j - 1) = last + 1 => str[j].msg = m + 1 /\ pos[j] = 1
  <2>1. 1 \in 1..Len(str) /\ j \in 1..Len(str) /\ 1 <= j
    BY <1>1, <1>2
  <2>2. /\ pos[1] + (j - 1) <= Len(Own(msgs, str[1].msg)) =>
             str[j].msg = str[1].msg /\ pos[j] = pos[1] + (j - 1)
        /\ pos[1] + (j - 1) = Len(Own(msgs, str[1].msg)) + 1 =>
             str[j].msg = str[1].msg + 1 /\ pos[j] = 1
    BY <2>1, PlacedFrom
  <2> QED BY <1>3, <1>4, <2>2, Zenon
<1>6. CASE rest # <<>>
  <2>1. k # 0
    BY <1>1, <1>6 DEF Left
  <2>2. 1 \in 1..k /\ n + 1 \in 1..l /\ (n + 1) - 1 = n
    BY <1>1, <2>1
  <2>3. rest[1] = str[n + 1] /\ q[1] = pos[n + 1]
    BY <1>1, <2>2 DEF Left
  <2> QED BY <1>3, <1>4, <1>5, <1>6, <2>2, <2>3
<1>7. CASE rest = <<>>
  <2>1. n = l /\ str # <<>>
    <3>1. Len(rest) = 0 /\ Len(str) # 0
      <4>1. Len(<<>>) = 0
        OBVIOUS
      <4>2. Len(rest) = 0
        BY <1>7, <4>1, Zenon
      <4> QED BY <1>1, <4>2
    <3>2. str # <<>>
      BY <3>1, EmptySeq
    <3>3. k = 0
      BY <1>1, <3>1
    <3> QED BY <1>1, <3>2, <3>3
  <2>2. ASSUME ~end
        PROVE  str[n].msg = Len(msgs) /\ pos[n] = Len(Own(msgs, Len(msgs)))
    BY <1>1, <2>1, <2>2 DEF Placed
  <2>3. ASSUME ~end, p + (n - 1) <= last
        PROVE  m = Len(msgs) /\ p + (n - 1) = last
    BY <1>2, <1>4, <1>5, <2>2, <2>3
  <2> QED BY <1>3, <1>4, <1>7, <2>3
<1> QED BY <1>6, <1>7

----------------------------------------------------------------------------
(* What holds of the wire *)

IsSequence(s) == \E T : s \in Seq(T)

Singles(resps) == \A i \in 1..Len(resps) : \E m : resps[i].from = {m}

\* What was returned is what was written; what is read comes next.
Framing(str, end, r, msgs, resps, pos) ==
  /\ Len(resps) <= Len(msgs)
  /\ \A i \in 1..Len(resps) : ContentOf(resps[i]) = Meaning(msgs[i])
  /\ str = <<>> /\ ~end => Len(resps) = Len(msgs)
  /\ str # <<>> => /\ str[1].msg = Len(resps) + 1
                   /\ Exact(msgs[str[1].msg], pos[1], r)

Wire(str, end, r, msgs, brk, resps, pos) ==
  /\ msgs \in Seq(WireMessages) /\ str \in Seq(Items)
  /\ IsSequence(resps) /\ Singles(resps)
  /\ Placed(str, msgs, end, pos)
  /\ str = <<>> /\ ~end => r = None
  /\ str # <<>> => InMessage(msgs[str[1].msg], str[1].msg, pos[1], r)
  /\ ~brk => Framing(str, end, r, msgs, resps, pos)

LEMMA SequenceDomain ==
  ASSUME NEW s, IsSequence(s)
  PROVE  Len(s) \in Nat /\ DOMAIN s = 1..Len(s)
BY DEF IsSequence

LEMMA AppendToSequence ==
  ASSUME NEW s, IsSequence(s), NEW e
  PROVE  /\ IsSequence(Append(s, e)) /\ Len(Append(s, e)) = Len(s) + 1
         /\ Append(s, e)[Len(s) + 1] = e
         /\ \A i \in 1..Len(s) : Append(s, e)[i] = s[i]
<1>1. PICK T : s \in Seq(T)
  BY DEF IsSequence
<1>2. PICK U : U = T \cup {e}
  OBVIOUS
<1>3. s \in Seq(U) /\ e \in U
  BY <1>1, <1>2
<1>4. Append(s, e) \in Seq(U)
  BY <1>3, AppendProperties
<1> QED BY <1>3, <1>4, AppendProperties DEF IsSequence

\* The line at hand.
LEMMA Heading ==
  ASSUME NEW str, NEW end, NEW r, NEW msgs, NEW brk, NEW resps, NEW pos,
         Wire(str, end, r, msgs, brk, resps, pos), str # <<>>
  PROVE  LET m == str[1].msg
         IN /\ m \in 1..Len(msgs) /\ msgs[m] \in WireMessages
            /\ Own(msgs, m) = MessageLines(msgs[m])
            /\ pos[1] \in 1..Len(Own(msgs, m)) /\ pos[1] \in Nat
            /\ Len(Own(msgs, m)) \in Nat
            /\ str[1].text = MessageLines(msgs[m])[pos[1]]
            /\ InMessage(msgs[m], m, pos[1], r)
            /\ 1 \in 1..Len(str) /\ Len(str) \in Nat
<1>1. str \in Seq(Items) /\ msgs \in Seq(WireMessages) /\ Placed(str, msgs, end, pos)
      /\ InMessage(msgs[str[1].msg], str[1].msg, pos[1], r)
  BY DEF Wire
<1>2. 1 \in 1..Len(str) /\ Len(str) \in Nat
  BY <1>1, EmptySeq
<1>3. /\ str[1].msg \in 1..Len(msgs)
      /\ pos[1] \in 1..Len(Own(msgs, str[1].msg)) /\ pos[1] \in Nat
      /\ str[1].text = Own(msgs, str[1].msg)[pos[1]]
  BY <1>1, <1>2 DEF Placed
<1>4. msgs[str[1].msg] \in WireMessages /\ Len(Own(msgs, str[1].msg)) \in Nat
  BY <1>1, <1>3, OwnLines
<1> QED BY <1>1, <1>2, <1>3, <1>4 DEF Own

\* n lines of message m were read, from p on, and the reading stays within it.
GoesOn(str, r, msgs, brk, pos, m, p, n, rest, s, brk2) ==
  /\ str # <<>> /\ m = str[1].msg /\ p = pos[1]
  /\ n \in 1..Len(str) /\ Left(str, n, rest) /\ p + n <= Len(Own(msgs, m))
  /\ InMessage(msgs[m], m, p + n, s)
  /\ ~brk2 => ~brk /\ (Exact(msgs[m], p, r) => Exact(msgs[m], p + n, s))

LEMMA ReadingGoesOn ==
  ASSUME NEW str, NEW end, NEW r, NEW msgs, NEW brk, NEW resps, NEW pos,
         Wire(str, end, r, msgs, brk, resps, pos),
         NEW m, NEW p, NEW n, NEW rest, NEW s, NEW brk2,
         GoesOn(str, r, msgs, brk, pos, m, p, n, rest, s, brk2)
  PROVE  \E q : Wire(rest, end, s, msgs, brk2, resps, q)
<1> USE DEF GoesOn
<1>1. PICK q : q = [i \in 1..Len(rest) |-> pos[n + i]]
  OBVIOUS
<1>2. str \in Seq(Items) /\ msgs \in Seq(WireMessages) /\ Placed(str, msgs, end, pos)
  BY DEF Wire
<1>3. Placed(rest, msgs, end, q)
  BY <1>1, <1>2, LeftPlaced
<1>4. /\ rest # <<>> => rest[1].msg = m /\ q[1] = p + n
      /\ rest = <<>> => end
  BY <1>1, <1>2, NextHead
<1>5. rest # <<>> => InMessage(msgs[rest[1].msg], rest[1].msg, q[1], s)
  BY <1>4
<1>6. ASSUME ~brk2
      PROVE  Framing(rest, end, s, msgs, resps, q)
  <2>1. Framing(str, end, r, msgs, resps, pos)
    BY <1>6 DEF Wire
  <2>2. m = Len(resps) + 1 /\ Exact(msgs[m], p + n, s)
    BY <1>6, <2>1 DEF Framing
  <2> QED BY <1>4, <2>1, <2>2 DEF Framing
<1>7. rest \in Seq(Items)
  BY DEF Left
<1>8. IsSequence(resps) /\ Singles(resps)
  BY DEF Wire
<1>9. Wire(rest, end, s, msgs, brk2, resps, q)
  BY <1>2, <1>3, <1>4, <1>5, <1>6, <1>7, <1>8 DEF Wire
<1> QED BY <1>9

LEMMA AtTheBeginning ==
  ASSUME NEW msg \in WireMessages, NEW m
  PROVE  InMessage(msg, m, 1, None) /\ Exact(msg, 1, None)
<1>1. Off(msg)[1] = 0 /\ 0 + 1 = 1
  BY MessageLinesAre
<1>2. Len(msg.data) \in Nat
  BY DEF WireMessages, Messages
<1>3. 0 \in 0..Len(msg.data) /\ 1 \in 1..(Len(msg.data) + 1)
  BY <1>2
<1>4. Boundary(msg, 1)
  BY <1>1, <1>3 DEF Boundary
<1>5. IsResponse(None) /\ None.data = <<>>
  BY DEF IsResponse, None
<1>6. DataAre(msg, 0, None.data)
  BY <1>5 DEF DataAre
<1>7. Exact(msg, 1, None)
  BY <1>1, <1>3, <1>6 DEF Exact
<1> QED BY <1>4, <1>5, <1>7 DEF InMessage

\* The last of n lines of message m, from p on, is the message's.
Ends(str, r, msgs, brk, resps, pos, m, p, n, rest, resps2, brk2) ==
  /\ str # <<>> /\ m = str[1].msg /\ p = pos[1]
  /\ n \in 1..Len(str) /\ Left(str, n, rest) /\ p + n = Len(Own(msgs, m)) + 1
  /\ IsSequence(resps2) /\ Singles(resps2)
  /\ ~brk2 => /\ ~brk /\ Len(resps2) = Len(resps) + 1
              /\ \A i \in 1..Len(resps) : resps2[i] = resps[i]
              /\ Exact(msgs[m], p, r) => ContentOf(resps2[Len(resps) + 1]) = Meaning(msgs[m])

LEMMA MessageEnds ==
  ASSUME NEW str, NEW end, NEW r, NEW msgs, NEW brk, NEW resps, NEW pos,
         Wire(str, end, r, msgs, brk, resps, pos),
         NEW m, NEW p, NEW n, NEW rest, NEW resps2, NEW brk2,
         Ends(str, r, msgs, brk, resps, pos, m, p, n, rest, resps2, brk2)
  PROVE  \E q : Wire(rest, end, None, msgs, brk2, resps2, q)
<1> USE DEF Ends
<1>1. PICK q : q = [i \in 1..Len(rest) |-> pos[n + i]]
  OBVIOUS
<1>2. str \in Seq(Items) /\ msgs \in Seq(WireMessages) /\ Placed(str, msgs, end, pos)
      /\ IsSequence(resps)
  BY DEF Wire
<1>3. Placed(rest, msgs, end, q)
  BY <1>1, <1>2, LeftPlaced
<1>4. /\ rest # <<>> => rest[1].msg = m + 1 /\ q[1] = 1
      /\ rest = <<>> /\ ~end => m = Len(msgs)
  BY <1>1, <1>2, NextHead
<1>5. rest \in Seq(Items) /\ (rest # <<>> => 1 \in 1..Len(rest))
  BY EmptySeq DEF Left
<1>6. rest # <<>> => rest[1].msg \in 1..Len(msgs) /\ msgs[rest[1].msg] \in WireMessages
  <2>1. rest # <<>> => rest[1].msg \in 1..Len(msgs)
    BY <1>3, <1>5 DEF Placed
  <2> QED BY <1>2, <2>1, OwnLines
<1>7. ASSUME NEW msg \in WireMessages, NEW k
      PROVE  InMessage(msg, k, 1, None) /\ Exact(msg, 1, None)
  BY <1>7, AtTheBeginning
<1>8. rest # <<>> => InMessage(msgs[rest[1].msg], rest[1].msg, q[1], None)
  BY <1>4, <1>6, <1>7
<1>9. ASSUME ~brk2
      PROVE  Framing(rest, end, None, msgs, resps2, q)
  <2>1. Framing(str, end, r, msgs, resps, pos)
    BY <1>9 DEF Wire
  <2>2. m = Len(resps) + 1 /\ Exact(msgs[m], p, r)
    BY <2>1 DEF Framing
  <2>3. PICK l \in Nat : l = Len(resps)
    BY <1>2, SequenceDomain
  <2>4. Len(resps2) = l + 1 /\ ContentOf(resps2[l + 1]) = Meaning(msgs[l + 1]) /\ m = l + 1
    BY <1>9, <2>2, <2>3
  <2>5. l + 1 <= Len(msgs)
    <3>1. m \in 1..Len(msgs)
      BY Heading
    <3>2. Len(msgs) \in Nat
      BY <1>2
    <3> QED BY <2>4, <3>1, <3>2
  <2>6. ASSUME NEW i \in 1..(l + 1)
        PROVE  ContentOf(resps2[i]) = Meaning(msgs[i])
    <3>1. i = l + 1 \/ i \in 1..l
      OBVIOUS
    <3>2. i \in 1..l => ContentOf(resps2[i]) = Meaning(msgs[i])
      BY <1>9, <2>1, <2>3 DEF Framing
    <3> QED BY <2>4, <3>1, <3>2
  <2>7. rest # <<>> => Exact(msgs[rest[1].msg], q[1], None)
    BY <1>4, <1>6, <1>7
  <2> QED BY <1>4, <2>4, <2>5, <2>6, <2>7 DEF Framing
<1>10. Wire(rest, end, None, msgs, brk2, resps2, q)
  BY <1>2, <1>3, <1>5, <1>8, <1>9 DEF Wire
<1> QED BY <1>10

\* The a lines of a message are put behind k lines of l messages.
Behind(k, l, a, own, str, msgs, pos, str2, msgs2, q) ==
  /\ k \in Nat /\ l \in Nat /\ a \in Nat \ {0} /\ own \in Lines /\ Len(own) = a
  /\ str \in Seq(Items) /\ Len(str) = k /\ msgs \in Seq(WireMessages) /\ Len(msgs) = l
  /\ Placed(str, msgs, FALSE, pos)
  /\ msgs2 \in Seq(WireMessages) /\ Len(msgs2) = l + 1 /\ MessageLines(msgs2[l + 1]) = own
  /\ \A i \in 1..l : msgs2[i] = msgs[i]
  /\ str2 \in Seq(Items) /\ Len(str2) = k + a
  /\ \A i \in 1..k : str2[i] = str[i]
  /\ \A i \in 1..a : str2[k + i].text = own[i] /\ str2[k + i].msg = l + 1
  /\ q = [i \in 1..(k + a) |-> IF i <= k THEN pos[i] ELSE i - k]

LEMMA PlacedBehind ==
  ASSUME NEW k, NEW l, NEW a, NEW own, NEW str, NEW msgs, NEW pos, NEW str2, NEW msgs2, NEW q,
         Behind(k, l, a, own, str, msgs, pos, str2, msgs2, q)
  PROVE  Placed(str2, msgs2, FALSE, q)
<1> USE DEF Behind
<1>1. ASSUME NEW i \in 1..k
      PROVE  /\ q[i] = pos[i] /\ str[i].msg \in 1..l
             /\ str2[i].msg = str[i].msg
             /\ Own(msgs2, str2[i].msg) = Own(msgs, str[i].msg)
             /\ pos[i] \in 1..Len(Own(msgs, str[i].msg))
             /\ Len(Own(msgs, str[i].msg)) \in Nat
             /\ str[i].text = Own(msgs, str[i].msg)[pos[i]]
  <2>1. PICK x \in 1..l : /\ x = str[i].msg /\ pos[i] \in 1..Len(Own(msgs, x))
                          /\ str[i].text = Own(msgs, x)[pos[i]]
    BY DEF Placed
  <2>2. Own(msgs2, x) = Own(msgs, x) /\ Len(Own(msgs, x)) \in Nat
    BY OwnLines DEF Own
  <2>3. str2[i] = str[i] /\ q[i] = pos[i]
    <3>1. i \in 1..(k + a) /\ i <= k
      OBVIOUS
    <3> QED BY <3>1
  <2> QED BY <2>1, <2>2, <2>3
<1>2. Own(msgs2, l + 1) = own
  BY DEF Own
<1>3. ASSUME NEW i \in 1..(k + a), i > k
       PROVE  /\ q[i] = i - k /\ i - k \in 1..a /\ str2[i].msg = l + 1
              /\ str2[i].text = own[i - k]
  <2>1. PICK j \in 1..a : j = i - k /\ k + j = i
    BY <1>3
  <2> QED BY <1>3, <2>1
<1>4. q \in [1..Len(str2) -> Nat]
  <2>1. \A i \in 1..k : pos[i] \in Nat
    BY DEF Placed
  <2>2. \A i \in 1..(k + a) : (IF i <= k THEN pos[i] ELSE i - k) \in Nat
    BY <2>1
  <2> QED BY <2>2
<1>5. ASSUME NEW i \in 1..(k + a)
       PROVE  /\ str2[i].msg \in 1..Len(msgs2)
              /\ q[i] \in 1..Len(Own(msgs2, str2[i].msg))
              /\ str2[i].text = Own(msgs2, str2[i].msg)[q[i]]
  <2>1. CASE i <= k
    <3>1. i \in 1..k /\ (\A j \in 1..l : j \in 1..(l + 1))
      BY <2>1
    <3> QED BY <1>1, <3>1
  <2>2. CASE i > k
    <3>1. l + 1 \in 1..(l + 1)
      OBVIOUS
    <3>2. PICK j \in 1..a : j = i - k
      BY <1>3, <2>2
    <3>3. q[i] = j /\ str2[i].msg = l + 1 /\ str2[i].text = own[j]
      BY <1>3, <2>2, <3>2
    <3> QED BY <1>2, <3>1, <3>3
  <2> QED BY <2>1, <2>2
<1>6. ASSUME NEW i \in 1..(k + a), NEW j \in 1..(k + a), i <= j
       PROVE  /\ q[i] + (j - i) <= Len(Own(msgs2, str2[i].msg)) =>
                   str2[j].msg = str2[i].msg /\ q[j] = q[i] + (j - i)
              /\ q[i] + (j - i) = Len(Own(msgs2, str2[i].msg)) + 1 =>
                   str2[j].msg = str2[i].msg + 1 /\ q[j] = 1
  <2>1. CASE j <= k
    <3>1. i \in 1..k /\ j \in 1..k
      BY <1>6, <2>1
    <3>2. /\ pos[i] + (j - i) <= Len(Own(msgs, str[i].msg)) =>
               str[j].msg = str[i].msg /\ pos[j] = pos[i] + (j - i)
          /\ pos[i] + (j - i) = Len(Own(msgs, str[i].msg)) + 1 =>
               str[j].msg = str[i].msg + 1 /\ pos[j] = 1
      BY <1>6, <3>1 DEF Placed
    <3> QED BY <1>1, <3>1, <3>2
  <2>2. CASE i > k
    <3>1. q[i] = i - k /\ str2[i].msg = l + 1
      BY <1>3, <2>2
    <3>2. j > k
      BY <1>6, <2>2
    <3>3. q[j] = j - k /\ j - k \in 1..a /\ str2[j].msg = l + 1
      BY <1>3, <3>2
    <3>4. q[i] + (j - i) = j - k /\ ~(j - k = a + 1)
      <4>1. (i - k) + (j - i) = j - k /\ ~(j - k = a + 1)
        BY <3>3
      <4> QED BY <3>1, <4>1
    <3>5. Len(Own(msgs2, str2[i].msg)) = a
      BY <1>2, <3>1
    <3> QED BY <3>1, <3>3, <3>4, <3>5
  <2>3. CASE i <= k /\ j > k
    <3>1. i \in 1..k /\ k \in 1..k /\ i <= k
      BY <2>3
    <3>2. PICK p \in Nat, last \in Nat :
            p = pos[i] /\ last = Len(Own(msgs, str[i].msg))
      <4>1. /\ Len(Own(msgs, str[i].msg)) \in Nat
            /\ pos[i] \in 1..Len(Own(msgs, str[i].msg))
        BY <1>1, <3>1, Zenon
      <4>2. \A n \in Nat : \A x \in 1..n : x \in Nat
        OBVIOUS
      <4>3. pos[i] \in Nat
        BY <4>1, <4>2, Zenon
      <4> QED BY <4>1, <4>3, Zenon
    <3>3. str # <<>>
      <4>1. Len(str) # 0
        BY <3>1
      <4> QED BY <4>1, EmptySeq
    <3>4. str[k].msg = l /\ pos[k] = Len(Own(msgs, l))
      BY <3>3 DEF Placed
    <3>5. p + (k - i) <= last => str[i].msg = l /\ p + (k - i) = last
      <4>1. p + (k - i) <= last => str[k].msg = str[i].msg /\ pos[k] = p + (k - i)
        BY <3>1, <3>2 DEF Placed
      <4> QED BY <3>2, <3>4, <4>1
    <3>6. p + (j - i) > last
      <4>1. PICK x \in Int, y \in Int : x = p + (k - i) /\ y = j - k
        BY <3>2
      <4>2. p + (j - i) = x + y /\ y >= 1
        <5>1. p + (j - i) = (p + (k - i)) + (j - k) /\ j - k >= 1
          BY <2>3, <3>2
        <5> QED BY <4>1, <5>1
      <4>3. x <= last => x = last
        BY <3>5, <4>1, Zenon
      <4>4. x + y > last
        BY <4>2, <4>3
      <4> QED BY <4>2, <4>4
    <3>7. p + (j - i) = last + 1 => j = k + 1 /\ str[i].msg = l
      <4>1. CASE p + (k - i) <= last
        <5>1. p + (j - i) = last + (j - k)
          <6>1. p + (k - i) = last
            BY <3>5, <4>1
          <6>2. p + (j - i) = (p + (k - i)) + (j - k)
            BY <3>2
          <6> QED BY <6>1, <6>2
        <5>2. last + (j - k) = last + 1 => j = k + 1
          BY <3>2
        <5> QED BY <3>5, <4>1, <5>1, <5>2
      <4>2. CASE ~(p + (k - i) <= last)
        <5>1. p + (k - i) >= last + 1
          BY <3>2, <4>2
        <5>2. PICK x \in Int, y \in Int : x = p + (k - i) /\ y = j - k
          BY <3>2
        <5>3. p + (j - i) = x + y /\ y >= 1 /\ x >= last + 1
          <6>1. k \in Int /\ i \in Int /\ j \in Int /\ p \in Int
            OBVIOUS
          <6>2. y >= 1
            BY <2>3, <5>2, <6>1
          <6>3. x >= last + 1
            BY <5>1, <5>2
          <6>4. (p + (k - i)) + (j - k) = p + (j - i)
            BY <6>1
          <6> QED BY <5>2, <6>2, <6>3, <6>4
        <5>4. x + y # last + 1
          BY <3>2, <5>3
        <5> QED BY <5>3, <5>4
      <4> QED BY <4>1, <4>2
    <3>8. /\ q[i] = p /\ last = Len(Own(msgs2, str2[i].msg)) /\ str2[i].msg = str[i].msg
          /\ q[j] = j - k /\ str2[j].msg = l + 1
      BY <1>1, <1>3, <2>3, <3>1, <3>2
    <3>9. j = k + 1 => j - k = 1
      OBVIOUS
    <3>10. q[i] + (j - i) = last + 1 => str2[j].msg = str2[i].msg + 1 /\ q[j] = 1
      BY <3>7, <3>8, <3>9
    <3>11. ~(q[i] + (j - i) <= last)
      <4>1. PICK x \in Int : x = p + (j - i)
        BY <3>2
      <4>2. x > last
        BY <3>6, <4>1
      <4>3. ~(x <= last)
        BY <3>2, <4>2
      <4> QED BY <3>8, <4>1, <4>3
    <3> QED BY <3>8, <3>10, <3>11
  <2> QED BY <2>1, <2>2, <2>3
<1>7. str2[k + a].msg = Len(msgs2) /\ q[k + a] = Len(Own(msgs2, Len(msgs2)))
  <2>1. k + a \in 1..(k + a) /\ k + a > k /\ (k + a) - k = a
    OBVIOUS
  <2> QED BY <1>2, <1>3, <2>1
<1>8. Placed(str2, msgs2, FALSE, q)
  <2>1. PICK z \in Nat : z = Len(str2) /\ z = k + a
    OBVIOUS
  <2>2. /\ str2[Len(str2)].msg = Len(msgs2)
        /\ q[Len(str2)] = Len(Own(msgs2, Len(msgs2)))
    BY <1>7, <2>1
  <2>3. \A i \in 1..Len(str2) :
          /\ str2[i].msg \in 1..Len(msgs2)
          /\ q[i] \in 1..Len(Own(msgs2, str2[i].msg))
          /\ str2[i].text = Own(msgs2, str2[i].msg)[q[i]]
    BY <1>5, <2>1
  <2>4. \A i, j \in 1..Len(str2) :
          i <= j =>
            /\ q[i] + (j - i) <= Len(Own(msgs2, str2[i].msg)) =>
                 str2[j].msg = str2[i].msg /\ q[j] = q[i] + (j - i)
            /\ q[i] + (j - i) = Len(Own(msgs2, str2[i].msg)) + 1 =>
                 str2[j].msg = str2[i].msg + 1 /\ q[j] = 1
    BY <1>6, <2>1
  <2> QED BY <1>4, <2>2, <2>3, <2>4, Zenon DEF Placed
<1> QED BY <1>8

\* What Tor writes goes behind what is unread.
LEMMA Written ==
  ASSUME NEW str, NEW r, NEW msgs, NEW brk, NEW resps, NEW pos,
         Wire(str, FALSE, r, msgs, brk, resps, pos),
         NEW msg \in WireMessages, NEW msgs2, msgs2 = Append(msgs, msg),
         NEW added,
         added = [i \in DOMAIN MessageLines(msg) |->
                    [text |-> MessageLines(msg)[i], msg |-> Len(msgs) + 1]],
         NEW str2, str2 = str \o added
  PROVE  \E q : Wire(str2, FALSE, r, msgs2, brk, resps, q)
<1>1. str \in Seq(Items) /\ msgs \in Seq(WireMessages) /\ Placed(str, msgs, FALSE, pos)
      /\ IsSequence(resps) /\ Singles(resps)
  BY DEF Wire
<1>2. PICK k \in Nat, l \in Nat : k = Len(str) /\ l = Len(msgs)
  BY <1>1
<1>3. /\ msgs2 \in Seq(WireMessages) /\ Len(msgs2) = l + 1 /\ msgs2[l + 1] = msg
      /\ \A i \in 1..l : msgs2[i] = msgs[i]
  BY <1>1, <1>2, AppendProperties
<1>4. PICK own \in Lines, a \in Nat \ {0} : own = MessageLines(msg) /\ a = Len(own)
  <2>1. l + 1 \in 1..Len(msgs2)
    BY <1>2, <1>3
  <2>2. Own(msgs2, l + 1) \in Lines /\ Len(Own(msgs2, l + 1)) \in Nat \ {0}
    BY <1>3, <2>1, OwnLines
  <2> QED BY <1>3, <2>2 DEF Own
<1>5. /\ added \in Seq(Items) /\ Len(added) = a
      /\ \A i \in 1..a : added[i].text = own[i] /\ added[i].msg = l + 1
  <2>1. DOMAIN own = 1..a /\ \A i \in 1..a : own[i] \in Seq(Chars)
    BY <1>4 DEF Lines
  <2>2. added = [i \in 1..a |-> [text |-> own[i], msg |-> l + 1]]
    BY <1>2, <1>4, <2>1
  <2>3. \A i \in 1..a : [text |-> own[i], msg |-> l + 1] \in Items
    BY <2>1 DEF Items
  <2>4. added \in Seq(Items) /\ Len(added) = a
    BY <2>2, <2>3
  <2> QED BY <2>2, <2>4
<1>6. /\ str2 \in Seq(Items) /\ Len(str2) = k + a
      /\ \A i \in 1..k : str2[i] = str[i]
      /\ \A i \in 1..a : str2[k + i] = added[i]
  BY <1>1, <1>2, <1>5, Concat
<1>7. PICK q : q = [i \in 1..(k + a) |-> IF i <= k THEN pos[i] ELSE i - k]
  OBVIOUS
<1>8. \A i \in 1..a : str2[k + i].text = own[i] /\ str2[k + i].msg = l + 1
  <2> SUFFICES ASSUME NEW i \in 1..a
               PROVE  str2[k + i].text = own[i] /\ str2[k + i].msg = l + 1
    OBVIOUS
  <2>1. str2[k + i] = added[i] /\ added[i].text = own[i] /\ added[i].msg = l + 1
    BY <1>5, <1>6
  <2> QED BY <2>1
<1>9. Placed(str2, msgs2, FALSE, q)
  <2>1. MessageLines(msgs2[l + 1]) = own
    BY <1>3, <1>4
  <2>2. Behind(k, l, a, own, str, msgs, pos, str2, msgs2, q)
    BY <1>1, <1>2, <1>3, <1>4, <1>6, <1>7, <1>8, <2>1, Zenon DEF Behind
  <2> QED BY <2>2, PlacedBehind
<1>10. str2 # <<>>
  <2>1. Len(str2) # 0
    BY <1>6
  <2> QED BY <1>6, <2>1, EmptySeq
<1>11. CASE str = <<>>
  <2>1. r = None /\ k = 0
    BY <1>2, <1>11 DEF Wire
  <2>2. 1 \in 1..(k + a) /\ ~(1 <= k) /\ 1 - k = 1 /\ k + 1 = 1 /\ 1 \in 1..a
    BY <2>1
  <2>3. str2[1].msg = l + 1 /\ q[1] = 1
    BY <1>7, <1>8, <2>2
  <2>4. InMessage(msgs2[l + 1], l + 1, 1, None) /\ Exact(msgs2[l + 1], 1, None)
    BY <1>3, AtTheBeginning
  <2>5. ASSUME ~brk
        PROVE  Framing(str2, FALSE, r, msgs2, resps, q)
    <3>1. /\ Len(resps) = l
          /\ \A i \in 1..Len(resps) : ContentOf(resps[i]) = Meaning(msgs[i])
      BY <1>2, <1>11, <2>5 DEF Wire, Framing
    <3> QED BY <1>2, <1>3, <1>10, <2>1, <2>3, <2>4, <3>1 DEF Framing
  <2>6. Wire(str2, FALSE, r, msgs2, brk, resps, q)
    BY <1>1, <1>3, <1>6, <1>9, <2>1, <2>3, <2>4, <2>5 DEF Wire
  <2> QED BY <2>6
<1>12. CASE str # <<>>
  <2>1. 1 \in 1..k
    BY <1>1, <1>2, <1>12, EmptySeq
  <2>2. str2[1] = str[1] /\ q[1] = pos[1] /\ str[1].msg \in 1..l
        /\ msgs2[str[1].msg] = msgs[str[1].msg]
    <3>1. str[1].msg \in 1..l
      BY <1>1, <1>2, <2>1 DEF Placed
    <3>2. q[1] = pos[1]
      <4>1. 1 \in 1..(k + a) /\ 1 <= k
        BY <2>1
      <4> QED BY <1>7, <4>1
    <3> QED BY <1>3, <1>6, <2>1, <3>1, <3>2
  <2>3. InMessage(msgs2[str2[1].msg], str2[1].msg, q[1], r)
    BY <1>12, <2>2 DEF Wire
  <2>5. ASSUME ~brk
        PROVE  Framing(str2, FALSE, r, msgs2, resps, q)
    <3>1. Framing(str, FALSE, r, msgs, resps, pos)
      BY <2>5 DEF Wire
    <3>2. PICK n \in Nat : n = Len(resps)
      BY <1>1, SequenceDomain
    <3>3. n <= l /\ \A i \in 1..n : ContentOf(resps[i]) = Meaning(msgs[i])
      BY <1>2, <3>1, <3>2 DEF Framing
    <3>4. \A i \in 1..n : msgs2[i] = msgs[i]
      BY <1>3, <3>3
    <3>5. str2[1].msg = n + 1 /\ Exact(msgs2[str2[1].msg], q[1], r)
      BY <1>12, <2>2, <3>1, <3>2 DEF Framing
    <3> QED BY <1>2, <1>3, <1>10, <3>2, <3>3, <3>4, <3>5 DEF Framing
  <2>6. Wire(str2, FALSE, r, msgs2, brk, resps, q)
    BY <1>1, <1>3, <1>6, <1>9, <1>10, <2>3, <2>5 DEF Wire
  <2> QED BY <2>6
<1> QED BY <1>11, <1>12

\* A connection that ends loses the lines behind some point.
LEMMA CutOff ==
  ASSUME NEW str, NEW end, NEW r, NEW msgs, NEW brk, NEW resps, NEW pos,
         Wire(str, end, r, msgs, brk, resps, pos),
         NEW n \in 0..Len(str), NEW str2, str2 = SubSeq(str, 1, n)
  PROVE  \E q : Wire(str2, TRUE, r, msgs, brk, resps, q)
<1>1. str \in Seq(Items) /\ msgs \in Seq(WireMessages) /\ Placed(str, msgs, end, pos)
      /\ IsSequence(resps) /\ Singles(resps)
  BY DEF Wire
<1>2. /\ str2 \in Seq(Items) /\ Len(str2) = n
      /\ \A i \in 1..n : str2[i] = str[i]
      /\ \A i \in 1..n : i \in 1..Len(str)
  BY <1>1
<1>3. PICK q : q = [i \in 1..n |-> pos[i]]
  OBVIOUS
<1>4. Placed(str2, msgs, TRUE, q)
  <2>1. PICK k \in Nat : k = n /\ k = Len(str2)
    BY <1>1, <1>2
  <2>2. \A i \in 1..k : str2[i] = str[i] /\ q[i] = pos[i] /\ i \in 1..Len(str)
    BY <1>2, <1>3, <2>1
  <2>3. q \in [1..Len(str2) -> Nat]
    <3>1. \A i \in 1..k : pos[i] \in Nat
      BY <1>1, <2>2 DEF Placed
    <3> QED BY <1>3, <2>1, <3>1
  <2>4. \A i \in 1..Len(str2) :
          /\ str2[i].msg \in 1..Len(msgs)
          /\ q[i] \in 1..Len(Own(msgs, str2[i].msg))
          /\ str2[i].text = Own(msgs, str2[i].msg)[q[i]]
    BY <1>1, <2>1, <2>2 DEF Placed
  <2>5. ASSUME NEW i \in 1..Len(str2), NEW j \in 1..Len(str2), i <= j
        PROVE  /\ q[i] + (j - i) <= Len(Own(msgs, str2[i].msg)) =>
                    str2[j].msg = str2[i].msg /\ q[j] = q[i] + (j - i)
               /\ q[i] + (j - i) = Len(Own(msgs, str2[i].msg)) + 1 =>
                    str2[j].msg = str2[i].msg + 1 /\ q[j] = 1
    <3>1. i \in 1..Len(str) /\ j \in 1..Len(str)
      BY <2>1, <2>2
    <3>2. /\ pos[i] + (j - i) <= Len(Own(msgs, str[i].msg)) =>
               str[j].msg = str[i].msg /\ pos[j] = pos[i] + (j - i)
          /\ pos[i] + (j - i) = Len(Own(msgs, str[i].msg)) + 1 =>
               str[j].msg = str[i].msg + 1 /\ pos[j] = 1
      BY <1>1, <2>5, <3>1, Zenon DEF Placed
    <3> QED BY <2>1, <2>2, <3>2
  <2> QED BY <2>3, <2>4, <2>5, Zenon DEF Placed
<1>5. str2 # <<>> => str # <<>> /\ str2[1] = str[1] /\ q[1] = pos[1]
  <2>1. ASSUME str2 # <<>>
        PROVE  1 \in 1..n
    BY <1>2, <2>1, EmptySeq
  <2>2. str2 # <<>> => Len(str) # 0
    BY <1>2, <2>1
  <2>3. str2 # <<>> => str # <<>>
    BY <2>2, EmptySeq
  <2> QED BY <1>2, <1>3, <2>1, <2>3
<1>6. ASSUME ~brk
      PROVE  Framing(str2, TRUE, r, msgs, resps, q)
  BY <1>5, <1>6 DEF Wire, Framing
<1>7. str2 # <<>> => InMessage(msgs[str2[1].msg], str2[1].msg, q[1], r)
  BY <1>5 DEF Wire
<1>8. Wire(str2, TRUE, r, msgs, brk, resps, q)
  BY <1>1, <1>2, <1>4, <1>6, <1>7 DEF Wire
<1> QED BY <1>8

LEMMA Ended ==
  ASSUME NEW str, NEW end, NEW r, NEW msgs, NEW brk, NEW resps, NEW pos,
         Wire(str, end, r, msgs, brk, resps, pos)
  PROVE  \E q : Wire(<<>>, TRUE, None, msgs, brk, resps, q)
<1>1. PICK rest : rest = SubSeq(str, 1, 0)
  OBVIOUS
<1>2. 0 \in 0..Len(str) /\ rest = <<>>
  BY <1>1 DEF Wire
<1>3. PICK q : Wire(rest, TRUE, r, msgs, brk, resps, q)
  BY <1>1, <1>2, CutOff
<1>4. Wire(<<>>, TRUE, None, msgs, brk, resps, q)
  BY <1>2, <1>3 DEF Wire, Framing
<1> QED BY <1>4

----------------------------------------------------------------------------
(* The steps of ReadResponse *)

LEMMA TailIsLeft ==
  ASSUME NEW str \in Seq(Items), str # <<>>
  PROVE  Left(str, 1, Tail(str)) /\ 1 \in 1..Len(str) /\ Head(str) = str[1]
<1>1. Len(str) \in Nat \ {0}
  BY EmptySeq
<1>2. PICK rest \in Seq(Items) : rest = Tail(str)
  BY HeadTailProperties
<1>3. Len(rest) = Len(str) - 1 /\ \A i \in 1..Len(rest) : rest[i] = str[i + 1]
  BY <1>2, HeadTailProperties
<1>4. \A i \in 1..Len(rest) : 1 + i = i + 1
  OBVIOUS
<1>5. Left(str, 1, rest)
  BY <1>3, <1>4 DEF Left
<1> QED BY <1>1, <1>2, <1>5

LEMMA MidRead ==
  ASSUME NEW str, NEW end, NEW r, NEW msgs, NEW brk, NEW resps, NEW pos,
         Wire(str, end, r, msgs, brk, resps, pos), str # <<>>,
         NEW t, t = str[1].text, WellFormedLine(t, r), t[2] = "-",
         NEW s, s = Grown(r, t[1], SubSeq(t, 3, Len(t)), str[1].msg)
  PROVE  \E q : Wire(Tail(str), end, s, msgs, brk, resps, q)
<1>1. PICK m, p, msg, rest : m = str[1].msg /\ p = pos[1] /\ msg = msgs[m] /\ rest = Tail(str)
  OBVIOUS
<1>2. /\ msg \in WireMessages /\ p \in 1..Len(MessageLines(msg))
      /\ InMessage(msg, m, p, r) /\ t = MessageLines(msg)[p]
      /\ Own(msgs, m) = MessageLines(msg)
  BY <1>1, Heading
<1>3. /\ p + 1 <= Len(MessageLines(msg)) /\ InMessage(msg, m, p + 1, s)
      /\ Exact(msg, p, r) => Exact(msg, p + 1, s)
  BY <1>1, <1>2, MidStep
<1>4. Left(str, 1, rest) /\ 1 \in 1..Len(str)
  BY <1>1, TailIsLeft DEF Wire
<1>5. GoesOn(str, r, msgs, brk, pos, m, p, 1, rest, s, brk)
  BY <1>1, <1>2, <1>3, <1>4 DEF GoesOn
<1>6. \E q : Wire(rest, end, s, msgs, brk, resps, q)
  BY <1>5, ReadingGoesOn
<1> QED BY <1>1, <1>6

LEMMA LastRead ==
  ASSUME NEW str, NEW end, NEW r, NEW msgs, NEW brk, NEW resps, NEW pos,
         Wire(str, end, r, msgs, brk, resps, pos), str # <<>>,
         NEW t, t = str[1].text, WellFormedLine(t, r), t[2] = SP,
         NEW s, s = Completed(r, t[1], SubSeq(t, 3, Len(t)), str[1].msg)
  PROVE  \E q : Wire(Tail(str), end, None, msgs, brk, Append(resps, s), q)
<1>1. PICK m, p, msg, rest, resps2 :
        /\ m = str[1].msg /\ p = pos[1] /\ msg = msgs[m] /\ rest = Tail(str)
        /\ resps2 = Append(resps, s)
  OBVIOUS
<1>2. /\ msg \in WireMessages /\ p \in 1..Len(MessageLines(msg))
      /\ InMessage(msg, m, p, r) /\ t = MessageLines(msg)[p]
      /\ Own(msgs, m) = MessageLines(msg)
  BY <1>1, Heading
<1>3. /\ p = Len(MessageLines(msg)) /\ s.from = {m}
      /\ Exact(msg, p, r) => ContentOf(s) = Meaning(msg)
  <2>1. s = Completed(r, t[1], SubSeq(t, 3, Len(t)), m)
    BY <1>1
  <2> QED BY <1>2, <2>1, LastStep DEF ContentOf
<1>4. Left(str, 1, rest) /\ 1 \in 1..Len(str)
  BY <1>1, TailIsLeft DEF Wire
<1>5. IsSequence(resps) /\ Singles(resps)
  BY DEF Wire
<1>6. PICK l \in Nat : l = Len(resps)
  BY <1>5, SequenceDomain
<1>7. /\ IsSequence(resps2) /\ Len(resps2) = l + 1 /\ resps2[l + 1] = s
      /\ \A i \in 1..l : resps2[i] = resps[i]
  BY <1>1, <1>5, <1>6, AppendToSequence
<1>8. Singles(resps2)
  <2>1. ASSUME NEW i \in 1..(l + 1)
        PROVE  \E k : resps2[i].from = {k}
    <3>1. i = l + 1 \/ i \in 1..l
      OBVIOUS
    <3> QED BY <1>3, <1>5, <1>6, <1>7, <3>1 DEF Singles
  <2> QED BY <1>7, <2>1 DEF Singles
<1>9. p + 1 = Len(Own(msgs, m)) + 1
  BY <1>2, <1>3
<1>10. \E q : Wire(rest, end, None, msgs, brk, resps2, q)
  <2>1. ~brk => /\ ~brk /\ Len(resps2) = Len(resps) + 1
                /\ \A i \in 1..Len(resps) : resps2[i] = resps[i]
                /\ Exact(msgs[m], p, r) => ContentOf(resps2[Len(resps) + 1]) = Meaning(msgs[m])
    BY <1>1, <1>3, <1>6, <1>7
  <2>2. Ends(str, r, msgs, brk, resps, pos, m, p, 1, rest, resps2, brk)
    BY <1>1, <1>4, <1>7, <1>8, <1>9, <2>1 DEF Ends
  <2> QED BY <2>2, MessageEnds
<1> QED BY <1>1, <1>10

LEMMA ErrorRead ==
  ASSUME NEW str, NEW end, NEW r, NEW msgs, NEW brk, NEW resps, NEW pos,
         Wire(str, end, r, msgs, brk, resps, pos), str # <<>>,
         ~WellFormedLine(str[1].text, r)
  PROVE  \E q : Wire(Tail(str), end, None, msgs, TRUE, resps, q)
<1>1. PICK m, p, msg, rest : m = str[1].msg /\ p = pos[1] /\ msg = msgs[m] /\ rest = Tail(str)
  OBVIOUS
<1>2. /\ msg \in WireMessages /\ p \in 1..Len(MessageLines(msg)) /\ p \in Nat
      /\ InMessage(msg, m, p, r) /\ str[1].text = MessageLines(msg)[p]
      /\ Own(msgs, m) = MessageLines(msg) /\ Len(MessageLines(msg)) \in Nat
  BY <1>1, Heading
<1>3. Left(str, 1, rest) /\ 1 \in 1..Len(str)
  BY <1>1, TailIsLeft DEF Wire
<1>4. IsSequence(resps) /\ Singles(resps)
  BY DEF Wire
<1>5. CASE p = Len(MessageLines(msg))
  <2>1. p + 1 = Len(Own(msgs, m)) + 1
    BY <1>2, <1>5
  <2>2. Ends(str, r, msgs, brk, resps, pos, m, p, 1, rest, resps, TRUE)
    BY <1>1, <1>3, <1>4, <2>1 DEF Ends
  <2>3. \E q : Wire(rest, end, None, msgs, TRUE, resps, q)
    BY <2>2, MessageEnds
  <2> QED BY <1>1, <2>3
<1>6. CASE p + 1 = Len(MessageLines(msg)) /\ InMessage(msg, m, p + 1, None)
  <2>1. p + 1 <= Len(Own(msgs, m))
    BY <1>2, <1>6
  <2>2. GoesOn(str, r, msgs, brk, pos, m, p, 1, rest, None, TRUE)
    BY <1>1, <1>3, <1>6, <2>1 DEF GoesOn
  <2>3. \E q : Wire(rest, end, None, msgs, TRUE, resps, q)
    BY <2>2, ReadingGoesOn
  <2> QED BY <1>1, <2>3
<1> QED BY <1>2, <1>5, <1>6, ErrorStep

LEMMA EntryLinesType ==
  ASSUME NEW msg \in WireMessages, NEW k \in 1..Len(msg.data)
  PROVE  Entry(msg, k).lines \in Seq(Seq(Chars)) /\ Len(Entry(msg, k).lines) \in Nat
<1>1. PICK lines \in Seq(Seq(Chars)) : lines = Entry(msg, k).lines
  BY DEF WireMessages, Messages, Entries, Entry
<1>2. Len(lines) \in Nat
  OBVIOUS
<1> QED BY <1>1, <1>2

\* Line n is the first dot behind the line at hand.
DotAt(str, n) ==
  /\ n \in 2..Len(str) /\ str[n].text = Dot
  /\ \A i \in 2..(n - 1) : str[i].text # Dot

LEMMA SubSeqIsLeft ==
  ASSUME NEW str \in Seq(Items), NEW n, DotAt(str, n),
         NEW rest, rest = SubSeq(str, n + 1, Len(str))
  PROVE  Left(str, n, rest) /\ n \in 1..Len(str)
<1>1. PICK size \in Nat : size = Len(str)
  OBVIOUS
<1>2. str \in Seq(Items) /\ n \in Nat /\ n >= 2 /\ n <= size
  BY <1>1 DEF DotAt
<1>3. \A i \in (n + 1)..size : str[i] \in Items
  BY <1>1, <1>2
<1>4. /\ rest \in Seq(Items)
      /\ Len(rest) = (IF n + 1 <= size THEN size - (n + 1) + 1 ELSE 0)
      /\ \A i \in 1..(size - (n + 1) + 1) : rest[i] = str[(n + 1) + i - 1]
  BY <1>1, <1>2, <1>3, SubSeqProperties
<1>5. Len(rest) = size - n /\ size - (n + 1) + 1 = size - n
  <2>1. size - (n + 1) + 1 = size - n
    BY <1>2
  <2>2. ~(n + 1 <= size) => size - n = 0
    BY <1>2
  <2> QED BY <1>4, <2>1, <2>2
<1>6. \A i \in 1..(size - n) : rest[i] = str[n + i]
  <2>1. \A i \in 1..(size - n) : (n + 1) + i - 1 = n + i
    BY <1>2
  <2> QED BY <1>4, <1>5, <2>1
<1> QED BY <1>1, <1>2, <1>4, <1>5, <1>6 DEF Left

\* Entry k of message m is dot-encoded, and at hand.
PayloadAt(str, msgs, pos, m, p, msg, k) ==
  /\ str # <<>> /\ m = str[1].msg /\ p = pos[1] /\ msg = msgs[m]
  /\ k \in 1..Len(msg.data) /\ EntryAt(msg, k, p) /\ Entry(msg, k).lines # <<>>

LEMMA Sums ==
  ASSUME NEW p \in Nat, NEW l \in Nat
  PROVE  /\ p + (l + 1) = p + l + 1 /\ (l + 2) - 1 = l + 1
         /\ \A i \in 1..(l + 2) : i - 1 <= l + 1 /\ p + (i - 1) <= p + l + 1 /\ i \in Nat
         /\ \A last \in Nat : p + l + 1 < last =>
              \A i \in 1..(l + 2) : p + (i - 1) <= last
OBVIOUS

\* The first dot behind a line that begins a payload is the payload's.
LEMMA FirstDot ==
  ASSUME NEW str, NEW end, NEW r, NEW msgs, NEW brk, NEW resps, NEW pos,
         Wire(str, end, r, msgs, brk, resps, pos),
         NEW m, NEW p, NEW msg, NEW k, PayloadAt(str, msgs, pos, m, p, msg, k),
         NEW n, DotAt(str, n)
  PROVE  /\ n = Len(Entry(msg, k).lines) + 2
         /\ \A i \in 1..(n - 2) : str[i + 1].text = Stuffed(Entry(msg, k).lines[i])
         /\ \A i \in 1..n : str[i].msg = m
<1> USE DEF PayloadAt
<1>1. /\ msg \in WireMessages /\ p \in 1..Len(MessageLines(msg)) /\ p \in Nat
      /\ Own(msgs, m) = MessageLines(msg) /\ Len(MessageLines(msg)) \in Nat
      /\ 1 \in 1..Len(str) /\ Len(str) \in Nat /\ m \in 1..Len(msgs)
  BY Heading
<1>2. Placed(str, msgs, end, pos)
  BY DEF Wire
<1>3. PICK lines \in Seq(Seq(Chars)) : lines = Entry(msg, k).lines
  BY <1>1, EntryLinesType
<1>4. PICK l \in Nat, size \in Nat, last \in Nat :
        l = Len(lines) /\ size = Len(str) /\ last = Len(MessageLines(msg))
  BY <1>1
<1>5. /\ p + l + 1 < last /\ MessageLines(msg)[p + l + 1] = Dot
      /\ \A j \in 1..l : MessageLines(msg)[p + j] = Stuffed(lines[j])
  BY <1>3, <1>4 DEF EntryAt
<1>6. ASSUME NEW j \in 1..size, p + (j - 1) <= last
      PROVE  str[j].msg = m /\ str[j].text = MessageLines(msg)[p + (j - 1)]
  <2>1. 1 <= j /\ j \in 1..Len(str)
    BY <1>4
  <2>2. str[j].msg = m /\ pos[j] = p + (j - 1)
    <3>1. 1 \in 1..Len(str)
      BY <2>1
    <3>2. pos[1] + (j - 1) <= Len(Own(msgs, str[1].msg)) =>
            str[j].msg = str[1].msg /\ pos[j] = pos[1] + (j - 1)
      BY <1>2, <2>1, <3>1, PlacedFrom
    <3> QED BY <1>1, <1>4, <1>6, <3>2
  <2>3. str[j].text = Own(msgs, str[j].msg)[pos[j]]
    BY <1>2, <2>1 DEF Placed
  <2> QED BY <1>1, <2>2, <2>3
<1>7. ASSUME NEW i \in 1..l, i + 1 \in 1..size
      PROVE  str[i + 1].msg = m /\ str[i + 1].text = Stuffed(lines[i]) /\ str[i + 1].text # Dot
  <2>1. (i + 1) - 1 = i /\ p + i <= last
    <3>1. p + l + 1 < last /\ p \in Nat
      BY <1>1, <1>5
    <3> QED BY <1>4, <3>1
  <2>2. str[i + 1].msg = m /\ str[i + 1].text = MessageLines(msg)[p + i]
    BY <1>6, <1>7, <2>1
  <2>3. Stuffed(lines[i]) # Dot
    <3>1. lines[i] \in Seq(Chars)
      BY <1>3, <1>4
    <3> QED BY <3>1, StuffedIsNoDot
  <2> QED BY <1>5, <2>2, <2>3
<1>8. n \in Nat /\ n >= 2 /\ n <= size /\ str[n].text = Dot
      /\ \A i \in 2..(n - 1) : str[i].text # Dot
  BY <1>4 DEF DotAt
<1>9. n >= l + 2
  <2> SUFFICES ASSUME n < l + 2 PROVE FALSE
    BY <1>4, <1>8
  <2>1. PICK i \in 1..l : i + 1 = n
    <3>1. n - 1 \in 1..l /\ (n - 1) + 1 = n
      BY <1>8
    <3> QED BY <3>1
  <2>2. n \in 1..size
    BY <1>8
  <2> QED BY <1>7, <1>8, <2>1, <2>2
<1>10. n <= l + 2
  <2> SUFFICES ASSUME n > l + 2 PROVE FALSE
    BY <1>4, <1>8
  <2>1. l + 2 \in 1..size /\ (l + 2) - 1 = l + 1 /\ l + 2 \in 2..(n - 1)
    BY <1>8
  <2>2. p + (l + 1) = p + l + 1 /\ p + ((l + 2) - 1) <= last
    <3>1. l + 2 \in 1..(l + 2)
      OBVIOUS
    <3> QED BY <1>1, <1>5, <3>1, Sums
  <2>3. PICK x : x = l + 2
    OBVIOUS
  <2>4. x \in 1..size /\ p + (x - 1) <= last /\ p + (x - 1) = p + l + 1 /\ x \in 2..(n - 1)
    BY <2>1, <2>2, <2>3
  <2>5. str[x].text = MessageLines(msg)[p + l + 1]
    BY <1>6, <2>4
  <2> QED BY <1>5, <1>8, <2>4, <2>5
<1>11. n = l + 2
  <2>1. n \in Int /\ l + 2 \in Int
    BY <1>8
  <2> QED BY <1>9, <1>10, <2>1
<1>12. ASSUME NEW i \in 1..(n - 2)
       PROVE  str[i + 1].text = Stuffed(lines[i])
  <2>1. i \in 1..l /\ i + 1 \in 1..size
    BY <1>8, <1>11
  <2> QED BY <1>7, <2>1
<1>13. ASSUME NEW i \in 1..n
       PROVE  str[i].msg = m
  <2>1. i \in 1..size
    BY <1>8
  <2>2. p + (i - 1) <= last
    <3>1. i \in 1..(l + 2)
      BY <1>11
    <3> QED BY <1>1, <1>5, <3>1, Sums
  <2> QED BY <1>6, <2>1, <2>2
<1> QED BY <1>3, <1>4, <1>11, <1>12, <1>13

LEMMA DotRead ==
  ASSUME NEW str, NEW end, NEW r, NEW msgs, NEW brk, NEW resps, NEW pos,
         Wire(str, end, r, msgs, brk, resps, pos), str # <<>>,
         NEW t, t = str[1].text, WellFormedLine(t, r), t[2] = "+",
         NEW n, DotAt(str, n), NEW read, read = [i \in 1..(n - 2) |-> str[i + 1].text],
         NEW s, s = Grown(r, t[1], SubSeq(t, 3, Len(t)) \o <<CR, LF>> \o DotBody(read),
                          str[1].msg),
         NEW rest, rest = SubSeq(str, n + 1, Len(str))
  PROVE  /\ \A i \in 1..n : str[i].msg = str[1].msg
         /\ \E q : Wire(rest, end, s, msgs, brk, resps, q)
<1>1. PICK m, p, msg : m = str[1].msg /\ p = pos[1] /\ msg = msgs[m]
  OBVIOUS
<1>2. /\ msg \in WireMessages /\ p \in 1..Len(MessageLines(msg)) /\ p \in Nat
      /\ InMessage(msg, m, p, r) /\ t = MessageLines(msg)[p]
      /\ Own(msgs, m) = MessageLines(msg) /\ Len(str) \in Nat
  BY <1>1, Heading
<1>3. PICK k \in 1..Len(msg.data) :
        /\ EntryAt(msg, k, p) /\ Entry(msg, k).lines # <<>>
        /\ t[1] = msg.code /\ SubSeq(t, 3, Len(t)) = Entry(msg, k).text
        /\ Exact(msg, p, r) => DataAre(msg, k - 1, r.data)
  BY <1>2, DotLine
<1>4. /\ n = Len(Entry(msg, k).lines) + 2
      /\ \A i \in 1..(n - 2) : str[i + 1].text = Stuffed(Entry(msg, k).lines[i])
      /\ \A i \in 1..n : str[i].msg = m
  <2>1. PayloadAt(str, msgs, pos, m, p, msg, k)
    BY <1>1, <1>3 DEF PayloadAt
  <2> QED BY <2>1, FirstDot
<1>5. PICK l \in Nat : l = Len(Entry(msg, k).lines) /\ n = l + 2 /\ n - 2 = l
  <2>3. PICK l \in Nat : l = Len(Entry(msg, k).lines)
    BY <1>2, EntryLinesType
  <2>4. n = l + 2 /\ (l + 2) - 2 = l
    BY <1>4, <2>3
  <2> QED BY <2>3, <2>4
<1>6. read = [i \in 1..Len(Entry(msg, k).lines) |-> Stuffed(Entry(msg, k).lines[i])]
  BY <1>4, <1>5
<1>7. s = Grown(r, msg.code, Entry(msg, k).text \o <<CR, LF>> \o DotBody(read), m)
  BY <1>1, <1>3
<1>8. PICK u : u = p + Len(Entry(msg, k).lines) + 2 /\ u = p + n
  <2>1. p + (l + 2) = p + l + 2
    BY <1>2
  <2> QED BY <1>5, <2>1
<1>9. /\ u <= Len(MessageLines(msg)) /\ InMessage(msg, m, u, s)
      /\ DataAre(msg, k - 1, r.data) => Exact(msg, u, s)
  <2>1. PayloadRead(msg, k, p, m, r, read, s, u)
    BY <1>2, <1>3, <1>6, <1>7, <1>8, Zenon DEF PayloadRead
  <2> QED BY <1>2, <2>1, DotStep
<1>10. Left(str, n, rest) /\ n \in 1..Len(str)
  BY SubSeqIsLeft DEF Wire
<1>11. GoesOn(str, r, msgs, brk, pos, m, p, n, rest, s, brk)
  BY <1>1, <1>2, <1>3, <1>8, <1>9, <1>10 DEF GoesOn
<1>12. \E q : Wire(rest, end, s, msgs, brk, resps, q)
  BY <1>11, ReadingGoesOn
<1> QED BY <1>1, <1>4, <1>12

----------------------------------------------------------------------------
(* What Tor writes are messages *)

LEMMA InLineIsInChars ==
  /\ InLine \subseteq Chars /\ STRING \subseteq Tokens /\ Chars \subseteq Tokens
  /\ {"=", "OK", SP} \subseteq Chars /\ {StatusOk, StatusAsyncEvent} \subseteq Codes
BY CodesAre DEF InLine, Chars, Tokens, Literals, CodeSet, StatusOk, StatusAsyncEvent, SP, CR, LF

LEMMA WiderSequence ==
  ASSUME NEW S, NEW T, S \subseteq T, NEW seq \in Seq(S)
  PROVE  seq \in Seq(T)
<1>1. \A i \in 1..Len(seq) : seq[i] \in T
  OBVIOUS
<1> QED BY <1>1

LEMMA WiderSequences ==
  ASSUME NEW S, NEW T, S \subseteq T
  PROVE  Seq(S) \subseteq Seq(T) /\ Seq(Seq(S)) \subseteq Seq(Seq(T))
<1>1. Seq(S) \subseteq Seq(T)
  BY WiderSequence
<1> QED BY <1>1, WiderSequence

LEMMA SomeMessage ==
  ASSUME NEW code \in Codes, code # "299", NEW data \in Seq(Entries(Chars)),
         NEW reply \in Seq(Chars), NEW bad \in BadLines
  PROVE  [code |-> code, data |-> data, reply |-> reply, bad |-> bad] \in WireMessages
BY DEF WireMessages, Messages

LEMMA WiderMessages == Messages(InLine) \subseteq WireMessages
<1>1. /\ Seq(InLine) \subseteq Seq(Chars) /\ Seq(Seq(InLine)) \subseteq Seq(Seq(Chars))
  BY InLineIsInChars, WiderSequences
<1>2. Entries(InLine) \subseteq Entries(Chars)
  BY <1>1 DEF Entries
<1>3. Seq(Entries(InLine)) \subseteq Seq(Entries(Chars))
  BY <1>2, WiderSequences
<1> QED BY <1>1, <1>3 DEF WireMessages, Messages

\* The words of an event, each of which may be a line of its own.
LEMMA EventWords ==
  ASSUME NEW e, IsEvent(e)
  PROVE  << <<e.code>> >> \o e.words
           \o [i \in DOMAIN e.attrs |-> <<e.attrs[i].key, "=">> \o e.attrs[i].val]
           \in Seq(Seq(Chars))
<1>1. PICK code \in Chars : code = e.code
  BY InLineIsInChars DEF IsEvent
<1>2. PICK first \in Seq(Seq(Chars)) : first = << <<e.code>> >>
  <2>1. PICK one \in Seq(Chars) : one = <<code>>
    <3>1. <<code>> \in Seq(Chars)
      OBVIOUS
    <3> QED BY <3>1, Zenon
  <2>2. <<one>> \in Seq(Seq(Chars))
    OBVIOUS
  <2> QED BY <1>1, <2>1, <2>2, Zenon
<1>3. PICK words \in Seq(Seq(Chars)) : words = e.words
  BY InLineIsInChars, WiderSequences DEF IsEvent
<1>4. PICK attrs \in Seq([key : InLine, val : Seq(InLine)]) : attrs = e.attrs
  BY DEF IsEvent
<1>5. PICK others : others = [i \in DOMAIN attrs |-> <<attrs[i].key, "=">> \o attrs[i].val]
  OBVIOUS
<1>6. ASSUME NEW i \in 1..Len(attrs)
      PROVE  <<attrs[i].key, "=">> \o attrs[i].val \in Seq(Chars)
  <2>1. PICK key \in Chars, val \in Seq(Chars) : key = attrs[i].key /\ val = attrs[i].val
    <3>1. attrs[i].key \in InLine /\ attrs[i].val \in Seq(InLine)
      <4>1. attrs[i] \in [key : InLine, val : Seq(InLine)]
        <5>1. PICK T : T = [key : InLine, val : Seq(InLine)]
          OBVIOUS
        <5>2. attrs \in Seq(T)
          BY <5>1
        <5>3. attrs[i] \in T
          BY <5>2
        <5> QED BY <5>1, <5>3
      <4> QED BY <4>1
    <3> QED BY <3>1, InLineIsInChars, WiderSequences
  <2>2. <<key, "=">> \in Seq(Chars)
    BY InLineIsInChars
  <2> QED BY <2>1, <2>2, Concat
<1>7. others \in Seq(Seq(Chars))
  <2>1. DOMAIN attrs = 1..Len(attrs) /\ Len(attrs) \in Nat
    BY Tuples
  <2> QED BY <1>5, <1>6, <2>1
<1>8. first \o words \in Seq(Seq(Chars))
  BY Concat
<1>9. (first \o words) \o others \in Seq(Seq(Chars))
  BY <1>7, <1>8, Concat
<1> QED BY <1>2, <1>3, <1>4, <1>5, <1>9

LEMMA EventMessageIsMessage ==
  ASSUME NEW e, IsEvent(e)
  PROVE  EventMessage(e) \in WireMessages
<1>1. PICK words \in Seq(Seq(Chars)) :
        words = << <<e.code>> >> \o e.words
           \o [i \in DOMAIN e.attrs |-> <<e.attrs[i].key, "=">> \o e.attrs[i].val]
  BY EventWords
<1>2. Words(words) \in Seq(Chars)
  BY InLineIsInChars, JoinText DEF Words
<1>3. PICK body \in Seq(Seq(Chars)) : body = e.body /\ (body = <<>> \/ body[Len(body)] # <<>>)
  BY InLineIsInChars, WiderSequences DEF IsEvent
<1>4. StatusAsyncEvent \in Codes /\ StatusAsyncEvent # "299" /\ e.bad \in BadLines
  BY InLineIsInChars DEF IsEvent, StatusAsyncEvent
<1>5. <<"OK">> \in Seq(Chars) /\ <<>> \in Seq(Entries(Chars))
  BY InLineIsInChars
<1>6. << [text |-> Words(words), lines |-> body] >> \in Seq(Entries(Chars))
  <2>1. [text |-> Words(words), lines |-> body] \in Entries(Chars)
    BY <1>2, <1>3 DEF Entries
  <2> QED BY <2>1
<1>7. [i \in DOMAIN words |-> [text |-> words[i], lines |-> <<>>]] \in Seq(Entries(Chars))
  <2>1. ASSUME NEW i \in 1..Len(words)
        PROVE  [text |-> words[i], lines |-> <<>>] \in Entries(Chars)
    <3>1. words[i] \in Seq(Chars) /\ <<>> \in Seq(Seq(Chars))
      OBVIOUS
    <3> QED BY <3>1 DEF Entries
  <2>2. DOMAIN words = 1..Len(words) /\ Len(words) \in Nat
    OBVIOUS
  <2> QED BY <2>1, <2>2
<1>8. CASE e.style = "line"
  <2>1. EventMessage(e) =
          [code |-> StatusAsyncEvent, data |-> <<>>, reply |-> Words(words), bad |-> e.bad]
    BY <1>1, <1>8, Zenon DEF EventMessage
  <2> QED BY <1>2, <1>4, <1>5, <2>1, SomeMessage
<1>9. CASE e.style = "body"
  <2>1. EventMessage(e) =
          [code |-> StatusAsyncEvent, data |-> << [text |-> Words(words), lines |-> body] >>,
           reply |-> <<"OK">>, bad |-> e.bad]
    BY <1>1, <1>3, <1>9 DEF EventMessage
  <2> QED BY <1>4, <1>5, <1>6, <2>1, SomeMessage
<1>10. CASE e.style = "lines"
  <2>1. EventMessage(e) =
          [code |-> StatusAsyncEvent,
           data |-> [i \in DOMAIN words |-> [text |-> words[i], lines |-> <<>>]],
           reply |-> <<"OK">>, bad |-> e.bad]
    BY <1>1, <1>10 DEF EventMessage
  <2> QED BY <1>4, <1>5, <1>7, <2>1, SomeMessage
<1> QED BY <1>8, <1>9, <1>10 DEF IsEvent

\* What is known of a session.
LEMMA SessionsAre ==
  ASSUME NEW s \in Sessions
  PROVE  /\ Len(s.calls) \in Nat /\ Len(s.events) \in Nat
         /\ \A n \in 1..Len(s.calls) : /\ IsRequest(s.calls[n].request)
                                       /\ s.calls[n].answer \in WireMessages
         /\ \A n \in 1..Len(s.events) : EventMessage(s.events[n]) \in WireMessages
<1>1. PICK calls \in Seq(Range(s.calls)), evs \in Seq(Range(s.events)) :
        calls = s.calls /\ evs = s.events
  BY SessionAssumption
<1>2. ASSUME NEW n \in 1..Len(calls)
      PROVE  IsRequest(calls[n].request) /\ calls[n].answer \in WireMessages
  <2>1. calls[n] \in Range(s.calls)
    OBVIOUS
  <2> QED BY <2>1, SessionAssumption, WiderMessages
<1>3. ASSUME NEW n \in 1..Len(evs)
      PROVE  EventMessage(evs[n]) \in WireMessages
  <2>1. evs[n] \in Range(s.events)
    OBVIOUS
  <2> QED BY <2>1, SessionAssumption, EventMessageIsMessage
<1> QED BY <1>1, <1>2, <1>3

----------------------------------------------------------------------------
(* Tor's configuration *)

ConfValues == [valSetAndEmpty : BOOLEAN, val : Texts]
ConfOK == conf \in [Keys -> ConfValues]

LEMMA KeyTexts ==
  ASSUME NEW key \in Keys
  PROVE  \E b \in Chars : key = <<b>>
<1>1. "Nick" \in Chars /\ "Info" \in Chars
  BY DEF Chars, Tokens, Literals, CR, LF
<1> QED BY <1>1 DEF Keys

LEMMA KeyIsText ==
  ASSUME NEW key \in Keys
  PROVE  key \in Seq(Chars) /\ key \in Texts
<1>1. PICK b \in Chars : key = <<b>>
  BY KeyTexts
<1>2. <<b>> \in Seq(Chars)
  OBVIOUS
<1> QED BY <1>1, <1>2, InLineIsInChars, WiderSequences DEF Texts

LEMMA SecondWord ==
  ASSUME NEW a \in Tokens, a # SP, NEW b \in Tokens, NEW str, str = <<a, SP, b>>
  PROVE  PartitionString(str, SP).tail = <<b>>
<1>1. /\ DOMAIN str = 1..3 /\ Len(str) = 3 /\ str[1] = a /\ str[2] = SP
      /\ SubSeq(str, 3, 3) = <<b>>
  BY InLineIsInChars, OfThree
<1>2. 2 \in Positions(str, SP) /\ \A i \in Positions(str, SP) : i \in Int /\ 2 <= i
  BY <1>1 DEF Positions
<1>3. PICK n : n = CHOOSE i \in Positions(str, SP) : \A j \in Positions(str, SP) : i <= j
  OBVIOUS
<1>4. n \in Positions(str, SP) /\ \A j \in Positions(str, SP) : n <= j
  BY <1>2, <1>3
<1>5. n = 2
  <2>1. n \in Int /\ n <= 2 /\ 2 <= n
    BY <1>2, <1>4
  <2> QED BY <2>1
<1>6. PartitionString(str, SP) = PartitionAt(str, 2)
  BY <1>2, <1>3, <1>5, Zenon DEF PartitionString
<1>7. PartitionAt(str, 2).tail = SubSeq(str, 3, 3)
  BY <1>1 DEF PartitionAt
<1> QED BY <1>1, <1>6, <1>7

\* The line of GETCONF names its key.
LEMMA GetConfLine ==
  ASSUME NEW keys \in Seq(Keys), Len(keys) = 1
  PROVE  PartitionString(Words(<< <<"GETCONF">> >> \o keys), SP).tail = keys[1]
<1>1. PICK b \in Chars : keys[1] = <<b>>
  <2>1. keys[1] \in Keys
    OBVIOUS
  <2> QED BY <2>1, KeyTexts
<1>2. PICK parts : parts = << <<"GETCONF">> >> \o keys
  OBVIOUS
<1>3. "GETCONF" \in Tokens /\ SP \in Tokens /\ b \in Tokens
  BY InLineIsInChars DEF Tokens, Literals
<1>4. PICK w \in Texts, x \in Texts : w = <<"GETCONF">> /\ x = <<SP, b>>
  BY <1>3, Tuples DEF Texts
<1>5. parts = <<w, <<b>> >>
  <2>1. keys = <<keys[1]>>
    OBVIOUS
  <2>2. parts = <<w>> \o << <<b>> >>
    BY <1>1, <1>2, <1>4, <2>1, Zenon
  <2>3. PICK y \in Texts : y = <<b>>
    BY <1>3, Tuples DEF Texts
  <2>4. <<w>> \o <<y>> = <<w, y>>
    BY TwoTuples
  <2> QED BY <2>2, <2>3, <2>4
<1>6. PICK pieces :
        pieces = [i \in DOMAIN parts |-> (IF i = 1 THEN <<>> ELSE <<SP>>) \o parts[i]]
  OBVIOUS
<1>7. pieces = <<w, x>>
  <2>1. DOMAIN parts = 1..2 /\ parts[1] = w /\ parts[2] = <<b>>
    BY <1>5
  <2>2. <<>> \o w = w /\ <<SP>> \o <<b>> = x
    <3>1. <<SP>> \o <<b>> = <<SP, b>>
      BY <1>3, TwoTuples
    <3>2. <<>> \o w = w
      BY EmptyConcat DEF Texts
    <3> QED BY <1>4, <3>1, <3>2
  <2>3. pieces = [i \in 1..2 |-> IF i = 1 THEN w ELSE x]
    <3>1. \A i \in 1..2 :
            (IF i = 1 THEN <<>> ELSE <<SP>>) \o parts[i] = IF i = 1 THEN w ELSE x
      <4>1. 2 # 1
        OBVIOUS
      <4>2. (IF 1 = 1 THEN <<>> ELSE <<SP>>) \o parts[1] = w
        BY <2>1, <2>2, Zenon
      <4>3. (IF 2 = 1 THEN <<>> ELSE <<SP>>) \o parts[2] = x
        BY <2>1, <2>2, <4>1, Zenon
      <4>4. \A i \in 1..2 : i = 1 \/ i = 2
        OBVIOUS
      <4> QED BY <4>1, <4>2, <4>3, <4>4, Zenon
    <3> QED BY <1>6, <2>1, <3>1
  <2> QED BY <2>3
<1>8. FlattenSeq(pieces) = w \o x
  BY <1>7, FlattenSeqOfTwo DEF Texts
<1>9. w \o x = <<"GETCONF", SP, b>>
  BY <1>3, <1>4, ThreeTuples
<1>10. Words(parts) = <<"GETCONF", SP, b>>
  BY <1>6, <1>8, <1>9, Zenon DEF Words, Join
<1>11. PartitionString(Words(parts), SP).tail = <<b>>
  <2>1. "GETCONF" # SP
    BY DEF SP
  <2> QED BY <1>3, <1>10, <2>1, SecondWord
<1> QED BY <1>1, <1>2, <1>11

LEMMA PrintfText ==
  ASSUME NEW str \in Texts
  PROVE  Printf(str) \in Texts
<1>1. "%!" \in Tokens
  BY DEF Tokens, Literals
<1>2. ASSUME NEW i \in 1..Len(str)
      PROVE  (IF str[i] = "%" THEN "%!" ELSE str[i]) \in Tokens
  BY <1>1 DEF Texts
<1>3. DOMAIN str = 1..Len(str) /\ Len(str) \in Nat
  BY DEF Texts
<1> QED BY <1>2, <1>3 DEF Printf, Texts

LEMMA SetConfLine ==
  ASSUME NEW entries \in Seq([key : Keys, val : Seq(STRING), valSetAndEmpty : BOOLEAN])
  PROVE  sendSetConf("SETCONF", entries) \in Texts
<1>1. PICK others :
        others = [i \in DOMAIN entries |->
                    entries[i].key \o (IF ValSet(entries[i])
                      THEN <<"=">> \o EscapeSimpleQuotedStringIfNeeded(entries[i].val)
                      ELSE <<>>)]
  OBVIOUS
<1>2. ASSUME NEW i \in 1..Len(entries)
      PROVE  others[i] \in Texts
  <2>1. entries[i].key \in Keys /\ entries[i].val \in Seq(STRING)
    <3>1. PICK T : T = [key : Keys, val : Seq(STRING), valSetAndEmpty : BOOLEAN]
      OBVIOUS
    <3>2. entries \in Seq(T)
      BY <3>1
    <3>3. entries[i] \in T
      BY <3>2
    <3> QED BY <3>1, <3>3
  <2>2. PICK key \in Texts, val \in Texts : key = entries[i].key /\ val = entries[i].val
    BY <2>1, KeyIsText, InLineIsInChars, WiderSequences DEF Texts
  <2>3. EscapeSimpleQuotedString(val) \in Texts
    BY EscapeText, InLineIsInChars, WiderSequences DEF Texts
  <2>4. EscapeSimpleQuotedStringIfNeeded(val) \in Texts
    BY <2>3 DEF EscapeSimpleQuotedStringIfNeeded
  <2>5. <<"=">> \in Texts /\ <<>> \in Texts
    <3>1. "=" \in Tokens
      BY InLineIsInChars
    <3> QED BY <3>1 DEF Texts
  <2>6. <<"=">> \o EscapeSimpleQuotedStringIfNeeded(val) \in Texts
    BY <2>4, <2>5, Concat DEF Texts
  <2>7. /\ key \o (<<"=">> \o EscapeSimpleQuotedStringIfNeeded(val)) \in Texts
        /\ key \o <<>> \in Texts
    BY <2>5, <2>6, Concat DEF Texts
  <2>8. others[i] = key \o (<<"=">> \o EscapeSimpleQuotedStringIfNeeded(val))
        \/ others[i] = key \o <<>>
    <3>1. i \in DOMAIN entries
      OBVIOUS
    <3> QED BY <1>1, <2>2, <3>1, Zenon
  <2> QED BY <2>7, <2>8
<1>3. others \in Seq(Texts)
  <2>1. DOMAIN entries = 1..Len(entries) /\ Len(entries) \in Nat
    OBVIOUS
  <2> QED BY <1>1, <1>2, <2>1
<1>4. PICK first \in Seq(Texts) : first = << <<"SETCONF">> >>
  <2>1. "SETCONF" \in Tokens
    BY DEF Tokens, Literals
  <2>2. PICK one \in Texts : one = <<"SETCONF">>
    BY <2>1, Tuples DEF Texts
  <2>3. <<one>> \in Seq(Texts)
    OBVIOUS
  <2> QED BY <2>2, <2>3, Zenon
<1>5. first \o others \in Seq(Texts)
  BY <1>3, Concat
<1>6. Words(first \o others) \in Texts
  <2>1. SP \in Tokens
    BY InLineIsInChars
  <2> QED BY <1>5, <2>1, JoinText DEF Words, Texts
<1>7. Printf(Words(first \o others)) \in Texts
  BY <1>6, PrintfText
<1> QED BY <1>1, <1>4, <1>7, Zenon DEF sendSetConf

LEMMA UnescapedText ==
  ASSUME NEW str \in Texts
  PROVE  TorUnescape(str) \in Texts
<1>1. \E pieces \in Seq(Texts) : TorUnescape(str) = FlattenSeq(pieces)
  <2> DEFINE before(i) == {j \in 1..(i - 1) : \A k \in j..(i - 1) : str[k] = Backslash}
             escaped(i) == Cardinality(before(i)) % 2 = 1
             piece(i) ==
               CASE escaped(i) -> <<CASE str[i] = "r" -> CR [] str[i] = "n" -> LF [] OTHER -> str[i]>>
                 [] ~escaped(i) /\ str[i] = Backslash -> <<>>
                 [] OTHER -> <<str[i]>>
  <2>1. ASSUME NEW i \in 1..Len(str)
        PROVE  piece(i) \in Texts
    <3> HIDE DEF escaped
    <3>1. str[i] \in Tokens /\ CR \in Tokens /\ LF \in Tokens
      BY DEF Texts, Tokens, Literals
    <3>2. PICK a \in Tokens : a = CASE str[i] = "r" -> CR [] str[i] = "n" -> LF [] OTHER -> str[i]
      BY <3>1
    <3>3. PICK b \in Tokens : b = str[i]
      BY <3>1
    <3>4. <<a>> \in Texts /\ <<b>> \in Texts /\ <<>> \in Texts
      BY DEF Texts
    <3>5. piece(i) = <<a>> \/ piece(i) = <<b>> \/ piece(i) = <<>>
      BY <3>2, <3>3, Zenon
    <3> QED BY <3>4, <3>5
  <2>2. DOMAIN str = 1..Len(str) /\ Len(str) \in Nat
    BY DEF Texts
  <2>3. [i \in DOMAIN str |-> piece(i)] \in Seq(Texts)
    <3> HIDE DEF piece
    <3> QED BY <2>1, <2>2
  <2>4. TorUnescape(str) = FlattenSeq([i \in DOMAIN str |-> piece(i)])
    BY Zenon DEF TorUnescape
  <2> HIDE DEF piece
  <2> QED BY <2>3, <2>4
<1>2. PICK pieces \in Seq(Texts) : TorUnescape(str) = FlattenSeq(pieces)
  BY <1>1
<1>3. FlattenSeq(pieces) \in Texts
  BY FlattenSeqLayout DEF Texts
<1> QED BY <1>2, <1>3

LEMMA TorValueText ==
  ASSUME NEW str \in Texts
  PROVE  TorValue(str) \in Texts
<1>1. Len(str) \in Nat
  BY DEF Texts
<1>2. SubSeq(str, 2, Len(str) - 1) \in Texts
  BY <1>1, SubSeqOfText
<1> QED BY <1>2, UnescapedText DEF TorValue

LEMMA TorSetConfOK ==
  ASSUME ConfOK, NEW str \in Texts
  PROVE  TorSetConf(str) \in [Keys -> ConfValues]
<1>1. PICK entry : entry = PartitionString(PartitionString(str, SP).tail, "=")
  OBVIOUS
<1>2. entry.tail \in Texts /\ entry.ok \in BOOLEAN
  BY <1>1, PartitionText
<1>3. PICK val \in Texts : val = TorValue(entry.tail)
  BY <1>2, TorValueText
<1>4. PICK set \in BOOLEAN : set = (entry.ok /\ val = <<>>)
  BY <1>2
<1>5. PICK value \in ConfValues : value = [valSetAndEmpty |-> set, val |-> val]
  BY DEF ConfValues
<1>6. TorSetConf(str) = [conf EXCEPT ![entry.head] = value]
  BY <1>1, <1>3, <1>4, <1>5, Zenon DEF TorSetConf
<1> QED BY <1>6 DEF ConfOK

\* A value goes as it stands only when it has no line break.
LEMMA TorGetConfIsMessage ==
  ASSUME ConfOK, NEW key \in Keys, NEW msg \in TorGetConf(key)
  PROVE  msg \in WireMessages
<1>1. PICK val \in Texts : val = conf[key].val
  BY DEF ConfOK, ConfValues
<1>2. PICK quoted \in BOOLEAN :
        /\ quoted \/ Range(val) \cap Escapes = {}
        /\ \/ msg = [code |-> StatusOk, data |-> <<>>, reply |-> key, bad |-> "none"]
           \/ msg = [code |-> StatusOk, data |-> <<>>, bad |-> "none",
                     reply |-> key \o <<"=">> \o (IF quoted THEN EscapeSimpleQuotedString(val)
                                                            ELSE val)]
  BY <1>1 DEF TorGetConf
<1>3. (IF quoted THEN EscapeSimpleQuotedString(val) ELSE val) \in Seq(Chars)
  <2>1. CASE quoted
    BY <2>1, EscapeText
  <2>2. CASE ~quoted
    <3>1. ASSUME NEW i \in 1..Len(val)
          PROVE  val[i] \in Chars
      <4>1. val[i] \in Range(val) /\ val[i] \in Tokens
        BY DEF Range, Texts
      <4> QED BY <1>2, <2>2, <4>1 DEF Chars, Escapes
    <3>2. val \in Seq(Chars)
      BY <3>1 DEF Texts
    <3> QED BY <2>2, <3>2
  <2> QED BY <2>1, <2>2
<1>4. key \in Seq(Chars) /\ <<"=">> \in Seq(Chars)
  BY KeyIsText, InLineIsInChars
<1>5. key \o <<"=">> \in Seq(Chars)
  BY <1>4, Concat
<1>6. key \o <<"=">> \o (IF quoted THEN EscapeSimpleQuotedString(val) ELSE val) \in Seq(Chars)
  BY <1>3, <1>5, Concat
<1>7. StatusOk \in Codes /\ StatusOk # "299" /\ <<>> \in Seq(Entries(Chars)) /\ "none" \in BadLines
  <2>1. StatusOk # "299"
    BY DEF StatusOk
  <2>2. StatusOk \in Codes
    BY InLineIsInChars
  <2>3. <<>> \in Seq(Entries(Chars))
    OBVIOUS
  <2>4. "none" \in BadLines
    BY DEF BadLines
  <2> QED BY <2>1, <2>2, <2>3, <2>4
<1>8. \A reply \in Seq(Chars) :
        [code |-> StatusOk, data |-> <<>>, reply |-> reply, bad |-> "none"] \in WireMessages
  BY <1>7, SomeMessage
<1> QED BY <1>2, <1>4, <1>6, <1>8

----------------------------------------------------------------------------
(* The wire in the states of the specification *)

\* The lines that were written: those that are there, and the one of which the
\* connection's end has left a piece.
Continued(str, part, full) ==
  /\ str \in Seq(Items) /\ full \in Seq(Items)
  /\ \A i \in 1..Len(str) : full[i] = str[i]
  /\ \/ Len(full) = Len(str) /\ part = NoLine
     \/ Len(full) = Len(str) + 1 /\ part \in PiecesOf(full[Len(full)])

\* The last response lacks the end of its reply.
ReplyCut(resps, whole) ==
  /\ IsSequence(resps) /\ Len(whole) = Len(resps) /\ Len(resps) # 0
  /\ \A i \in 1..Len(resps) : i # Len(resps) => resps[i] = whole[i]
  /\ resps[Len(resps)].from = whole[Len(resps)].from
  /\ resps[Len(resps)].code = whole[Len(resps)].code
  /\ resps[Len(resps)].data = whole[Len(resps)].data
  /\ resps[Len(resps)].reply \in BeginningsOf(whole[Len(resps)].reply)

\* What is there of the lines, and what was returned, with the end of a line
\* missing when the connection has ended.
Seen(str, part, end, tear, resps, full, whole) ==
  /\ Continued(str, part, full)
  /\ ~end => full = str /\ part = NoLine /\ tear = FALSE
  /\ tear => full = <<>>
  /\ tear \in BOOLEAN
  /\ IF tear THEN ReplyCut(resps, whole) ELSE whole = resps

WireInv ==
  \E full, whole, pos :
    /\ Seen(stream, partial, eof, torn, responses, full, whole)
    /\ Wire(full, eof, resp, sent, broken, whole, pos)

\* The lines that are there are the first ones.
LEMMA SeenFirst ==
  ASSUME NEW str, NEW part, NEW end, NEW tear, NEW resps, NEW full, NEW whole,
         Seen(str, part, end, tear, resps, full, whole), str # <<>>
  PROVE  /\ tear = FALSE /\ whole = resps /\ full # <<>>
         /\ str \in Seq(Items) /\ full \in Seq(Items) /\ Len(str) <= Len(full)
         /\ \A i \in 1..Len(str) : full[i] = str[i] /\ i \in 1..Len(full)
         /\ 1 \in 1..Len(str)
<1>1. /\ str \in Seq(Items) /\ full \in Seq(Items)
      /\ \A i \in 1..Len(str) : full[i] = str[i]
      /\ Len(full) = Len(str) \/ Len(full) = Len(str) + 1
  BY DEF Seen, Continued
<1>2. 1 \in 1..Len(str) /\ Len(str) <= Len(full) /\ \A i \in 1..Len(str) : i \in 1..Len(full)
  BY <1>1, EmptySeq
<1>3. full # <<>>
  <2>1. Len(full) # 0
    BY <1>1, <1>2
  <2> QED BY <2>1, EmptySeq
<1> QED BY <1>1, <1>2, <1>3 DEF Seen

\* So they are when some were read.
LEMMA SeenLeft ==
  ASSUME NEW str, NEW part, NEW end, NEW tear, NEW resps, NEW full, NEW whole,
         Seen(str, part, end, tear, resps, full, whole), str # <<>>,
         NEW n \in 1..Len(str), NEW rest, NEW all, Left(str, n, rest), Left(full, n, all),
         NEW more
  PROVE  Seen(rest, part, end, FALSE, more, all, more)
<1>1. str \in Seq(Items) /\ full \in Seq(Items) /\ rest \in Seq(Items) /\ all \in Seq(Items)
      /\ \A i \in 1..Len(str) : full[i] = str[i]
  <2>1. /\ str \in Seq(Items) /\ full \in Seq(Items)
        /\ \A i \in 1..Len(str) : full[i] = str[i]
    BY SeenFirst, Zenon
  <2> QED BY <2>1 DEF Left
<1>2. PICK a \in Nat, b \in Nat, c \in Nat, d \in Nat :
        a = Len(str) /\ b = Len(full) /\ c = Len(rest) /\ d = Len(all)
  BY <1>1
<1>3. c = a - n /\ d = b - n /\ n \in 1..a
  BY <1>2 DEF Left
<1>4. \A i \in 1..c : rest[i] = str[n + i] /\ n + i \in 1..a
  BY <1>2, <1>3 DEF Left
<1>5. \A i \in 1..d : all[i] = full[n + i]
  BY <1>2 DEF Left
<1>6. \/ b = a /\ part = NoLine
      \/ b = a + 1 /\ part \in PiecesOf(full[b])
  BY <1>2 DEF Seen, Continued
<1>7. c <= d /\ (b = a => d = c) /\ (b = a + 1 => d = c + 1 /\ d \in 1..d /\ n + d = b)
  BY <1>3, <1>6
<1>8. \A i \in 1..c : all[i] = rest[i]
  <2>1. \A i \in 1..c : i \in 1..d
    BY <1>7
  <2> QED BY <1>1, <1>2, <1>4, <1>5, <2>1
<1>9. b = a + 1 => all[d] = full[b]
  BY <1>5, <1>7
<1>10. Continued(rest, part, all)
  BY <1>1, <1>2, <1>6, <1>7, <1>8, <1>9 DEF Continued
<1>11. ASSUME ~end
       PROVE  all = rest /\ part = NoLine
  <2>1. full = str /\ part = NoLine
    BY <1>11 DEF Seen
  <2>2. d = c
    BY <1>2, <1>7, <2>1
  <2>3. rest = [i \in 1..c |-> rest[i]] /\ all = [i \in 1..c |-> all[i]]
    <3>1. \A s \in Seq(Items) : s = [i \in 1..Len(s) |-> s[i]]
      OBVIOUS
    <3>2. Len(rest) = c /\ Len(all) = c
      BY <1>2, <2>2
    <3> QED BY <1>1, <3>1, <3>2
  <2>4. [i \in 1..c |-> rest[i]] = [i \in 1..c |-> all[i]]
    BY <1>8
  <2> QED BY <2>1, <2>3, <2>4
<1> QED BY <1>10, <1>11 DEF Seen

LEMMA TailsAreLeft ==
  ASSUME NEW str, NEW part, NEW end, NEW tear, NEW resps, NEW full, NEW whole,
         Seen(str, part, end, tear, resps, full, whole), str # <<>>, NEW more
  PROVE  Seen(Tail(str), part, end, FALSE, more, Tail(full), more)
<1>1. /\ str \in Seq(Items) /\ full \in Seq(Items) /\ full # <<>> /\ 1 \in 1..Len(str)
  BY SeenFirst
<1>2. PICK rest, all : rest = Tail(str) /\ all = Tail(full)
  OBVIOUS
<1>3. Left(str, 1, rest) /\ Left(full, 1, all)
  BY <1>1, <1>2, TailIsLeft
<1>4. Seen(rest, part, end, FALSE, more, all, more)
  BY <1>1, <1>3, SeenLeft
<1> QED BY <1>2, <1>4

LEMMA LineIs ==
  ASSUME WireInv, stream # <<>>
  PROVE  /\ Head(stream) = stream[1] /\ Line = stream[1].text /\ NextLine = stream[1]
         /\ WellFormed <=> WellFormedLine(stream[1].text, resp)
<1>1. PICK str \in Seq(Items) : str = stream
  BY DEF WireInv, Seen, Continued
<1>2. Head(str) = str[1]
  BY <1>1, TailIsLeft
<1>3. NextLine = stream[1] /\ Line = stream[1].text
  BY <1>1, <1>2, Zenon DEF Line, NextLine
<1>4. WellFormed <=> WellFormedLine(stream[1].text, resp)
  <2>1. PICK t : t = stream[1].text /\ t = Line
    BY <1>3
  <2>2. WellFormed <=> /\ Len(t) >= 2 /\ t[1] \in Codes /\ (resp = None \/ resp.code = t[1])
                       /\ t[2] \in {SP, "-", "+"}
    <3>1. WellFormed <=> /\ Len(t) >= 2 /\ (resp = None \/ resp.code = t[1]) /\ t[1] \in Codes
                         /\ t[2] \in {SP, "-", "+"}
      BY <2>1, Zenon DEF WellFormed, SP
    <3> QED BY <3>1, Zenon
  <2> QED BY <2>1, <2>2, Zenon DEF WellFormedLine
<1> QED BY <1>1, <1>2, <1>3, <1>4

\* The line at hand, as it was written.
LEMMA HeadSeen ==
  ASSUME WireInv, stream # <<>>
  PROVE  \E full, pos :
           /\ Seen(stream, partial, eof, FALSE, responses, full, responses)
           /\ Wire(full, eof, resp, sent, broken, responses, pos)
           /\ full # <<>> /\ full[1] = stream[1] /\ torn = FALSE
<1>1. PICK full, whole, pos :
        /\ Seen(stream, partial, eof, torn, responses, full, whole)
        /\ Wire(full, eof, resp, sent, broken, whole, pos)
  BY DEF WireInv
<1>2. /\ torn = FALSE /\ whole = responses /\ full # <<>> /\ full[1] = stream[1]
  <2>1. /\ torn = FALSE /\ whole = responses /\ full # <<>> /\ 1 \in 1..Len(stream)
        /\ \A i \in 1..Len(stream) : full[i] = stream[i]
    BY <1>1, SeenFirst, Zenon
  <2> QED BY <2>1, Zenon
<1> QED BY <1>1, <1>2, Zenon

LEMMA AddedIs ==
  ASSUME NEW text, NEW n, NEW m, {stream[i].msg : i \in 1..n} = {m}
  PROVE  Added(text, n) = Grown(resp, Line[1], text, m)
BY Zenon DEF Added, Grown

LEMMA MidKeepsWire ==
  ASSUME WireInv, ReadMid, UNCHANGED <<eof, sent, responses>>
  PROVE  WireInv'
<1>1. PICK full, pos :
        /\ Seen(stream, partial, eof, FALSE, responses, full, responses)
        /\ Wire(full, eof, resp, sent, broken, responses, pos)
        /\ full # <<>> /\ full[1] = stream[1] /\ torn = FALSE
  BY HeadSeen DEF ReadMid
<1>2. PICK t : t = stream[1].text /\ t = full[1].text
  BY <1>1
<1>3. stream # <<>> /\ WellFormedLine(t, resp) /\ t[2] = "-" /\ Line = t
  BY <1>2, LineIs DEF ReadMid
<1>4. PICK m, s : m = stream[1].msg /\ s = Grown(resp, t[1], SubSeq(t, 3, Len(t)), m)
  OBVIOUS
<1>5. resp' = s
  <2>1. {stream[i].msg : i \in 1..1} = {m}
    BY <1>4
  <2>2. Added(Rest, 1) = Grown(resp, Line[1], Rest, m)
    BY <2>1, AddedIs
  <2> QED BY <1>3, <1>4, <2>2, Zenon DEF ReadMid, Rest
<1>6. \E q : Wire(Tail(full), eof, s, sent, broken, responses, q)
  <2>1. s = Grown(resp, t[1], SubSeq(t, 3, Len(t)), full[1].msg)
    BY <1>1, <1>4, Zenon
  <2> QED BY <1>1, <1>2, <1>3, <2>1, MidRead
<1>7. Seen(Tail(stream), partial, eof, FALSE, responses, Tail(full), responses)
  BY <1>1, <1>3, TailsAreLeft
<1>8. stream' = Tail(stream) /\ UNCHANGED <<broken, partial, torn>>
  BY DEF ReadMid
<1> QED BY <1>1, <1>5, <1>6, <1>7, <1>8, Zenon DEF WireInv

LEMMA DotKeepsWire ==
  ASSUME WireInv, ReadDot, UNCHANGED <<eof, sent, responses>>
  PROVE  WireInv'
<1>1. PICK full, pos :
        /\ Seen(stream, partial, eof, FALSE, responses, full, responses)
        /\ Wire(full, eof, resp, sent, broken, responses, pos)
        /\ full # <<>> /\ full[1] = stream[1] /\ torn = FALSE
  BY HeadSeen DEF ReadDot
<1>2. PICK t : t = stream[1].text /\ t = full[1].text
  BY <1>1
<1>3. stream # <<>> /\ WellFormedLine(t, resp) /\ t[2] = "+" /\ Line = t
  BY <1>2, LineIs DEF ReadDot
<1>4. PICK n \in 2..Len(stream) :
        /\ stream[n].text = Dot
        /\ \A i \in 2..(n - 1) : stream[i].text # Dot
        /\ resp' = Added(Rest \o <<CR, LF>> \o
                         DotBody([i \in 1..(n - 2) |-> stream[i + 1].text]), n)
        /\ stream' = SubSeq(stream, n + 1, Len(stream))
  BY DEF ReadDot
<1>5. /\ stream \in Seq(Items) /\ full \in Seq(Items) /\ Len(stream) <= Len(full)
      /\ \A i \in 1..Len(stream) : full[i] = stream[i]
  <2>1. PICK tear : tear = FALSE /\ Seen(stream, partial, eof, tear, responses, full, responses)
    BY <1>1
  <2>2. PICK str : str = stream /\ str # <<>>
    BY <1>3
  <2>3. Seen(str, partial, eof, tear, responses, full, responses)
    BY <2>1, <2>2
  <2>4. /\ str \in Seq(Items) /\ full \in Seq(Items) /\ Len(str) <= Len(full)
        /\ \A i \in 1..Len(str) : full[i] = str[i] /\ i \in 1..Len(full)
    <3>1. str # <<>>
      BY <2>2
    <3> QED BY <2>3, <3>1, SeenFirst, Zenon
  <2> QED BY <2>2, <2>4
<1>6. /\ DotAt(stream, n) /\ DotAt(full, n)
      /\ \A i \in 1..n : full[i] = stream[i]
      /\ \A i \in 1..(n - 2) : full[i + 1] = stream[i + 1]
  <2>1. PICK a \in Nat, b \in Nat : a = Len(stream) /\ b = Len(full)
    BY <1>5
  <2>2. /\ n \in 2..b /\ \A i \in 1..n : i \in 1..a
        /\ \A i \in 2..(n - 1) : i \in 1..a
        /\ \A i \in 1..(n - 2) : i + 1 \in 1..a
        /\ n \in 1..n
    BY <1>4, <1>5, <2>1
  <2> QED BY <1>4, <1>5, <2>1, <2>2 DEF DotAt
<1>7. PICK read : /\ read = [i \in 1..(n - 2) |-> stream[i + 1].text]
                  /\ read = [i \in 1..(n - 2) |-> full[i + 1].text]
  BY <1>6
<1>8. PICK m, s : /\ m = stream[1].msg /\ m = full[1].msg
                  /\ s = Grown(resp, t[1], SubSeq(t, 3, Len(t)) \o <<CR, LF>> \o DotBody(read), m)
  BY <1>1
<1>9. PICK rest, all : /\ rest = SubSeq(stream, n + 1, Len(stream))
                       /\ all = SubSeq(full, n + 1, Len(full))
  OBVIOUS
<1>10. /\ \A i \in 1..n : full[i].msg = m
       /\ \E q : Wire(all, eof, s, sent, broken, responses, q)
  <2>1. t[2] = "+" /\ WellFormedLine(t, resp) /\ full # <<>> /\ t = full[1].text
    BY <1>1, <1>2, <1>3
  <2>2. s = Grown(resp, t[1], SubSeq(t, 3, Len(t)) \o <<CR, LF>> \o DotBody(read), full[1].msg)
    BY <1>8, Zenon
  <2>3. DotAt(full, n) /\ read = [i \in 1..(n - 2) |-> full[i + 1].text]
    BY <1>6, <1>7
  <2>4. /\ \A i \in 1..n : full[i].msg = full[1].msg
        /\ \E q : Wire(all, eof, s, sent, broken, responses, q)
    BY <1>1, <1>9, <2>1, <2>2, <2>3, DotRead, ZenonT(30)
  <2> QED BY <1>8, <2>4
<1>11. resp' = s
  <2>1. {stream[i].msg : i \in 1..n} = {m}
    <3>1. 1 \in 1..n
      BY <1>4
    <3> QED BY <1>6, <1>10, <3>1
  <2>2. PICK text : text = Rest \o <<CR, LF>> \o DotBody(read)
    OBVIOUS
  <2>3. Added(text, n) = Grown(resp, Line[1], text, m)
    BY <2>1, AddedIs
  <2>4. resp' = Added(text, n)
    BY <1>4, <1>7, <2>2, Zenon
  <2> QED BY <1>3, <1>8, <2>2, <2>3, <2>4, Zenon DEF Rest
<1>12. Seen(rest, partial, eof, FALSE, responses, all, responses)
  <2>1. Left(stream, n, rest) /\ Left(full, n, all) /\ n \in 1..Len(stream)
    BY <1>5, <1>6, <1>9, SubSeqIsLeft
  <2> QED BY <1>1, <1>3, <2>1, SeenLeft
<1>13. stream' = rest /\ UNCHANGED <<broken, partial, torn>>
  BY <1>4, <1>9 DEF ReadDot
<1> QED BY <1>1, <1>10, <1>11, <1>12, <1>13, Zenon DEF WireInv

LEMMA LastKeepsWire ==
  ASSUME WireInv, ReadLast, UNCHANGED <<eof, sent>>, responses' = Append(responses, Complete)
  PROVE  WireInv'
<1>1. PICK full, pos :
        /\ Seen(stream, partial, eof, FALSE, responses, full, responses)
        /\ Wire(full, eof, resp, sent, broken, responses, pos)
        /\ full # <<>> /\ full[1] = stream[1] /\ torn = FALSE
  BY HeadSeen DEF ReadLast
<1>2. PICK t : t = stream[1].text /\ t = full[1].text
  BY <1>1
<1>3. stream # <<>> /\ WellFormedLine(t, resp) /\ Line = t /\ NextLine = stream[1]
  BY <1>2, LineIs DEF ReadLast
<1>4. t[2] = SP
  BY <1>3, Zenon DEF ReadLast, SP
<1>5. PICK s : s = Completed(resp, t[1], SubSeq(t, 3, Len(t)), full[1].msg)
  OBVIOUS
<1>6. Complete = s
  BY <1>1, <1>3, <1>5, Zenon DEF Complete, Completed, Rest
<1>7. PICK more : more = Append(responses, s)
  OBVIOUS
<1>8. \E q : Wire(Tail(full), eof, None, sent, broken, more, q)
  BY <1>1, <1>2, <1>3, <1>4, <1>5, <1>7, LastRead
<1>9. Seen(Tail(stream), partial, eof, FALSE, more, Tail(full), more)
  BY <1>1, <1>3, TailsAreLeft
<1>10. resp' = None /\ stream' = Tail(stream) /\ UNCHANGED <<broken, partial, torn>>
  BY DEF ReadLast
<1> QED BY <1>1, <1>6, <1>7, <1>8, <1>9, <1>10, Zenon DEF WireInv

LEMMA ErrorKeepsWire ==
  ASSUME WireInv, ReadError, UNCHANGED <<eof, sent, responses>>
  PROVE  WireInv'
<1>1. PICK full, pos :
        /\ Seen(stream, partial, eof, FALSE, responses, full, responses)
        /\ Wire(full, eof, resp, sent, broken, responses, pos)
        /\ full # <<>> /\ full[1] = stream[1] /\ torn = FALSE
  BY HeadSeen DEF ReadError
<1>2. stream # <<>> /\ ~WellFormedLine(full[1].text, resp)
  BY <1>1, LineIs DEF ReadError
<1>3. \E q : Wire(Tail(full), eof, None, sent, TRUE, responses, q)
  BY <1>1, <1>2, ErrorRead
<1>4. Seen(Tail(stream), partial, eof, FALSE, responses, Tail(full), responses)
  BY <1>1, <1>2, TailsAreLeft
<1>5. resp' = None /\ stream' = Tail(stream) /\ broken' = TRUE /\ UNCHANGED <<partial, torn>>
  BY DEF ReadError
<1> QED BY <1>1, <1>3, <1>4, <1>5, Zenon DEF WireInv

LEMMA EOFKeepsWire ==
  ASSUME WireInv, eof \in BOOLEAN, ReadEOF, UNCHANGED <<eof, sent, responses>>
  PROVE  WireInv'
<1>1. PICK full, whole, pos :
        /\ Seen(stream, partial, eof, torn, responses, full, whole)
        /\ Wire(full, eof, resp, sent, broken, whole, pos)
  BY DEF WireInv
<1>2. \E q : Wire(<<>>, TRUE, None, sent, broken, whole, q)
  BY <1>1, Ended
<1>3. /\ resp' = None /\ stream' = <<>> /\ partial' = NoLine /\ eof' = TRUE
      /\ UNCHANGED <<broken, torn>>
  BY DEF ReadEOF
<1>4. Seen(<<>>, NoLine, TRUE, torn, responses, <<>>, whole)
  <2>1. Continued(<<>>, NoLine, <<>>)
    BY DEF Continued
  <2> QED BY <1>1, <2>1 DEF Seen
<1> QED BY <1>2, <1>3, <1>4, Zenon DEF WireInv

LEMMA WriteKeepsWire ==
  ASSUME WireInv, eof \in BOOLEAN, NEW msg \in WireMessages, Write(msg),
         UNCHANGED <<partial, eof, resp, broken, torn, responses>>
  PROVE  WireInv'
<1>1. PICK full, whole, pos :
        /\ Seen(stream, partial, FALSE, torn, responses, full, whole)
        /\ Wire(full, FALSE, resp, sent, broken, whole, pos)
  BY DEF WireInv, Write
<1>2. full = stream /\ partial = NoLine /\ torn = FALSE /\ whole = responses
  BY <1>1 DEF Seen
<1>3. PICK added :
        added = [i \in DOMAIN MessageLines(msg) |->
                   [text |-> MessageLines(msg)[i], msg |-> Len(sent) + 1]]
  OBVIOUS
<1>4. stream' = stream \o added /\ sent' = Append(sent, msg) /\ eof' = FALSE
  BY <1>3 DEF Write
<1>5. PICK str, msgs : str = stream \o added /\ msgs = Append(sent, msg)
  OBVIOUS
<1>6. PICK q : Wire(str, FALSE, resp, msgs, broken, responses, q)
  BY <1>1, <1>2, <1>3, <1>5, Written
<1>7. Seen(str, NoLine, FALSE, FALSE, responses, str, responses)
  <2>1. str \in Seq(Items)
    BY <1>6 DEF Wire
  <2>2. Continued(str, NoLine, str)
    BY <2>1 DEF Continued
  <2> QED BY <2>2 DEF Seen
<1> QED BY <1>2, <1>4, <1>5, <1>6, <1>7, Zenon DEF WireInv

LEMMA CutKeepsWire ==
  ASSUME WireInv, eof \in BOOLEAN, Cut
  PROVE  WireInv'
<1>1. PICK full, whole, pos :
        /\ Seen(stream, partial, FALSE, torn, responses, full, whole)
        /\ Wire(full, FALSE, resp, sent, broken, whole, pos)
  <2>1. PICK full, whole, pos :
          /\ Seen(stream, partial, eof, torn, responses, full, whole)
          /\ Wire(full, eof, resp, sent, broken, whole, pos)
    BY DEF WireInv
  <2>2. eof = FALSE
    BY DEF Cut
  <2> QED BY <2>1, <2>2, Zenon
<1>2. /\ full = stream /\ torn = FALSE /\ whole = responses /\ stream \in Seq(Items)
  BY <1>1 DEF Seen, Continued
<1>3. PICK n \in 0..Len(stream) :
        /\ stream' = SubSeq(stream, 1, n)
        /\ \/ partial' = NoLine
           \/ n < Len(stream) /\ partial' \in PiecesOf(stream[n + 1])
  BY DEF Cut
<1>4. \E all : /\ Continued(stream', partial', all)
               /\ \E k \in 0..Len(stream) : all = SubSeq(stream, 1, k)
  <2>1. PICK str, size : str = stream /\ size = Len(stream)
    OBVIOUS
  <2>2. size \in Nat /\ n \in 0..size /\ str \in Seq(Items)
    BY <1>2, <2>1
  <2>3. PICK rest : rest = SubSeq(str, 1, n)
    OBVIOUS
  <2>4. rest \in Seq(Items) /\ Len(rest) = n /\ \A i \in 1..n : rest[i] = str[i]
    BY <2>1, <2>2, <2>3
  <2>5. CASE partial' = NoLine
    <3>1. Continued(rest, partial', rest)
      BY <2>4, <2>5 DEF Continued
    <3> QED BY <1>3, <2>1, <2>3, <3>1
  <2>6. CASE n < size /\ partial' \in PiecesOf(str[n + 1])
    <3>1. PICK all : all = SubSeq(str, 1, n + 1)
      OBVIOUS
    <3>2. n + 1 \in 0..size /\ n \in Nat
      BY <2>2, <2>6
    <3>3. all \in Seq(Items) /\ Len(all) = n + 1 /\ \A i \in 1..(n + 1) : all[i] = str[i]
      BY <2>1, <2>2, <3>1, <3>2
    <3>4. \A i \in 1..n : all[i] = rest[i]
      BY <2>4, <3>2, <3>3
    <3>5. all[n + 1] = str[n + 1]
      BY <3>2, <3>3
    <3>6. Continued(rest, partial', all)
      BY <2>4, <2>6, <3>3, <3>4, <3>5 DEF Continued
    <3> QED BY <1>3, <2>1, <2>3, <3>1, <3>2, <3>6
  <2> QED BY <1>3, <2>1, <2>5, <2>6
<1>5. PICK all : /\ Continued(stream', partial', all)
                 /\ \E k \in 0..Len(stream) : all = SubSeq(stream, 1, k)
  BY <1>4
<1>6. \E q : Wire(all, TRUE, resp, sent, broken, responses, q)
  BY <1>1, <1>2, <1>5, CutOff
<1>7. Seen(stream', partial', TRUE, FALSE, responses, all, responses)
  BY <1>5 DEF Seen
<1>8. eof' = TRUE /\ UNCHANGED <<resp, sent, broken, torn, responses>>
  BY DEF Cut
<1> QED BY <1>2, <1>6, <1>7, <1>8, Zenon DEF WireInv

LEMMA FromThird ==
  ASSUME NEW T, NEW s \in Seq(T), NEW n \in Nat, n = Len(s), n >= 2
  PROVE  /\ SubSeq(s, 3, n) \in Seq(T) /\ Len(SubSeq(s, 3, n)) = n - 2
         /\ \A i \in 1..(n - 2) : SubSeq(s, 3, n)[i] = s[i + 2]
<1>1. \A i \in 3..n : s[i] \in T
  OBVIOUS
<1>2. PICK u : u = SubSeq(s, 3, n)
  OBVIOUS
<1>3. /\ u \in Seq(T) /\ Len(u) = (IF 3 <= n THEN n - 3 + 1 ELSE 0)
      /\ \A i \in 1..(n - 3 + 1) : u[i] = s[3 + i - 1]
  BY <1>1, <1>2, SubSeqProperties
<1>4. /\ (IF 3 <= n THEN n - 3 + 1 ELSE 0) = n - 2 /\ n - 3 + 1 = n - 2
      /\ \A i \in 1..(n - 2) : 3 + i - 1 = i + 2
  OBVIOUS
<1> QED BY <1>2, <1>3, <1>4

\* What has come of a last line says the same, up to the end of its reply.
LEMMA PieceRead ==
  ASSUME NEW t \in Seq(Chars), NEW k \in 1..(Len(t) + 1),
         NEW u, u = SubSeq(t \o <<CR>>, 1, k), Len(u) >= 2, u[2] = SP
  PROVE  /\ Len(t) >= 2 /\ u[1] = t[1] /\ u[2] = t[2]
         /\ SubSeq(u, 3, Len(u)) \in BeginningsOf(SubSeq(t, 3, Len(t)))
<1>1. PICK l \in Nat : l = Len(t)
  OBVIOUS
<1>2. t \in Seq(Tokens) /\ CR \in Tokens /\ CR # SP
  <2>1. Chars \subseteq Tokens /\ CR \in Tokens
    BY DEF Chars, Tokens, Literals
  <2>2. t \in Seq(Tokens)
    BY <2>1
  <2>3. CR # SP
    BY DEF CR, SP
  <2> QED BY <2>1, <2>2, <2>3
<1>3. PICK w \in Seq(Tokens) :
        /\ w = t \o <<CR>> /\ Len(w) = l + 1 /\ w[l + 1] = CR
        /\ \A i \in 1..l : w[i] = t[i]
  <2>1. <<CR>> \in Seq(Tokens) /\ Len(<<CR>>) = 1 /\ <<CR>>[1] = CR
    BY <1>2
  <2>2. /\ t \o <<CR>> \in Seq(Tokens) /\ Len(t \o <<CR>>) = l + 1
        /\ \A i \in 1..l : (t \o <<CR>>)[i] = t[i]
        /\ \A i \in 1..1 : (t \o <<CR>>)[l + i] = <<CR>>[i]
    BY <1>1, <1>2, <2>1, Concat
  <2>3. (t \o <<CR>>)[l + 1] = CR
    <3>1. 1 \in 1..1
      OBVIOUS
    <3> QED BY <2>1, <2>2, <3>1
  <2> QED BY <2>2, <2>3
<1>4. u \in Seq(Tokens) /\ Len(u) = k /\ \A i \in 1..k : u[i] = w[i]
  BY <1>1, <1>3
<1>5. l >= 2 /\ k \in 2..(l + 1)
  <2>1. k >= 2 /\ k <= l + 1
    BY <1>1, <1>4
  <2>2. l # 1
    <3>1. l = 1 => u[2] = w[2] /\ w[2] = CR
      BY <1>3, <1>4, <2>1
    <3> QED BY <1>2, <3>1
  <2> QED BY <2>1, <2>2
<1>6. u[1] = t[1] /\ u[2] = t[2]
  BY <1>3, <1>4, <1>5
<1>7. PICK v \in Seq(Tokens) :
        /\ v = SubSeq(t, 3, l) /\ Len(v) = l - 2
        /\ \A i \in 1..(l - 2) : v[i] = t[i + 2]
  <2>1. PICK v : v = SubSeq(t, 3, l)
    OBVIOUS
  <2>2. v \in Seq(Tokens) /\ Len(v) = l - 2 /\ \A i \in 1..(l - 2) : v[i] = t[i + 2]
    BY <1>1, <1>2, <1>5, <2>1, FromThird
  <2> QED BY <2>1, <2>2
<1>8. PICK x \in Seq(Tokens) :
        /\ x = v \o <<CR>> /\ Len(x) = l - 1 /\ \A i \in 1..(l - 1) : x[i] = w[i + 2]
  <2>1. <<CR>> \in Seq(Tokens) /\ Len(<<CR>>) = 1 /\ <<CR>>[1] = CR
    BY <1>2
  <2>2. PICK d \in Nat : d = l - 2
    BY <1>5
  <2>3. /\ v \o <<CR>> \in Seq(Tokens) /\ Len(v \o <<CR>>) = d + 1
        /\ \A i \in 1..d : (v \o <<CR>>)[i] = v[i]
        /\ \A i \in 1..1 : (v \o <<CR>>)[d + i] = <<CR>>[i]
    BY <1>7, <2>1, <2>2, Concat
  <2>4. (v \o <<CR>>)[d + 1] = CR /\ d + 1 = l - 1 /\ (d + 1) + 2 = l + 1
    BY <2>1, <2>2, <2>3
  <2>5. \A i \in 1..d : (v \o <<CR>>)[i] = w[i + 2]
    <3>1. \A i \in 1..d : i + 2 \in 1..l
      BY <2>2
    <3> QED BY <1>3, <1>7, <2>2, <2>3, <3>1
  <2>6. \A i \in 1..(l - 1) : i \in 1..d \/ i = d + 1
    BY <2>2
  <2>7. \A i \in 1..(l - 1) : (v \o <<CR>>)[i] = w[i + 2]
    BY <1>3, <2>4, <2>5, <2>6
  <2> QED BY <2>3, <2>4, <2>7
<1>9. PICK n \in 0..(l - 1) : n = k - 2 /\ k = n + 2
  BY <1>5
<1>10. SubSeq(u, 3, k) = SubSeq(x, 1, n)
  <2>1. PICK a, b : a = SubSeq(u, 3, k) /\ b = SubSeq(x, 1, n)
    OBVIOUS
  <2>2. a \in Seq(Tokens) /\ Len(a) = n /\ \A i \in 1..n : a[i] = u[i + 2]
    BY <1>4, <1>5, <1>9, <2>1, FromThird
  <2>3. b \in Seq(Tokens) /\ Len(b) = n /\ \A i \in 1..n : b[i] = x[i]
    <3>1. n \in Nat /\ n <= Len(x)
      BY <1>5, <1>8
    <3>2. \A i \in 1..n : x[i] \in Tokens
      BY <1>8, <3>1
    <3>3. /\ b \in Seq(Tokens) /\ Len(b) = (IF 1 <= n THEN n - 1 + 1 ELSE 0)
          /\ \A i \in 1..(n - 1 + 1) : b[i] = x[1 + i - 1]
      BY <2>1, <3>1, <3>2, SubSeqProperties
    <3>4. /\ (IF 1 <= n THEN n - 1 + 1 ELSE 0) = n /\ n - 1 + 1 = n
          /\ \A i \in 1..n : 1 + i - 1 = i
      BY <3>1
    <3> QED BY <3>3, <3>4
  <2>4. \A i \in 1..n : i \in 1..(l - 1) /\ i + 2 \in 1..k
    BY <1>5, <1>9
  <2>5. \A i \in 1..n : a[i] = b[i]
    BY <1>4, <1>8, <2>2, <2>3, <2>4
  <2>6. a = [i \in 1..n |-> a[i]] /\ b = [i \in 1..n |-> b[i]]
    BY <2>2, <2>3
  <2>7. [i \in 1..n |-> a[i]] = [i \in 1..n |-> b[i]]
    BY <2>5
  <2> QED BY <2>1, <2>6, <2>7
<1>11. SubSeq(x, 1, n) \in BeginningsOf(v)
  <2>1. n \in 0..(Len(v) + 1)
    BY <1>5, <1>7, <1>9
  <2> QED BY <1>8, <2>1 DEF BeginningsOf
<1> QED BY <1>1, <1>4, <1>5, <1>6, <1>7, <1>10, <1>11

\* The line of which the connection's end has left a piece is the last one.
LEMMA PieceSeen ==
  ASSUME WireInv, stream = <<>>, Len(Line) >= 2
  PROVE  \E full, pos :
           /\ full # <<>> /\ Tail(full) = <<>> /\ full[1].text \in Seq(Chars)
           /\ partial \in PiecesOf(full[1]) /\ torn = FALSE /\ eof /\ IsSequence(responses)
           /\ Wire(full, eof, resp, sent, broken, responses, pos)
<1>1. PICK full, whole, pos :
        /\ Seen(stream, partial, eof, torn, responses, full, whole)
        /\ Wire(full, eof, resp, sent, broken, whole, pos)
  BY DEF WireInv
<1>2. partial # NoLine
  <2>1. NextLine = partial /\ Len(partial.text) >= 2
    BY DEF Line, NextLine
  <2>2. Len(<<>>) = 0 /\ ~(0 >= 2)
    OBVIOUS
  <2> QED BY <2>1, <2>2 DEF NoLine
<1>3. full \in Seq(Items) /\ Len(full) = 1 /\ partial \in PiecesOf(full[1])
  <2>1. Len(stream) = 0 /\ full \in Seq(Items) /\ 0 + 1 = 1
    BY <1>1 DEF Seen, Continued
  <2> QED BY <1>1, <1>2, <2>1 DEF Seen, Continued
<1>4. full # <<>> /\ full[1] \in Items /\ Tail(full) = <<>>
  <2>1. full # <<>> /\ 1 \in 1..Len(full)
    BY <1>3, EmptySeq
  <2>2. PICK rest \in Seq(Items) : rest = Tail(full) /\ Len(rest) = 1 - 1
    BY <1>3, <2>1, HeadTailProperties
  <2>3. rest = <<>>
    BY <2>2, EmptySeq
  <2> QED BY <1>3, <2>1, <2>2, <2>3
<1>5. torn = FALSE /\ whole = responses /\ eof
  BY <1>1, <1>2, <1>4 DEF Seen
<1>6. IsSequence(responses) /\ full[1].text \in Seq(Chars)
  BY <1>1, <1>4, <1>5 DEF Wire, Items
<1> QED BY <1>1, <1>3, <1>4, <1>5, <1>6

\* The response that a torn line completes is the one that the line as it was
\* written would, but for the end of the reply.
LEMMA TornRead ==
  ASSUME WireInv, ReadTorn
  PROVE  \E full, pos, t, s :
           /\ full # <<>> /\ Tail(full) = <<>> /\ t = full[1].text /\ torn = FALSE /\ eof
           /\ Wire(full, eof, resp, sent, broken, responses, pos)
           /\ WellFormedLine(t, resp) /\ t[2] = SP
           /\ s = Completed(resp, t[1], SubSeq(t, 3, Len(t)), full[1].msg)
           /\ Complete.code = s.code /\ Complete.data = s.data /\ Complete.from = s.from
           /\ Complete.reply \in BeginningsOf(s.reply)
           /\ partial # NoLine /\ partial.msg = full[1].msg
<1>0. WellFormed /\ stream = <<>> /\ Len(Line) >= 2 /\ Line[2] = SP /\ Line = partial.text
  BY DEF ReadTorn, WellFormed, SP, Line, NextLine
<1>1. PICK full, pos :
        /\ full # <<>> /\ Tail(full) = <<>> /\ full[1].text \in Seq(Chars)
        /\ partial \in PiecesOf(full[1]) /\ torn = FALSE /\ eof /\ IsSequence(responses)
        /\ Wire(full, eof, resp, sent, broken, responses, pos)
  BY <1>0, PieceSeen
<1>2. PICK t, u, m : t = full[1].text /\ u = Line /\ m = full[1].msg /\ t \in Seq(Chars)
  BY <1>1
<1>3. PICK k \in 1..(Len(t) + 1) : u = SubSeq(t \o <<CR>>, 1, k) /\ partial.msg = m
  BY <1>0, <1>1, <1>2 DEF PiecesOf
<1>4. /\ Len(t) >= 2 /\ u[1] = t[1] /\ t[2] = SP
      /\ SubSeq(u, 3, Len(u)) \in BeginningsOf(SubSeq(t, 3, Len(t)))
  <2>1. Len(u) >= 2 /\ u[2] = SP
    BY <1>0, <1>2
  <2> QED BY <1>2, <1>3, <2>1, PieceRead
<1>5. WellFormedLine(t, resp)
  <2>1. u[1] \in Codes /\ (resp = None \/ resp.code = u[1])
    BY <1>0, <1>2 DEF WellFormed
  <2> QED BY <1>4, <2>1 DEF WellFormedLine
<1>6. PICK s : s = Completed(resp, t[1], SubSeq(t, 3, Len(t)), m)
  OBVIOUS
<1>7. PICK reply, c : /\ reply = SubSeq(u, 3, Len(u)) /\ c = Completed(resp, t[1], reply, m)
                      /\ c = Complete
  <2>1. NextLine = partial /\ Line = u /\ Rest = SubSeq(u, 3, Len(u))
    BY <1>0, <1>2 DEF NextLine, Rest
  <2> QED BY <1>3, <1>4, <2>1, Zenon DEF Complete, Completed
<1>8. /\ c.code = s.code /\ c.data = s.data /\ c.from = s.from
      /\ c.reply \in BeginningsOf(s.reply)
  <2>1. PICK msg, p : InMessage(msg, m, p, resp)
    BY <1>1, <1>2, Heading
  <2>2. PICK code, longer : code = t[1] /\ longer = SubSeq(t, 3, Len(t))
    OBVIOUS
  <2>3. Completed(resp, code, reply, m) =
          [code |-> code, data |-> resp.data, reply |-> reply, from |-> {m}]
    BY <2>1, CompletedIs
  <2>4. Completed(resp, code, longer, m) =
          [code |-> code, data |-> resp.data, reply |-> longer, from |-> {m}]
    BY <2>1, CompletedIs
  <2>5. /\ c = [code |-> code, data |-> resp.data, reply |-> reply, from |-> {m}]
        /\ s = [code |-> code, data |-> resp.data, reply |-> longer, from |-> {m}]
    BY <1>6, <1>7, <2>2, <2>3, <2>4, Zenon
  <2>6. reply \in BeginningsOf(longer)
    BY <1>4, <1>7, <2>2
  <2> QED BY <2>5, <2>6
<1>9. partial # NoLine
  <2>1. Len(partial.text) >= 2 /\ Len(<<>>) = 0 /\ ~(0 >= 2)
    BY <1>0
  <2> QED BY <2>1 DEF NoLine
<1>10. s = Completed(resp, t[1], SubSeq(t, 3, Len(t)), full[1].msg)
  BY <1>2, <1>6, Zenon
<1> QED BY <1>1, <1>2, <1>3, <1>4, <1>5, <1>7, <1>8, <1>9, <1>10, Zenon

LEMMA TornKeepsWire ==
  ASSUME WireInv, ReadTorn, UNCHANGED <<eof, sent>>, responses' = Append(responses, Complete)
  PROVE  WireInv'
<1>1. PICK full, pos, t, s :
        /\ full # <<>> /\ Tail(full) = <<>> /\ t = full[1].text /\ torn = FALSE /\ eof
        /\ Wire(full, eof, resp, sent, broken, responses, pos)
        /\ WellFormedLine(t, resp) /\ t[2] = SP
        /\ s = Completed(resp, t[1], SubSeq(t, 3, Len(t)), full[1].msg)
        /\ Complete.code = s.code /\ Complete.data = s.data /\ Complete.from = s.from
        /\ Complete.reply \in BeginningsOf(s.reply)
        /\ partial # NoLine /\ partial.msg = full[1].msg
  BY TornRead, Zenon
<1>2. PICK more, c, cut : /\ more = Append(responses, s) /\ c = Complete
                          /\ cut = Append(responses, c)
  OBVIOUS
<1>3. PICK q : Wire(<<>>, eof, None, sent, broken, more, q)
  <2>1. \E q : Wire(Tail(full), eof, None, sent, broken, more, q)
    BY <1>1, <1>2, LastRead
  <2> QED BY <1>1, <2>1, Zenon
<1>4. ReplyCut(cut, more)
  <2>0. IsSequence(responses)
    BY <1>1 DEF Wire
  <2>1. PICK l \in Nat : l = Len(responses)
    BY <2>0, SequenceDomain
  <2>2. /\ IsSequence(cut) /\ Len(cut) = l + 1 /\ cut[l + 1] = c
        /\ \A i \in 1..l : cut[i] = responses[i]
    BY <1>2, <2>0, <2>1, AppendToSequence
  <2>3. /\ Len(more) = l + 1 /\ more[l + 1] = s
        /\ \A i \in 1..l : more[i] = responses[i]
    BY <1>2, <2>0, <2>1, AppendToSequence
  <2>4. \A i \in 1..(l + 1) : i # l + 1 => i \in 1..l
    OBVIOUS
  <2>5. \A i \in 1..(l + 1) : i # l + 1 => cut[i] = more[i]
    BY <2>2, <2>3, <2>4
  <2>6. l + 1 # 0
    OBVIOUS
  <2>7. /\ c.code = s.code /\ c.data = s.data /\ c.from = s.from
        /\ c.reply \in BeginningsOf(s.reply)
    BY <1>1, <1>2
  <2> QED BY <2>2, <2>3, <2>5, <2>6, <2>7 DEF ReplyCut
<1>5. Seen(<<>>, NoLine, TRUE, TRUE, cut, <<>>, more)
  <2>1. Continued(<<>>, NoLine, <<>>)
    BY DEF Continued
  <2> QED BY <1>4, <2>1 DEF Seen
<1>6. Wire(<<>>, TRUE, None, sent, broken, more, q)
  BY <1>1, <1>3 DEF Wire, Framing, Placed
<1>7. /\ resp' = None /\ stream' = <<>> /\ partial' = NoLine /\ torn' = TRUE
      /\ UNCHANGED <<broken, eof, sent>> /\ responses' = cut
  BY <1>2 DEF ReadTorn
<1>8. Seen(stream', partial', eof', torn', responses', <<>>, more)
  <2>1. Seen(<<>>, NoLine, eof, TRUE, cut, <<>>, more)
    BY <1>1, <1>5 DEF Seen
  <2> QED BY <1>7, <2>1
<1> QED BY <1>3, <1>7, <1>8, Zenon DEF WireInv

----------------------------------------------------------------------------
(* The inductive invariant *)

SessionOK ==
  /\ session \in Sessions
  /\ eof \in BOOLEAN /\ broken \in BOOLEAN /\ torn \in BOOLEAN /\ answered \in BOOLEAN
  /\ phase \in {"idle", "waiting"}
  /\ call \in 0..Len(session.calls) /\ emitted \in 0..Len(session.events)
  /\ phase = "waiting" => call >= 1 /\ line = Command(Request(call))
  /\ IsSequence(results) /\ Len(results) = IF phase = "waiting" THEN call - 1 ELSE call
  /\ IsSequence(responses) /\ IsSequence(events) /\ Len(events) <= Len(responses)
  /\ resp = None \/ resp.code \in Codes

Inv == SessionOK /\ ConfOK /\ WireInv

LEMMA InitInv == Init => Inv
<1> SUFFICES ASSUME Init PROVE Inv
  OBVIOUS
<1>1. /\ Len(session.calls) \in Nat /\ Len(session.events) \in Nat
  BY SessionsAre DEF Init
<1>2. IsSequence(<<>>) /\ Len(<<>>) = 0
  <2>1. <<>> \in Seq({}) /\ Len(<<>>) = 0
    OBVIOUS
  <2> QED BY <2>1 DEF IsSequence
<1>3. SessionOK
  <2>1. /\ session \in Sessions /\ eof = FALSE /\ broken = FALSE /\ torn = FALSE
        /\ answered = FALSE
        /\ phase = "idle" /\ call = 0 /\ emitted = 0 /\ resp = None
        /\ results = <<>> /\ responses = <<>> /\ events = <<>>
    BY DEF Init
  <2>2. call \in 0..Len(session.calls) /\ emitted \in 0..Len(session.events)
    BY <1>1, <2>1
  <2>3. /\ IsSequence(results) /\ Len(results) = IF phase = "waiting" THEN call - 1 ELSE call
        /\ IsSequence(responses) /\ IsSequence(events)
    BY <1>2, <2>1
  <2>4. Len(events) <= Len(responses)
    BY <2>1
  <2> QED BY <2>1, <2>2, <2>3, <2>4 DEF SessionOK
<1>4. ConfOK
  <2>1. Default \in ConfValues
    BY DEF Default, ConfValues, Texts
  <2> QED BY <2>1 DEF Init, ConfOK
<1>5. WireInv
  <2>1. PICK pos : pos = [i \in 1..0 |-> 0]
    OBVIOUS
  <2>2. Placed(<<>>, <<>>, FALSE, pos)
    BY <2>1 DEF Placed
  <2>3. Framing(<<>>, FALSE, None, <<>>, <<>>, pos)
    BY DEF Framing
  <2>4. Wire(<<>>, FALSE, None, <<>>, FALSE, <<>>, pos)
    <3>1. <<>> \in Seq(WireMessages) /\ <<>> \in Seq(Items)
      OBVIOUS
    <3>2. Singles(<<>>)
      BY DEF Singles
    <3> QED BY <1>2, <2>2, <2>3, <3>1, <3>2, Zenon DEF Wire
  <2>5. Seen(<<>>, NoLine, FALSE, FALSE, <<>>, <<>>, <<>>)
    <3>1. Continued(<<>>, NoLine, <<>>)
      BY DEF Continued
    <3> QED BY <3>1 DEF Seen
  <2>6. stream = <<>> /\ partial = NoLine /\ eof = FALSE /\ resp = None /\ sent = <<>>
        /\ broken = FALSE /\ torn = FALSE /\ responses = <<>>
    BY DEF Init
  <2> QED BY <2>4, <2>5, <2>6, Zenon DEF WireInv
<1> QED BY <1>3, <1>4, <1>5 DEF Inv

\* What Tor answers is a message, and its configuration stays one.
LEMMA AnswerIsMessage ==
  ASSUME Inv, TorAnswers
  PROVE  ConfOK' /\ \E msg \in WireMessages : Write(msg)
<1>1. /\ IsRequest(Request(call)) /\ session.calls[call].answer \in WireMessages
      /\ line = Command(Request(call))
  <2>1. phase = "waiting" /\ session \in Sessions
    BY DEF TorAnswers, Inv, SessionOK
  <2>2. call \in 1..Len(session.calls)
    BY <2>1, SessionsAre DEF Inv, SessionOK
  <2> QED BY <2>1, <2>2, SessionsAre DEF Inv, SessionOK, Request
<1>2. PICK r : r = Request(call)
  OBVIOUS
<1>3. CASE r.op = "SetConf"
  <2>1. line = sendSetConf("SETCONF", r.entries)
    BY <1>1, <1>2, <1>3, Zenon DEF Command
  <2>2. r.entries \in Seq([key : Keys, val : Seq(STRING), valSetAndEmpty : BOOLEAN])
    BY <1>1, <1>2, <1>3 DEF IsRequest
  <2>3. line \in Texts
    BY <2>1, <2>2, SetConfLine
  <2>4. PICK msg : /\ msg = [code |-> StatusOk, data |-> <<>>, reply |-> <<"OK">>, bad |-> "none"]
                   /\ Write(msg) /\ conf' = TorSetConf(line)
    BY <1>2, <1>3 DEF TorAnswers
  <2>5. msg \in WireMessages
    <3>1. StatusOk # "299" /\ StatusOk \in Codes /\ "none" \in BadLines
      BY InLineIsInChars DEF StatusOk, BadLines
    <3>2. <<"OK">> \in Seq(Chars) /\ <<>> \in Seq(Entries(Chars))
      BY InLineIsInChars
    <3> QED BY <2>4, <3>1, <3>2, SomeMessage
  <2>6. conf' \in [Keys -> ConfValues]
    BY <2>3, <2>4, TorSetConfOK DEF Inv
  <2> QED BY <2>4, <2>5, <2>6 DEF ConfOK
<1>4. CASE r.op = "GetConf"
  <2>1. Len(r.keys) = 1 /\ r.keys \in Seq(Keys)
    BY <1>1, <1>2, <1>4 DEF IsRequest
  <2>2. line = Words(<< <<"GETCONF">> >> \o r.keys)
    BY <1>1, <1>2, <1>4 DEF Command
  <2>3. PICK key \in Keys : PartitionString(line, SP).tail = key
    <3>1. r.keys[1] \in Keys
      BY <2>1
    <3> QED BY <2>1, <2>2, <3>1, GetConfLine
  <2>4. PICK msg \in TorGetConf(key) : Write(msg) /\ conf' = conf
    BY <1>2, <1>4, <2>3 DEF TorAnswers
  <2>5. msg \in WireMessages
    BY TorGetConfIsMessage DEF Inv
  <2> QED BY <2>4, <2>5 DEF Inv, ConfOK
<1>5. CASE r.op # "SetConf" /\ r.op # "GetConf"
  <2>1. Write(session.calls[call].answer) /\ conf' = conf
    BY <1>2, <1>5 DEF TorAnswers
  <2> QED BY <1>1, <2>1 DEF Inv, ConfOK
<1> QED BY <1>3, <1>4, <1>5

LEMMA InvNext ==
  ASSUME Inv, [Next]_vars
  PROVE  Inv'
<1> USE DEF Inv
<1>1. Len(session.calls) \in Nat /\ Len(session.events) \in Nat
  BY SessionsAre DEF SessionOK
<1>2. Len(results) \in Nat /\ Len(responses) \in Nat /\ Len(events) \in Nat
  BY SequenceDomain DEF SessionOK
<1>3. ASSUME stream # <<>>, WellFormed
      PROVE  Line[1] \in Codes
  BY <1>3 DEF WellFormed
<1>4. CASE TorEmits
  <2>1. PICK msg : msg = EventMessage(session.events[emitted + 1]) /\ Write(msg)
    BY <1>4 DEF TorEmits
  <2>2. emitted + 1 \in 1..Len(session.events) /\ emitted' = emitted + 1
    BY <1>1, <1>4 DEF TorEmits, SessionOK
  <2>3. msg \in WireMessages
    BY <2>1, <2>2, SessionsAre DEF SessionOK
  <2>4. WireInv'
    BY <1>4, <2>1, <2>3, WriteKeepsWire DEF SessionOK, TorEmits
  <2>5. SessionOK'
    BY <1>1, <1>4, <2>2 DEF TorEmits, SessionOK, session_vars, Request
  <2>6. ConfOK'
    BY <1>4 DEF TorEmits, ConfOK
  <2> QED BY <2>4, <2>5, <2>6
<1>5. CASE TorAnswers
  <2>1. ConfOK' /\ WireInv'
    BY <1>5, AnswerIsMessage, WriteKeepsWire DEF SessionOK, TorAnswers
  <2>2. SessionOK'
    BY <1>5 DEF TorAnswers, SessionOK, Request
  <2> QED BY <2>1, <2>2
<1>6. CASE Cut
  <2>1. WireInv'
    BY <1>6, CutKeepsWire DEF SessionOK
  <2>2. SessionOK' /\ ConfOK'
    BY <1>6 DEF Cut, SessionOK, ConfOK, session_vars, Request
  <2> QED BY <2>1, <2>2
<1>7. CASE SendCommand
  <2>1. WireInv'
    BY <1>7 DEF SendCommand, WireInv
  <2>2. call' = call + 1 /\ call + 1 \in 1..Len(session.calls) /\ call + 1 >= 1
        /\ (call + 1) - 1 = call
    BY <1>1, <1>7 DEF SendCommand, SessionOK
  <2>3. SessionOK'
    <3>1. /\ phase' = "waiting" /\ answered' = FALSE /\ line' = Command(Request(call + 1))
          /\ UNCHANGED <<session, eof, broken, torn, emitted, resp, results, responses, events>>
      BY <1>7 DEF SendCommand
    <3>2. line' = Command(Request(call))' /\ call' >= 1 /\ call' \in 0..Len(session'.calls)
      BY <1>1, <2>2, <3>1 DEF Request
    <3>3. phase = "idle" /\ Len(results) = call
      BY <1>7 DEF SendCommand, SessionOK
    <3>4. Len(results') = IF phase' = "waiting" THEN call' - 1 ELSE call'
      BY <2>2, <3>1, <3>3
    <3> QED BY <3>1, <3>2, <3>4 DEF SessionOK
  <2>4. ConfOK'
    BY <1>7 DEF SendCommand, ConfOK
  <2> QED BY <2>1, <2>3, <2>4
<1>8. CASE ReadData
  <2>1. WireInv'
    BY <1>8, MidKeepsWire, DotKeepsWire DEF ReadData
  <2>2. resp'.code \in Codes
    <3>1. ASSUME NEW text, NEW n, resp' = Added(text, n), stream # <<>>, WellFormed
          PROVE  resp'.code \in Codes
      <4>1. resp'.code = Line[1]
        BY <2>1, <3>1 DEF Added
      <4> QED BY <1>3, <3>1, <4>1
    <3> QED BY <1>8, <3>1 DEF ReadData, ReadMid, ReadDot
  <2>3. UNCHANGED <<broken, torn>>
    BY <1>8 DEF ReadData, ReadMid, ReadDot
  <2>4. SessionOK' /\ ConfOK'
    BY <1>8, <2>2, <2>3 DEF ReadData, SessionOK, ConfOK, session_vars, Request
  <2> QED BY <2>1, <2>4
<1>9. CASE RelayEvent
  <2>1. WireInv'
    BY <1>9, LastKeepsWire, TornKeepsWire DEF RelayEvent, ReadReply
  <2>2. resp' = None /\ broken' = broken /\ torn' \in BOOLEAN
    BY <1>9 DEF RelayEvent, ReadReply, ReadLast, ReadTorn, SessionOK
  <2>3. /\ IsSequence(responses') /\ Len(responses') = Len(responses) + 1
        /\ IsSequence(events') /\ Len(events') = Len(events) + 1
    BY <1>9, AppendToSequence DEF RelayEvent, SessionOK
  <2>4. Len(events') <= Len(responses')
    BY <1>2, <2>3 DEF SessionOK
  <2>5. SessionOK' /\ ConfOK'
    BY <1>9, <2>2, <2>3, <2>4 DEF RelayEvent, SessionOK, ConfOK, session_vars, Request
  <2> QED BY <2>1, <2>5
<1>10. ASSUME NEW result, phase = "waiting", Returns(result)
       PROVE  /\ phase' = "idle" /\ IsSequence(results') /\ Len(results') = call
              /\ UNCHANGED <<session, eof, sent, call, answered, emitted, conf, events>>
  <2>1. IsSequence(results') /\ Len(results') = Len(results) + 1
    BY <1>10, AppendToSequence DEF Returns, SessionOK
  <2>2. Len(results) + 1 = call
    BY <1>1, <1>10 DEF SessionOK
  <2> QED BY <1>10, <2>1, <2>2 DEF Returns
<1>11. CASE ReturnResponse
  <2>1. WireInv'
    BY <1>11, LastKeepsWire, TornKeepsWire DEF ReturnResponse, ReadReply, Returns
  <2>2. resp' = None /\ broken' = broken /\ torn' \in BOOLEAN
    BY <1>11 DEF ReturnResponse, ReadReply, ReadLast, ReadTorn, SessionOK
  <2>3. IsSequence(responses') /\ Len(responses') = Len(responses) + 1
    BY <1>11, AppendToSequence DEF ReturnResponse, SessionOK
  <2>4. PICK result : phase = "waiting" /\ Returns(result)
    BY <1>11 DEF ReturnResponse
  <2>5. Len(events) <= Len(responses')
    BY <1>2, <2>3 DEF SessionOK
  <2>6. SessionOK' /\ ConfOK'
    BY <1>10, <2>2, <2>3, <2>4, <2>5 DEF SessionOK, ConfOK
  <2> QED BY <2>1, <2>6
<1>12. CASE ReturnError
  <2>1. PICK result : phase = "waiting" /\ Returns(result)
    BY <1>12 DEF ReturnError
  <2>2. UNCHANGED <<session, eof, sent, call, answered, emitted, conf, events>>
    BY <1>10, <2>1
  <2>3. WireInv'
    BY <1>12, <2>2, ErrorKeepsWire, EOFKeepsWire DEF ReturnError, SessionOK
  <2>4. resp' = None /\ broken' \in BOOLEAN /\ torn' \in BOOLEAN
    BY <1>12 DEF ReturnError, ReadError, ReadEOF, SessionOK
  <2>5. UNCHANGED responses
    BY <1>12 DEF ReturnError
  <2>6. SessionOK' /\ ConfOK'
    BY <1>10, <2>1, <2>4, <2>5 DEF SessionOK, ConfOK
  <2> QED BY <2>3, <2>6
<1>13. CASE HandlerFails
  <2>1. WireInv'
    BY <1>13, ErrorKeepsWire, EOFKeepsWire DEF HandlerFails, SessionOK
  <2>2. resp' = None /\ broken' \in BOOLEAN /\ torn' \in BOOLEAN
    BY <1>13 DEF HandlerFails, ReadError, ReadEOF, SessionOK
  <2>3. SessionOK' /\ ConfOK'
    BY <1>13, <2>2 DEF HandlerFails, SessionOK, ConfOK, session_vars, Request
  <2> QED BY <2>1, <2>3
<1>14. CASE RefuseRequest
  <2>1. /\ phase = "idle" /\ phase' = "idle" /\ call' = call + 1
        /\ results' = Append(results, Refusal)
        /\ UNCHANGED <<session, stream, partial, eof, resp, sent, broken, torn, answered, emitted,
                       conf, responses, events>>
    BY <1>14 DEF RefuseRequest
  <2>2. call' \in 0..Len(session'.calls)
    BY <1>1, <1>14, <2>1 DEF RefuseRequest, SessionOK
  <2>3. IsSequence(results') /\ Len(results') = call'
    BY <2>1, AppendToSequence DEF SessionOK
  <2>4. SessionOK' /\ ConfOK'
    BY <2>1, <2>2, <2>3 DEF SessionOK, ConfOK
  <2>5. WireInv'
    BY <2>1 DEF WireInv
  <2> QED BY <2>4, <2>5
<1>15. CASE UNCHANGED vars
  BY <1>15 DEF vars, SessionOK, ConfOK, WireInv, Request
<1> QED BY <1>4, <1>5, <1>6, <1>7, <1>8, <1>9, <1>11, <1>12, <1>13, <1>14, <1>15 DEF Next

LEMMA Invariance == Spec => []Inv
<1>1. Init => Inv
  BY InitInv
<1>2. Inv /\ [Next]_vars => Inv'
  BY InvNext
<1> QED BY <1>1, <1>2, PTL DEF Spec

----------------------------------------------------------------------------
(* The theorems *)

LEMMA InvTypeOK == Inv => TypeOK
<1> SUFFICES ASSUME Inv PROVE TypeOK
  OBVIOUS
<1>1. PICK full, whole, pos :
        /\ Seen(stream, partial, eof, torn, responses, full, whole)
        /\ Wire(full, eof, resp, sent, broken, whole, pos)
  BY DEF Inv, WireInv
<1>2. Continued(stream, partial, full)
  BY <1>1 DEF Seen
<1>3. full \in Seq(Items) /\ \A i \in 1..Len(full) : full[i].msg \in 1..Len(sent)
  BY <1>1 DEF Wire, Placed
<1>4. \A i \in DOMAIN stream : stream[i].msg \in 1..Len(sent)
  <2>1. stream \in Seq(Items) /\ DOMAIN stream = 1..Len(stream) /\ Len(stream) <= Len(full)
    BY <1>2 DEF Continued
  <2>2. \A i \in 1..Len(stream) : full[i] = stream[i] /\ i \in 1..Len(full)
    BY <1>2, <2>1 DEF Continued
  <2> QED BY <1>3, <2>1, <2>2
<1>5. partial # NoLine => eof /\ partial.msg \in 1..Len(sent)
  <2> SUFFICES ASSUME partial # NoLine
               PROVE  eof /\ partial.msg \in 1..Len(sent)
    OBVIOUS
  <2>1. eof
    BY <1>1 DEF Seen
  <2>2. PICK l : l = Len(full)
    OBVIOUS
  <2>3. partial \in PiecesOf(full[l]) /\ l = Len(stream) + 1 /\ stream \in Seq(Items)
    BY <1>2, <2>2 DEF Continued
  <2>4. l \in 1..Len(full)
    BY <2>2, <2>3
  <2>5. partial.msg = full[l].msg
    BY <2>3 DEF PiecesOf
  <2> QED BY <1>3, <2>1, <2>4, <2>5
<1>6. Len(results) \in {call, call - 1}
  BY DEF Inv, SessionOK
<1> QED BY <1>4, <1>5, <1>6 DEF Inv, SessionOK, TypeOK

LEMMA InvNoMix == Inv => NoMix
<1> SUFFICES ASSUME Inv, NEW i \in DOMAIN responses
             PROVE  Cardinality(responses[i].from) = 1
  BY DEF NoMix
<1>1. PICK full, whole, pos :
        /\ Seen(stream, partial, eof, torn, responses, full, whole)
        /\ Wire(full, eof, resp, sent, broken, whole, pos)
  BY DEF Inv, WireInv
<1>2. i \in 1..Len(responses)
  BY SequenceDomain DEF Inv, SessionOK
<1>3. Len(whole) = Len(responses) /\ whole[i].from = responses[i].from
  BY <1>1, <1>2 DEF Seen, ReplyCut
<1>4. PICK m : responses[i].from = {m}
  BY <1>1, <1>2, <1>3 DEF Wire, Singles
<1> QED BY <1>4, FS_Singleton

LEMMA InvFramed == Inv => Framed
<1> SUFFICES ASSUME Inv, ~broken, NEW i \in DOMAIN responses
             PROVE  \/ ContentOf(responses[i]) = Meaning(sent[i])
                    \/ /\ torn /\ i = Len(responses)
                       /\ \E reply \in BeginningsOf(sent[i].reply) :
                            ContentOf(responses[i]) = [Meaning(sent[i]) EXCEPT !.reply = reply]
  BY DEF Framed
<1>1. PICK full, whole, pos :
        /\ Seen(stream, partial, eof, torn, responses, full, whole)
        /\ Wire(full, eof, resp, sent, broken, whole, pos)
  BY DEF Inv, WireInv
<1>2. i \in 1..Len(responses)
  BY SequenceDomain DEF Inv, SessionOK
<1>3. Len(whole) = Len(responses)
  BY <1>1 DEF Seen, ReplyCut
<1>4. ContentOf(whole[i]) = Meaning(sent[i])
  BY <1>1, <1>2, <1>3 DEF Wire, Framing
<1>5. CASE responses[i] = whole[i]
  BY <1>4, <1>5
<1>6. CASE responses[i] # whole[i]
  <2>1. ReplyCut(responses, whole) /\ torn /\ i = Len(responses)
    BY <1>1, <1>2, <1>6 DEF Seen, ReplyCut
  <2>2. PICK reply : /\ reply = responses[i].reply /\ reply \in BeginningsOf(whole[i].reply)
                     /\ responses[i].code = whole[i].code /\ responses[i].data = whole[i].data
    BY <2>1 DEF ReplyCut
  <2>3. PICK code, data, longer :
          Meaning(sent[i]) = [code |-> code, reply |-> longer, data |-> data]
          /\ longer = sent[i].reply
    BY DEF Meaning
  <2>4. whole[i].code = code /\ whole[i].data = data /\ whole[i].reply = longer
    BY <1>4, <2>3 DEF ContentOf
  <2>5. ContentOf(responses[i]) = [code |-> code, reply |-> reply, data |-> data]
    BY <2>2, <2>4 DEF ContentOf
  <2>6. [Meaning(sent[i]) EXCEPT !.reply = reply] = [code |-> code, reply |-> reply, data |-> data]
    BY <2>3
  <2>7. reply \in BeginningsOf(sent[i].reply)
    BY <2>2, <2>3, <2>4
  <2> QED BY <2>1, <2>5, <2>6, <2>7
<1> QED BY <1>5, <1>6

\* The variables of a session keep their types and bounds: no call is answered
\* twice, every response has a status code (response.go:53-107).
THEOREM TypeCorrect == Spec => []TypeOK
BY Invariance, InvTypeOK, PTL

\* No response has lines of two messages, even after a protocol error has left
\* the rest of a message unread (response.go:65-76).
THEOREM NoMixing == Spec => []NoMix
BY Invariance, InvNoMix, PTL

\* Up to a protocol error ReadResponse returns the messages Tor wrote, each
\* once and in order, whatever the texts, the payloads and the events between
\* the answers are: whole, but for the last one when the connection has ended
\* within its last line, which is returned without the end of its reply
\* (response.go:53-85).
THEOREM FramesRight == Spec => []Framed
BY Invariance, InvFramed, PTL
=============================================================================
