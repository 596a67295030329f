-------------------------------- MODULE Text --------------------------------
(***************************************************************************)
(* The strings of the control protocol and the functions of                *)
(* torutil/string.go on them.  A text is a sequence of tokens: a word      *)
(* stands for itself, and each character the code looks at is a token.     *)
(***************************************************************************)
EXTENDS Integers, Sequences, SequencesExt

SP == " "
CR == "CR"
LF == "LF"
Quote == "\""
Backslash == "\\"

Positions(str, ch) == {i \in DOMAIN str : str[i] = ch}

\* The two parts of str around its i-th token, or all of it when i is 0.
PartitionAt(str, i) ==
  IF i = 0 THEN [head |-> str, tail |-> <<>>, ok |-> FALSE]
  ELSE [head |-> SubSeq(str, 1, i - 1), tail |-> SubSeq(str, i + 1, Len(str)),
        ok |-> TRUE]

PartitionString(str, ch) ==
  LET at == Positions(str, ch)
  IN PartitionAt(str, IF at = {} THEN 0 ELSE CHOOSE i \in at : \A j \in at : i <= j)

PartitionStringFromEnd(str, ch) ==
  LET at == Positions(str, ch)
  IN PartitionAt(str, IF at = {} THEN 0 ELSE CHOOSE i \in at : \A j \in at : j <= i)

\* strings.Split: the parts between every two occurrences of ch.
Split(str, ch) ==
  LET from[i \in 1..(Len(str) + 1)] ==
        IF i > Len(str) THEN << <<>> >>
        ELSE IF str[i] = ch THEN << <<>> >> \o from[i + 1]
        ELSE << <<str[i]>> \o Head(from[i + 1]) >> \o Tail(from[i + 1])
  IN from[1]

\* strings.Join.
Join(parts, ch) ==
  FlattenSeq([i \in DOMAIN parts |-> (IF i = 1 THEN <<>> ELSE <<ch>>) \o parts[i]])

----------------------------------------------------------------------------
(* Quoted strings *)

Escapes == {Backslash, Quote, CR, LF}

EscapeSimpleQuotedStringContents(str) ==
  FlattenSeq([i \in DOMAIN str |->
                CASE str[i] = CR -> <<Backslash, "r">>
                  [] str[i] = LF -> <<Backslash, "n">>
                  [] str[i] \in {Backslash, Quote} -> <<Backslash, str[i]>>
                  [] OTHER -> <<str[i]>>])

EscapeSimpleQuotedString(str) ==
  <<Quote>> \o EscapeSimpleQuotedStringContents(str) \o <<Quote>>

EscapeSimpleQuotedStringIfNeeded(str) ==
  IF \E i \in DOMAIN str : str[i] \in Escapes \cup {SP}
  THEN EscapeSimpleQuotedString(str) ELSE str

\* One token of the loop over the contents; err ends it.
UnescapeToken(s, ch) ==
  LET kept(x) == [ret |-> Append(s.ret, x), escaping |-> FALSE, err |-> FALSE]
      wrong == [s EXCEPT !.err = TRUE]
  IN IF s.err THEN s
     ELSE IF s.escaping
     THEN CASE ch \in {Backslash, Quote} -> kept(ch)
            [] ch = "r" -> kept(CR)
            [] ch = "n" -> kept(LF)
            [] OTHER -> wrong
     ELSE CASE ch = Backslash -> [s EXCEPT !.escaping = TRUE]
            [] ch \in {Quote, CR, LF} -> wrong
            [] OTHER -> kept(ch)

\* What is returned with an error is the empty string.
UnescapeSimpleQuotedStringContents(str) ==
  LET end == FoldLeft(UnescapeToken, [ret |-> <<>>, escaping |-> FALSE, err |-> FALSE], str)
  IN IF end.err THEN [val |-> <<>>, err |-> TRUE] ELSE [val |-> end.ret, err |-> FALSE]

Quoted(str) == Len(str) >= 2 /\ str[1] = Quote /\ str[Len(str)] = Quote

UnescapeSimpleQuotedString(str) ==
  IF Quoted(str) THEN UnescapeSimpleQuotedStringContents(SubSeq(str, 2, Len(str) - 1))
  ELSE [val |-> <<>>, err |-> TRUE]

UnescapeSimpleQuotedStringIfNeeded(str) ==
  IF Quoted(str) THEN UnescapeSimpleQuotedString(str) ELSE [val |-> str, err |-> FALSE]
=============================================================================
