---------------------------- MODULE ControlReply ----------------------------
(***************************************************************************)
(* How lines become responses: Conn.ReadResponse (control/response.go) over*)
(* what Tor writes on the control connection.  Lines are texts; the lines  *)
(* of a message are written at once, those of two never mixed.  A message  *)
(* may have one line that no Tor should write (bad).  The connection may   *)
(* end within a line: ReadLine returns what has come of it as a line.  Only*)
(* whole tokens come, for half a text reads as another text does.          *)
(***************************************************************************)
EXTENDS Text

VARIABLES
  stream,    \* lines written and not read, each with its message's number
  partial,   \* what has come of the line that the connection's end tore
  eof,       \* Tor writes no more
  resp,      \* the response being read, or None
  sent,      \* history: the messages written
  broken,    \* history: a read has returned a protocol error
  torn       \* history: a read has taken the torn line for the last of a response

StatusOk == "250"
StatusOkUnnecessary == "251"
StatusAsyncEvent == "650"

statusCodeStringMap ==
  [code \in {"250", "251", "451", "500", "510", "511", "512", "513", "514",
             "515", "550", "551", "552", "553", "554", "555", "650"} |->
     CASE code = "250" -> "OK" [] code = "251" -> "Operation was unnecessary"
       [] code = "451" -> "Resource exhausted"
       [] code = "500" -> "Syntax error: protocol"
       [] code = "510" -> "Unrecognized command"
       [] code = "511" -> "Unimplemented command"
       [] code = "512" -> "Syntax error in command argument"
       [] code = "513" -> "Unrecognized command argument"
       [] code = "514" -> "Authentication required"
       [] code = "515" -> "Bad authentication"
       [] code = "550" -> "Unspecified Tor error" [] code = "551" -> "Internal error"
       [] code = "552" -> "Unrecognized entity"
       [] code = "553" -> "Invalid configuration value"
       [] code = "554" -> "Invalid descriptor" [] code = "555" -> "Unmanaged entity"
       [] code = "650" -> "Asynchronous event notification"]

\* Three digits from 100 on, known or not.
Codes == DOMAIN statusCodeStringMap \cup {"299"}

\* The error of a status: what the code means, and Tor's text without it.
statusCodeToError(code, reply) ==
  IF code \in DOMAIN statusCodeStringMap
  THEN LET msg == statusCodeStringMap[code]
       IN [code |-> code, msg |-> msg,
           reply |-> IF reply # <<>> /\ reply[1] = msg THEN Tail(reply) ELSE reply]
  ELSE [code |-> code, msg |-> "Unknown status code", reply |-> reply]

IsOk(r) == r.code \in {StatusOk, StatusOkUnnecessary, StatusAsyncEvent}
IsAsync(r) == r.code = StatusAsyncEvent
DataWithReply(r) == Append(r.data, r.reply)

----------------------------------------------------------------------------
(* What Tor writes: a message has a code, entries (a text, and lines when  *)
(* it is dot-encoded) and the text of the last line.                       *)

BadLines == {"none", "short", "code", "separator", "changed", "last"}

\* Texts are over a set of tokens.  TrimRight takes the empty lines at the end
\* of an entry, so there are none (response.go:94); a bad line that changes the
\* code has another one.
Entries(Token) ==
  {entry \in [text : Seq(Token), lines : Seq(Seq(Token))] :
     entry.lines = <<>> \/ entry.lines[Len(entry.lines)] # <<>>}
Messages(Token) ==
  {msg \in [code : Codes, data : Seq(Entries(Token)), reply : Seq(Token), bad : BadLines] :
     msg.bad = "changed" => msg.code # "299"}

Dot == <<".">>
Stuffed(line) == IF line # <<>> /\ line[1] = "." THEN <<".">> \o line ELSE line

EntryLines(code, entry) ==
  IF entry.lines = <<>> THEN << <<code, "-">> \o entry.text >>
  ELSE << <<code, "+">> \o entry.text >>
       \o [i \in DOMAIN entry.lines |-> Stuffed(entry.lines[i])] \o <<Dot>>

\* Before the last line, so the first one when there is no data; or instead of
\* the last line.
BadLine(msg) ==
  CASE msg.bad = "short" -> << <<"2">> >>
    [] msg.bad = "code" -> << <<"abc", "-", "x">> >>
    [] msg.bad = "separator" -> << <<msg.code, "*", "x">> >>
    [] msg.bad = "changed" -> << <<"299", "-", "x">> >>
    [] OTHER -> << >>

MessageLines(msg) ==
  FlattenSeq([i \in DOMAIN msg.data |-> EntryLines(msg.code, msg.data[i])])
  \o BadLine(msg)
  \o << IF msg.bad = "last" THEN <<msg.code>> ELSE <<msg.code, " ">> \o msg.reply >>

Write(msg) ==
  /\ ~eof
  /\ sent' = Append(sent, msg)
  /\ stream' = stream \o [i \in DOMAIN MessageLines(msg) |->
                            [text |-> MessageLines(msg)[i], msg |-> Len(sent) + 1]]

----------------------------------------------------------------------------
(* ReadResponse *)

None == [code |-> "", data |-> <<>>, reply |-> <<>>, from |-> {}]

NoLine == [text |-> <<>>, msg |-> 0]

\* What may have come of a line when the connection ends: some of its text,
\* perhaps all of it and half of the line break. A dot without its line break
\* ends no payload, so that it is as good as nothing.
PiecesOf(item) ==
  {[text |-> SubSeq(item.text \o <<CR>>, 1, n), msg |-> item.msg] : n \in 1..(Len(item.text) + 1)}

\* The line that ReadLine returns: the next that was written, and behind all of
\* them what has come of the torn one (bufio.Reader.ReadLine at the end).
NextLine == IF stream = <<>> THEN partial ELSE Head(stream)
Line == NextLine.text

\* Mutant of WellFormed: the code of a first line may be anything.
WellFormedFirst ==
  /\ Len(Line) >= 2
  /\ resp = None \/ resp.code = Line[1]
  /\ Line[2] \in {" ", "-", "+"}

\* The line has a code, the one of the lines before, and a separator.
WellFormed ==
  /\ Len(Line) >= 2
  /\ Line[1] \in Codes
  /\ resp = None \/ resp.code = Line[1]
  /\ Line[2] \in {" ", "-", "+"}

Rest == SubSeq(Line, 3, Len(Line))

\* The response with the line, or a dot-encoded payload, added to it.
Added(text, lines) ==
  [resp EXCEPT !.code = Line[1],
               !.data = Append(@, text),
               !.from = @ \cup {stream[i].msg : i \in 1..lines}]

\* "250-": a line, and more to come.
ReadMid ==
  /\ stream # <<>> /\ WellFormed /\ Line[2] = "-"
  /\ resp' = Added(Rest, 1)
  /\ stream' = Tail(stream)
  /\ UNCHANGED <<partial, broken, torn>>

\* textproto's ReadDotBytes: the lines up to the dot, without their stuffing;
\* strings.TrimRight then takes the line breaks at the end, empty lines too.
DotBody(lines) ==
  LET plain == [i \in DOMAIN lines |-> IF lines[i] # <<>> /\ lines[i][1] = "." THEN Tail(lines[i]) ELSE lines[i]]
      last == {i \in DOMAIN plain : plain[i] # <<>>}
      kept == IF last = {} THEN 0 ELSE CHOOSE i \in last : \A j \in last : j <= i
  IN Join(SubSeq(plain, 1, kept), LF)

\* Mutant of ReadDot: the payload's stuffing is left in.
ReadDotStuffed ==
  /\ stream # <<>> /\ WellFormed /\ Line[2] = "+"
  /\ \E n \in 2..Len(stream) :
       /\ stream[n].text = Dot
       /\ \A i \in 2..(n - 1) : stream[i].text # Dot
       /\ resp' = Added(Rest \o <<CR, LF>> \o
                        Join([i \in 1..(n - 2) |-> stream[i + 1].text], LF), n)
       /\ stream' = SubSeq(stream, n + 1, Len(stream))
  /\ UNCHANGED <<partial, broken, torn>>

\* "250+": the payload up to its dot belongs to the line.
ReadDot ==
  /\ stream # <<>> /\ WellFormed /\ Line[2] = "+"
  /\ \E n \in 2..Len(stream) :
       /\ stream[n].text = Dot
       /\ \A i \in 2..(n - 1) : stream[i].text # Dot
       /\ resp' = Added(Rest \o <<CR, LF>> \o
                        DotBody([i \in 1..(n - 2) |-> stream[i + 1].text]), n)
       /\ stream' = SubSeq(stream, n + 1, Len(stream))
  /\ UNCHANGED <<partial, broken, torn>>

\* The response that the line at hand completes.
Complete ==
  [resp EXCEPT !.code = Line[1], !.reply = Rest, !.from = @ \cup {NextLine.msg}]

\* "250 ": the last line.  The response is returned.
ReadLast ==
  /\ stream # <<>> /\ WellFormed /\ Line[2] = " "
  /\ resp' = None
  /\ stream' = Tail(stream)
  /\ UNCHANGED <<partial, broken, torn>>

\* The last line is torn, and nothing tells: the response is returned, without
\* an error and without the end of its reply (response.go:58, 80-84).
ReadTorn ==
  /\ stream = <<>> /\ WellFormed /\ Line[2] = " "
  /\ resp' = None /\ partial' = NoLine
  /\ torn' = TRUE
  /\ UNCHANGED <<stream, broken>>

\* Mutant of ReadError: the line is skipped and the response goes on.
ReadErrorSkips ==
  /\ stream # <<>> /\ ~WellFormed
  /\ UNCHANGED resp
  /\ stream' = Tail(stream)
  /\ broken' = TRUE
  /\ UNCHANGED <<partial, torn>>

\* A protocol error: the line is gone, the rest of its message is not.
ReadError ==
  /\ stream # <<>> /\ ~WellFormed
  /\ resp' = None
  /\ stream' = Tail(stream)
  /\ broken' = TRUE
  /\ UNCHANGED <<partial, torn>>

\* The end of the input, at the beginning of a response or within it: behind a
\* torn line of its data, or of its payload, there is no other.
ReadEOF ==
  /\ eof
  /\ \/ stream = <<>> /\ ~(WellFormed /\ Line[2] = " ")
     \/ /\ stream # <<>> /\ WellFormed /\ Line[2] = "+"
        /\ \A n \in 2..Len(stream) : stream[n].text # Dot
  /\ resp' = None /\ stream' = <<>> /\ partial' = NoLine
  /\ UNCHANGED <<broken, torn>>
=============================================================================
