---------------------------- MODULE ControlWire ----------------------------
(***************************************************************************)
(* A session on the control connection: commands are written, Tor answers  *)
(* and emits events, lines are read and decoded.  It composes the framing  *)
(* (ControlReply), the commands (ControlCommands) and the events           *)
(* (EventDecode).  One goroutine calls, another handles events when no call*)
(* is under way: who reads when is ControlConn's subject.                  *)
(***************************************************************************)
EXTENDS ControlReply, ControlCommands, EventDecode

CONSTANT Sessions

(* A session: calls, each a request and what Tor answers (a message, or    *)
(* none when Tor answers from its configuration), the events Tor emits, and*)
(* whether the connection may end.                                         *)
VARIABLES session, call, phase, line, answered, emitted, conf, responses,
          events, results

session_vars == <<call, phase, line, answered, results>>
vars == <<stream, partial, eof, resp, sent, broken, torn, session, call, phase, line, answered,
          emitted, conf, responses, events, results>>

Keys == {<<"Nick">>, <<"Info">>}

\* SETCONF and GETCONF name one key.  A value that is set and empty is empty
\* (keyval.go:13).
IsRequest(r) ==
  CASE r.op = "SetConf" ->
         /\ Len(r.entries) = 1
         /\ r.entries \in Seq([key : Keys, val : Seq(STRING), valSetAndEmpty : BOOLEAN])
         /\ r.entries[1].valSetAndEmpty => r.entries[1].val = <<>>
    [] r.op = "GetConf" -> Len(r.keys) = 1 /\ r.keys \in Seq(Keys)
    [] OTHER -> TRUE

\* A line has no line break in it.
InLine == STRING \ {CR, LF}

IsEvent(e) ==
  /\ e.code \in InLine /\ e.bad \in BadLines /\ e.words \in Seq(Seq(InLine))
  /\ e.attrs \in Seq([key : InLine, val : Seq(InLine)])
  /\ e.style \in {"line", "body", "lines"}
  /\ e.body \in Seq(Seq(InLine)) /\ (e.body = <<>> \/ e.body[Len(e.body)] # <<>>)

ASSUME SessionAssumption ==
  \A s \in Sessions :
    /\ s.calls \in Seq(Range(s.calls)) /\ s.events \in Seq(Range(s.events))
    /\ s.cut \in BOOLEAN
    /\ \A c \in Range(s.calls) : IsRequest(c.request) /\ c.answer \in Messages(InLine)
    /\ \A e \in Range(s.events) : IsEvent(e)

\* Tor keeps the protocol in the sessions that touch its configuration: after
\* a protocol error an answer may be taken for that of a later call.
ASSUME ConfAssumption ==
  \A s \in Sessions :
    (\E c \in Range(s.calls) : c.request.op \in {"SetConf", "GetConf"}) =>
      /\ \A c \in Range(s.calls) : c.answer.bad = "none"
      /\ \A e \in Range(s.events) : e.bad = "none"

Default == [valSetAndEmpty |-> FALSE, val |-> <<>>]

Init ==
  /\ session \in Sessions
  /\ stream = <<>> /\ partial = NoLine /\ eof = FALSE /\ resp = None /\ sent = <<>>
  /\ broken = FALSE /\ torn = FALSE
  /\ call = 0 /\ phase = "idle" /\ line = <<>> /\ answered = FALSE
  /\ emitted = 0 /\ conf = [k \in Keys |-> Default]
  /\ responses = <<>> /\ events = <<>> /\ results = <<>>

Request(n) == session.calls[n].request

----------------------------------------------------------------------------
(* Tor *)

\* An event as Tor writes it: its words and attributes on the last line, or
\* before a dot-encoded body, or a line each.
EventMessage(e) ==
  LET words == << <<e.code>> >> \o e.words
               \o [i \in DOMAIN e.attrs |-> <<e.attrs[i].key, "=">> \o e.attrs[i].val]
      entry(text, lines) == [text |-> text, lines |-> lines]
      message(data, reply) ==
        [code |-> StatusAsyncEvent, data |-> data, reply |-> reply, bad |-> e.bad]
  IN CASE e.style = "line" -> message(<<>>, Words(words))
       [] e.style = "body" -> message(<<entry(Words(words), e.body)>>, <<"OK">>)
       [] e.style = "lines" ->
            message([i \in DOMAIN words |-> entry(words[i], <<>>)], <<"OK">>)

TorEmits ==
  /\ emitted < Len(session.events)
  /\ emitted' = emitted + 1
  /\ Write(EventMessage(session.events[emitted + 1]))
  /\ UNCHANGED <<session_vars, session, partial, eof, resp, broken, torn, conf, responses,
                 events>>

\* Tor reads a value: quoted, with escapes, or as it stands.
TorUnescape(str) ==
  FlattenSeq([i \in DOMAIN str |->
    LET before == {j \in 1..(i - 1) : \A k \in j..(i - 1) : str[k] = Backslash}
        escaped == Cardinality(before) % 2 = 1
    IN CASE escaped -> <<CASE str[i] = "r" -> CR [] str[i] = "n" -> LF [] OTHER -> str[i]>>
         [] ~escaped /\ str[i] = Backslash -> <<>>
         [] OTHER -> <<str[i]>>])

TorValue(str) ==
  IF str # <<>> /\ str[1] = Quote
  THEN TorUnescape(SubSeq(str, 2, Len(str) - 1)) ELSE str

\* SETCONF with one entry, the command's second word.
TorSetConf(str) ==
  LET entry == PartitionString(PartitionString(str, SP).tail, "=")
  IN [conf EXCEPT ![entry.head] =
        [valSetAndEmpty |-> entry.ok /\ TorValue(entry.tail) = <<>>,
         val |-> TorValue(entry.tail)]]

\* GETCONF: a value is quoted when it must be, or when Tor likes.
TorGetConf(key) ==
  LET val == conf[key].val
      text(quoted) ==
        CASE val = <<>> /\ ~conf[key].valSetAndEmpty -> key
          [] OTHER -> key \o <<"=">> \o (IF quoted THEN EscapeSimpleQuotedString(val) ELSE val)
  IN {[code |-> StatusOk, data |-> <<>>, reply |-> text(quoted), bad |-> "none"] :
        quoted \in {q \in BOOLEAN : q \/ Range(val) \cap Escapes = {}}}

TorAnswers ==
  /\ phase = "waiting" /\ ~answered
  /\ answered' = TRUE
  /\ CASE Request(call).op = "SetConf" ->
            /\ conf' = TorSetConf(line)
            /\ Write([code |-> StatusOk, data |-> <<>>, reply |-> <<"OK">>, bad |-> "none"])
       [] Request(call).op = "GetConf" ->
            /\ \E msg \in TorGetConf(PartitionString(line, SP).tail) : Write(msg)
            /\ UNCHANGED conf
       [] OTHER -> Write(session.calls[call].answer) /\ UNCHANGED conf
  /\ UNCHANGED <<session, partial, eof, resp, broken, torn, call, phase, line, emitted,
                 responses, events, results>>

\* The connection ends, behind any of the lines that were written or within the
\* next one.
Cut ==
  /\ session.cut /\ ~eof
  /\ eof' = TRUE
  /\ \E n \in 0..Len(stream) :
       /\ stream' = SubSeq(stream, 1, n)
       /\ \/ partial' = NoLine
          \/ n < Len(stream) /\ partial' \in PiecesOf(stream[n + 1])
  /\ UNCHANGED <<session_vars, session, resp, sent, broken, torn, emitted, conf, responses,
                 events>>

----------------------------------------------------------------------------
(* SendRequest and the handler of events *)

SendCommand ==
  /\ phase = "idle" /\ resp = None /\ call < Len(session.calls)
  /\ ~Refused(Request(call + 1))
  /\ call' = call + 1 /\ phase' = "waiting" /\ answered' = FALSE
  /\ line' = Command(Request(call + 1))
  /\ UNCHANGED <<session, stream, partial, eof, resp, sent, broken, torn, emitted, conf,
                 responses, events, results>>

\* The method refuses the request: nothing is written.
RefuseRequest ==
  /\ phase = "idle" /\ call < Len(session.calls)
  /\ Refused(Request(call + 1))
  /\ call' = call + 1
  /\ results' = Append(results, Refusal)
  /\ UNCHANGED <<session, stream, partial, eof, resp, sent, broken, torn, phase, line, answered,
                 emitted, conf, responses, events>>

\* A caller reads what comes; the handler begins with an event only.
MayRead ==
  phase = "waiting" \/ resp # None \/ (Line # <<>> /\ Line[1] = StatusAsyncEvent)

ReadData ==
  /\ MayRead
  /\ ReadMid \/ ReadDot
  /\ UNCHANGED <<session_vars, session, eof, sent, emitted, conf, responses, events>>

\* The last line of a response, or what has come of it.
ReadReply == ReadLast \/ ReadTorn

\* The response is an event: it is relayed, and the reading goes on.
RelayEvent ==
  /\ MayRead /\ ReadReply /\ IsAsync(Complete)
  /\ responses' = Append(responses, Complete)
  /\ events' = Append(events, relayAsyncEvents(Complete))
  /\ UNCHANGED <<session_vars, session, eof, sent, emitted, conf>>

Returns(result) ==
  /\ results' = Append(results, result)
  /\ phase' = "idle"
  /\ UNCHANGED <<session, eof, sent, call, line, answered, emitted, conf, events>>

\* The response is the caller's: its error, or what the method makes of it.
ReturnResponse ==
  /\ phase = "waiting" /\ ReadReply /\ ~IsAsync(Complete)
  /\ responses' = Append(responses, Complete)
  /\ Returns(IF IsOk(Complete) THEN Result(Request(call), Complete)
             ELSE [err |-> "status", val |-> statusCodeToError(Complete.code, Complete.reply)])

\* The call returns the error of ReadResponse.
ReturnError ==
  /\ phase = "waiting"
  /\ ReadError \/ ReadEOF
  /\ Returns([err |-> "read", val |-> <<>>])
  /\ UNCHANGED responses

\* The handler ends with the error; only an event's reading gets here.
HandlerFails ==
  /\ phase = "idle" /\ MayRead
  /\ ReadError \/ ReadEOF
  /\ UNCHANGED <<session_vars, session, eof, sent, emitted, conf, responses, events>>

Next ==
  \/ TorEmits \/ TorAnswers \/ Cut \/ SendCommand \/ RefuseRequest \/ ReadData
  \/ RelayEvent \/ ReturnResponse \/ ReturnError \/ HandlerFails

Spec == Init /\ [][Next]_vars

----------------------------------------------------------------------------
(* Properties *)

TypeOK ==
  /\ session \in Sessions
  /\ eof \in BOOLEAN /\ broken \in BOOLEAN /\ torn \in BOOLEAN /\ answered \in BOOLEAN
  /\ phase \in {"idle", "waiting"}
  /\ call \in 0..Len(session.calls) /\ emitted \in 0..Len(session.events)
  /\ \A i \in DOMAIN stream : stream[i].msg \in 1..Len(sent)
  /\ partial # NoLine => eof /\ partial.msg \in 1..Len(sent)
  /\ resp = None \/ resp.code \in Codes
  /\ Len(results) \in {call, call - 1}
  /\ Len(events) <= Len(responses)

\* The data of a message as a response has it (response.go:19-21).
Meaning(msg) ==
  [code |-> msg.code, reply |-> msg.reply,
   data |-> [i \in DOMAIN msg.data |->
               IF msg.data[i].lines = <<>> THEN msg.data[i].text
               ELSE msg.data[i].text \o <<CR, LF>> \o Join(msg.data[i].lines, LF)]]

\* No read has returned a protocol error or taken a torn line for a whole one.
Intact == ~broken /\ ~torn

\* What the response says.
ContentOf(r) == [code |-> r.code, reply |-> r.reply, data |-> r.data]

\* What of a reply is there when the connection ends within it.
BeginningsOf(reply) == {SubSeq(reply \o <<CR>>, 1, n) : n \in 0..(Len(reply) + 1)}

\* Up to a protocol error ReadResponse returns the messages Tor wrote, each
\* once, whole and in order, whoever reads (response.go:53).  When the
\* connection ends within the last line of one (torn), that one is returned
\* without the end of its reply, and nothing after it (response.go:58).
Framed ==
  ~broken =>
    \A i \in DOMAIN responses :
      \/ ContentOf(responses[i]) = Meaning(sent[i])
      \/ /\ torn /\ i = Len(responses)
         /\ \E reply \in BeginningsOf(sent[i].reply) :
              ContentOf(responses[i]) = [Meaning(sent[i]) EXCEPT !.reply = reply]

\* No response mixes lines of two messages, not even after a protocol error
\* has left the rest of a message unread (response.go:65-76).
NoMix == \A i \in DOMAIN responses : Cardinality(responses[i].from) = 1

\* Printf garbles a % (conn.go:59).
NoPercent(val) == "%" \notin Range(val)

Store ==
  INSTANCE ConfStore WITH
    Nil <- Default, Kept <- NoPercent, store <- conf,
    request <- IF call = 0 THEN [op |-> "none"] ELSE Request(call),
    waiting <- phase = "waiting", effective <- answered

\* SetConf and GetConf make a map of Tor's configuration, whatever the values
\* have in them (but a %), nil and empty ones included, and whatever else is
\* on the connection (cmd_conf.go:19-26, 38-49).  Of an answer within which the
\* connection ends, GetConf returns anything, without an error.
ConfKept == Store!Spec

\* A method returns what Tor answered: keys and values as Tor has them, Tor's
\* error, or an error for an answer that cannot be decoded.
ResultRight ==
  \A i \in DOMAIN results :
    Intact /\ results[i].err # "read" /\ session.calls[i].means # <<>>
      => results[i] = session.calls[i].means

Calls == UNION {{s.calls[n] : n \in DOMAIN s.calls} : s \in Sessions}

\* How Tor knows the commands.
Keyword ==
  [SetConf |-> "SETCONF", ResetConf |-> "RESETCONF", GetConf |-> "GETCONF", GetInfo |-> "GETINFO",
   MapAddresses |-> "MAPADDRESS", ExtendCircuit |-> "EXTENDCIRCUIT", AddOnion |-> "ADD_ONION",
   DelOnion |-> "DEL_ONION", ProtocolInfo |-> "PROTOCOLINFO", Signal |-> "SIGNAL",
   UseFeatures |-> "USEFEATURE", Quit |-> "QUIT", TakeOwnership |-> "TAKEOWNERSHIP",
   DropGuards |-> "DROPGUARDS", SaveConf |-> "SAVECONF", LoadConf |-> "+LOADCONF",
   PostDescriptor |-> "+POSTDESCRIPTOR", ResolveAsync |-> "RESOLVE",
   SetCircuitPurpose |-> "SETCIRCUITPURPOSE", CloseCircuit |-> "CLOSECIRCUIT",
   AttachStream |-> "ATTACHSTREAM", RedirectStream |-> "REDIRECTSTREAM",
   CloseStream |-> "CLOSESTREAM", HSFetch |-> "HSFETCH", HSPost |-> "+HSPOST"]

FirstWord(str) == PartitionString(PartitionString(str, CR).head, SP).head

\* What is written begins with the command's keyword, and is not what another
\* request that means something else would write (cmd_*.go).  A descriptor that
\* is posted with an address is excepted: no space comes before the address,
\* "+HSPOSTHSADDRESS=" is no command (cmd_hiddenservice.go:18-20).
Understood ==
  LET r == Request(call)
  IN phase = "waiting" /\ ~answered /\ ~(r.op = "HSPost" /\ r.address # <<>>) =>
       /\ FirstWord(line) = <<Keyword[r.op]>>
       /\ \A c \in Calls :
            Command(c.request) = line =>
              \/ c.request = r
              \/ c.same # "" /\ c.same = session.calls[call].same

\* Fields in which the parser loses what Tor sends (cmd_event.go): a time in
\* quotes has a space, and ends there (619-627, 749-751); the second word of
\* BUILDTIMEOUT_SET, which has the total, is skipped (809); a path is what
\* follows its first "=" (447-448, 916-917); and InboundTime is put where
\* OutboundTime belongs (1063).
Lossy ==
  [CIRC |-> {"Path"}, CIRC_MINOR |-> {"Path"}, ADDRMAP |-> {"Expires"},
   CLIENTS_SEEN |-> {"TimeStarted"}, BUILDTIMEOUT_SET |-> {"TotalTimes"},
   CELL_STATS |-> {"InboundTime", "OutboundTime"}]
LossyFields(code) == IF code \in DOMAIN Lossy THEN Lossy[code] ELSE {}

\* An event has its code, and in every field what Tor said of it, or nothing
\* when it said nothing, but in the lossy ones (cmd_event.go:335-339).
EventKept ==
  Intact =>
    \A i \in DOMAIN events :
      LET said == session.events[i]
          event == events[i].event
      IN /\ events[i].code = <<said.code>>
         /\ DOMAIN said.means \subseteq DOMAIN event
         /\ \A f \in DOMAIN event \ LossyFields(said.code) :
              IF f \in DOMAIN said.means THEN event[f] = said.means[f]
              ELSE f = "Raw" \/ event[f] = Zero

\* An attribute of a newer Tor, which no parser knows.
NewAttribute == "NEW_ATTRIBUTE"
Known(e) == {a \in Range(e.attrs) : a.key # NewAttribute}
Alike(d, e) == d.code = e.code /\ d.words = e.words /\ Known(d) = Known(e)

\* The order of the attributes, and attributes of a newer Tor among them, do
\* not matter (cmd_event.go:335-339).
AttributesCommute ==
  Intact =>
    \A i, j \in DOMAIN events :
      Alike(session.events[i], session.events[j]) =>
        \A f \in DOMAIN events[i].event \ {"Raw"} :
          events[i].event[f] = events[j].event[f]

----------------------------------------------------------------------------
(* Tor keeps to the protocol: what the theorems about events assume of the *)
(* sessions.                                                               *)

\* Only events have the code of events.
RepliesAreNoEvents ==
  \A s \in Sessions : \A n \in DOMAIN s.calls : s.calls[n].answer.code # StatusAsyncEvent

\* The code of an event is one word, and a body behind nothing else has no
\* space, which would be taken for the one behind the code.
EventsReadable ==
  \A s \in Sessions : \A n \in DOMAIN s.events :
    LET e == s.events[n]
    IN /\ e.code # SP
       /\ e.style = "body" /\ e.words = <<>> /\ e.attrs = <<>> =>
            \A i \in DOMAIN e.body : SP \notin Range(e.body[i])

\* How many words come before the attributes of the events that have any.
PositionalWords ==
  [CIRC |-> 2, CIRC_MINOR |-> 2, STREAM |-> 4, ORCONN |-> 2, ADDRMAP |-> 3,
   STATUS_CLIENT |-> 2, STATUS_GENERAL |-> 2, STATUS_SERVER |-> 2, CLIENTS_SEEN |-> 1,
   BUILDTIMEOUT_SET |-> 2, CONN_BW |-> 0, CIRC_BW |-> 0, CELL_STATS |-> 0,
   TB_EMPTY |-> 1, HS_DESC |-> 4]

\* A line of words and attributes. No field is set twice, which the two times
\* of CELL_STATS would do; a circuit has a path before attributes that are not
\* a circuit's (the first of them would be taken for it); and STATUS events
\* keep every attribute, new ones too.
AttributeLine(e) ==
  LET keys == {e.attrs[i].key : i \in DOMAIN e.attrs}
  IN /\ e.style = "line" /\ e.code \in DOMAIN PositionalWords
     /\ Len(e.words) >= PositionalWords[e.code] /\ Len(e.words) + Len(e.attrs) > 0
     /\ \A i \in DOMAIN e.words : SP \notin Range(e.words[i])
     /\ \A i \in DOMAIN e.attrs : SP \notin Range(e.attrs[i].val)
     /\ \A i, j \in DOMAIN e.attrs : e.attrs[i].key = e.attrs[j].key => i = j
     /\ keys \cap {SP, "="} = {} /\ ~({"InboundTime", "OutboundTime"} \subseteq keys)
     /\ e.code \in {"CIRC", "CIRC_MINOR"} /\ Len(e.words) = 2 => keys \subseteq DOMAIN CircuitAttrs
     /\ e.code \in {"STATUS_CLIENT", "STATUS_GENERAL", "STATUS_SERVER"} => NewAttribute \notin keys

\* Events that differ only in their attributes are such lines.
AttributeLines ==
  \A s \in Sessions : \A i, j \in DOMAIN s.events :
    Alike(s.events[i], s.events[j]) =>
      \/ s.events[i] = s.events[j]
      \/ AttributeLine(s.events[i]) /\ AttributeLine(s.events[j])
=============================================================================
