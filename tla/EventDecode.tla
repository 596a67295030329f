---------------------------- MODULE EventDecode ----------------------------
(***************************************************************************)
(* What relayAsyncEvents and ParseEvent make of an asynchronous event      *)
(* (control/cmd_event.go 13-112 and 269-1218).                             *)
(*                                                                         *)
(* Every parser takes the words of a line in turn: first the positional    *)
(* ones, then KEY=value attributes in any order.  A rule <<field, form>>   *)
(* says where a word or a value goes and how it is converted; a parser is  *)
(* its rules.  Zero is the zero value of every type of field.              *)
(***************************************************************************)
EXTENDS Text

Zero == <<>>

recognizedEventCodes ==
  {"ADDRMAP", "BW", "BUILDTIMEOUT_SET", "CELL_STATS", "CIRC", "CIRC_BW",
   "CIRC_MINOR", "CLIENTS_SEEN", "CONF_CHANGED", "CONN_BW", "DESCCHANGED",
   "GUARD", "HS_DESC", "HS_DESC_CONTENT", "DEBUG", "ERR", "INFO", "NOTICE",
   "WARN", "NETWORK_LIVENESS", "NS", "NEWCONSENSUS", "NEWDESC", "ORCONN",
   "SIGNAL", "STATUS_CLIENT", "STATUS_GENERAL", "STATUS_SERVER", "STREAM",
   "STREAM_BW", "TB_EMPTY", "TRANSPORT_LAUNCHED"}

----------------------------------------------------------------------------
(* Conversions, which give Zero for what they cannot read *)

Numbers == {"7", "8", "9"}
Atoi(str) == IF Len(str) = 1 /\ str[1] \in Numbers THEN str ELSE Zero

\* A date and a clock around a space, or around a T: then one word.
ISOTime == <<"date", SP, "clock">>
ISOTime2Frac == <<"dateTclock">>

parseISOTime(str) == IF str = ISOTime THEN str ELSE Zero
parseISOTime2Frac(str) == IF str = ISOTime2Frac THEN str ELSE Zero

\* The maps of CLIENTS_SEEN and CELL_STATS: a later entry replaces an earlier.
toIntMap(str, ch) ==
  LET entry(i) == PartitionString(Split(str, ",")[i], ch)
      all == DOMAIN Split(str, ",")
      last(key) == CHOOSE i \in all : /\ entry(i).head = key
                                      /\ \A j \in all : entry(j).head = key => j <= i
  IN [key \in {entry(i).head : i \in all} |-> Atoi(entry(last(key)).tail)]

Convert(form, str) ==
  CASE form = "text" -> str
    [] form = "number" -> Atoi(str)
    [] form = "list" -> Split(str, ",")
    [] form = "counts" -> toIntMap(str, ":")
    [] form = "summary" -> toIntMap(str, "=")
    [] form = "time" -> parseISOTime2Frac(str)
    [] form = "quoted time" -> parseISOTime2Frac(UnescapeSimpleQuotedString(str).val)
    [] form = "quoted date" -> parseISOTime(UnescapeSimpleQuotedString(str).val)
    [] form = "maybe quoted" -> UnescapeSimpleQuotedStringIfNeeded(str).val

PortOf == [TargetAddress |-> "TargetPort", SourceAddress |-> "SourcePort"]

\* The event with a word or value put where its rule says.
Set(event, rule, str) ==
  LET target == PartitionStringFromEnd(str, ":")
  IN CASE rule[2] = "skip" -> event
       [] rule[2] = "address" /\ target.ok ->
            [event EXCEPT ![rule[1]] = target.head, ![PortOf[rule[1]]] = Atoi(target.tail)]
       [] rule[2] = "address" /\ ~target.ok -> [event EXCEPT ![rule[1]] = str]
       [] OTHER -> [event EXCEPT ![rule[1]] = Convert(rule[2], str)]

\* The fields of both, those of the first where both have them.
Merge(first, second) ==
  [f \in DOMAIN first \cup DOMAIN second |-> IF f \in DOMAIN first THEN first[f] ELSE second[f]]

----------------------------------------------------------------------------
(* The loop over the attributes *)

\* Mutant of Attribute: only the first one is looked at.
AttributeFirst(attrs, other, event, n, str) ==
  LET kv == PartitionString(str, "=")
  IN IF n = 1 /\ kv.head \in {<<key>> : key \in DOMAIN attrs}
     THEN Set(event, attrs[kv.head[1]], kv.tail) ELSE event

\* The n-th attribute: set what its key says; otherwise it may be the path
\* (CIRC), the descriptor's ID (HS_DESC), an argument (STATUS), or nothing.
Attribute(attrs, other, event, n, str) ==
  LET kv == PartitionString(str, "=")
  IN IF kv.head \in {<<key>> : key \in DOMAIN attrs}
     THEN Set(event, attrs[kv.head[1]], kv.tail)
     ELSE CASE other = "path" /\ n = 1 -> [event EXCEPT !.Path = Split(kv.tail, ",")]
            [] other = "id" /\ n = 1 /\ ~kv.ok -> [event EXCEPT !.DescID = str]
            [] other = "arguments" ->
                 [event EXCEPT !.Arguments =
                    Merge([key \in {kv.head} |-> Convert("maybe quoted", kv.tail)], @)]
            [] OTHER -> event

OtherField == [path |-> {"Path"}, id |-> {"DescID"}, arguments |-> {"Arguments"},
               none |-> {}]

Fields(words, attrs, other) ==
  LET rules == Range(words) \cup {attrs[key] : key \in DOMAIN attrs}
      named == {r[1] : r \in {q \in rules : q[2] # "skip"}}
  IN named \cup {PortOf[f] : f \in named \cap DOMAIN PortOf} \cup OtherField[other]

\* Mutant of Positional: the first attribute is taken for a positional word.
PositionalOff(parts, n) == SubSeq(parts, n + 2, Len(parts))

\* The attributes follow the n positional words.
Positional(parts, n) == SubSeq(parts, n + 1, Len(parts))

Parse(raw, words, attrs, other) ==
  LET parts == Split(raw, SP)
      word(i) == IF i <= Len(parts) THEN parts[i] ELSE Zero
      rest == Positional(parts, Len(words))
      empty == [f \in Fields(words, attrs, other) |-> Zero]
      after[i \in 0..Len(words)] ==
        IF i = 0 THEN empty ELSE Set(after[i - 1], words[i], word(i))
      done[n \in 0..Len(rest)] ==
        IF n = 0 THEN after[Len(words)]
        ELSE Attribute(attrs, other, done[n - 1], n, rest[n])
  IN Merge([Raw |-> raw], done[Len(rest)])

NoAttrs == [x \in {} |-> <<>>]

----------------------------------------------------------------------------
(* The parsers *)

\* Attributes that CIRC and CIRC_MINOR share.
CircuitAttrs ==
  [BUILD_FLAGS |-> <<"BuildFlags", "list">>, PURPOSE |-> <<"Purpose", "text">>,
   HS_STATE |-> <<"HSState", "text">>, REND_QUERY |-> <<"RendQuery", "text">>,
   TIME_CREATED |-> <<"TimeCreated", "time">>]

CircuitEventAttrs ==
  Merge(CircuitAttrs,
        [REASON |-> <<"Reason", "text">>, REMOTE_REASON |-> <<"RemoteReason", "text">>,
         SOCKS_USERNAME |-> <<"SocksUsername", "text">>,
         SOCKS_PASSWORD |-> <<"SocksPassword", "text">>])

ParseCircuitEvent(raw) ==
  Parse(raw, << <<"CircuitID", "text">>, <<"Status", "text">> >>, CircuitEventAttrs, "path")

CircuitMinorAttrs ==
  Merge(CircuitAttrs,
        [OLD_PURPOSE |-> <<"OldPurpose", "text">>,
         OLD_HS_STATE |-> <<"OldHSState", "text">>])

ParseCircuitMinorEvent(raw) ==
  Parse(raw, << <<"CircuitID", "text">>, <<"Event", "text">> >>, CircuitMinorAttrs, "path")

StreamAttrs ==
  [REASON |-> <<"Reason", "text">>, REMOTE_REASON |-> <<"RemoteReason", "text">>,
   SOURCE |-> <<"Source", "text">>, SOURCE_ADDR |-> <<"SourceAddress", "address">>,
   PURPOSE |-> <<"Purpose", "text">>]

ParseStreamEvent(raw) ==
  Parse(raw, << <<"StreamID", "text">>, <<"Status", "text">>, <<"CircuitID", "text">>,
                <<"TargetAddress", "address">> >>, StreamAttrs, "none")

ORConnAttrs ==
  [REASON |-> <<"Reason", "text">>, NCIRCS |-> <<"NumCircuits", "number">>,
   ID |-> <<"ConnID", "text">>]

ParseORConnEvent(raw) ==
  Parse(raw, << <<"Target", "text">>, <<"Status", "text">> >>, ORConnAttrs, "none")

ParseBandwidthEvent(raw) ==
  Parse(raw, << <<"BytesRead", "number">>, <<"BytesWritten", "number">> >>, NoAttrs, "none")

ParseLogEvent(severity, raw) == [Severity |-> severity, Raw |-> raw]

ParseNewDescEvent(raw) == [Raw |-> raw, Descs |-> Split(raw, SP)]

AddrMapAttrs ==
  [error |-> <<"ErrorCode", "text">>, EXPIRES |-> <<"Expires", "quoted date">>,
   CACHED |-> <<"Cached", "maybe quoted">>]

\* The local expiry is skipped.
ParseAddrMapEvent(raw) ==
  Parse(raw, << <<"Address", "text">>, <<"NewAddress", "text">>, <<"", "skip">> >>,
        AddrMapAttrs, "none")

ParseStatusEvent(typ, raw) ==
  Merge([Type |-> typ],
        Parse(raw, << <<"Severity", "text">>, <<"Action", "text">> >>, NoAttrs, "arguments"))

ParseGuardEvent(raw) ==
  Parse(raw, << <<"Type", "text">>, <<"Name", "text">>, <<"Status", "text">> >>, NoAttrs, "none")

ParseStreamBandwidthEvent(raw) ==
  Parse(raw, << <<"BytesRead", "number">>, <<"BytesWritten", "number">>,
                <<"Time", "quoted time">> >>, NoAttrs, "none")

ClientsSeenAttrs ==
  [CountrySummary |-> <<"CountrySummary", "summary">>,
   IPVersions |-> <<"IPVersions", "summary">>]

ParseClientsSeenEvent(raw) ==
  Parse(raw, << <<"TimeStarted", "quoted date">> >>, ClientsSeenAttrs, "none")

BuildTimeoutSetAttrs ==
  [TOTAL_TIMES |-> <<"TotalTimes", "number">>, TIMEOUT_MS |-> <<"Timeout", "number">>,
   XM |-> <<"Xm", "number">>, ALPHA |-> <<"Alpha", "number">>,
   CUTOFF_QUANTILE |-> <<"Quantile", "number">>,
   TIMEOUT_RATE |-> <<"TimeoutRate", "number">>,
   CLOSE_MS |-> <<"CloseTimeout", "number">>,
   CLOSE_RATE |-> <<"CloseRate", "number">>]

\* The second word, which Tor sends as TOTAL_TIMES=, is skipped.
ParseBuildTimeoutSetEvent(raw) ==
  Parse(raw, << <<"Type", "text">>, <<"", "skip">> >>, BuildTimeoutSetAttrs, "none")

ParseTransportLaunchedEvent(raw) ==
  Parse(raw, << <<"Type", "text">>, <<"Name", "text">>, <<"Address", "text">>,
                <<"Port", "number">> >>, NoAttrs, "none")

ConnBandwidthAttrs ==
  [ID |-> <<"ConnID", "text">>, TYPE |-> <<"ConnType", "text">>,
   READ |-> <<"BytesRead", "number">>, WRITTEN |-> <<"BytesWritten", "number">>]

ParseConnBandwidthEvent(raw) ==
  Parse(raw, << >>, ConnBandwidthAttrs, "none")

CircuitBandwidthAttrs ==
  [ID |-> <<"CircuitID", "text">>, READ |-> <<"BytesRead", "number">>,
   WRITTEN |-> <<"BytesWritten", "number">>, TIME |-> <<"Time", "time">>]

ParseCircuitBandwidthEvent(raw) ==
  Parse(raw, << >>, CircuitBandwidthAttrs, "none")

\* InboundTime goes where OutboundTime does: no value reaches that field.
CellStatsAttrs ==
  [ID |-> <<"CircuitID", "text">>, InboundQueue |-> <<"InboundQueueID", "text">>,
   InboundConn |-> <<"InboundConnID", "text">>,
   InboundAdded |-> <<"InboundAdded", "counts">>,
   InboundRemoved |-> <<"InboundRemoved", "counts">>,
   InboundTime |-> <<"OutboundTime", "counts">>,
   OutboundQueue |-> <<"OutboundQueueID", "text">>,
   OutboundConn |-> <<"OutboundConnID", "text">>,
   OutboundAdded |-> <<"OutboundAdded", "counts">>,
   OutboundRemoved |-> <<"OutboundRemoved", "counts">>,
   OutboundTime |-> <<"OutboundTime", "counts">>]

ParseCellStatsEvent(raw) ==
  Merge([InboundTime |-> Zero], Parse(raw, << >>, CellStatsAttrs, "none"))

TokenBucketEmptyAttrs ==
  [ID |-> <<"ConnID", "text">>, READ |-> <<"ReadBucketEmpty", "number">>,
   WRITTEN |-> <<"WriteBucketEmpty", "number">>, LAST |-> <<"LastRefil", "number">>]

ParseTokenBucketEmptyEvent(raw) ==
  Parse(raw, << <<"BucketName", "text">> >>, TokenBucketEmptyAttrs, "none")

HSDescAttrs ==
  [REASON |-> <<"Reason", "text">>, REPLICA |-> <<"Replica", "number">>,
   HSDIR_INDEX |-> <<"HSDirIndex", "text">>]

ParseHSDescEvent(raw) ==
  Parse(raw, << <<"Action", "text">>, <<"Address", "text">>, <<"AuthType", "text">>,
                <<"HSDir", "text">> >>, HSDescAttrs, "id")

\* The descriptor follows the first line break.
ParseHSDescContentEvent(raw) ==
  LET address == PartitionString(raw, SP)
      id == PartitionString(address.tail, SP)
      line == PartitionString(id.tail, CR)
  IN [Raw |-> raw, Address |-> address.head, DescID |-> id.head,
      HSDir |-> IF line.ok THEN line.head ELSE Zero,
      Descriptor |-> IF line.ok THEN Tail(line.tail) ELSE Zero]

\* SIGNAL, NS, NEWCONSENSUS, DESCCHANGED and NETWORK_LIVENESS keep the line.
ParseRawEvent(raw) == [Raw |-> raw]

\* The lines of a CONF_CHANGED are kept as they are.
ParseConfChangedEvent(lines) == [Raw |-> lines]

ParseUnrecognizedEvent(code, raw, lines) ==
  [EventCode |-> <<code>>, RawSingleLine |-> raw, RawMultiLine |-> lines]

ParseEvent(code, raw, lines) ==
  CASE code = "ADDRMAP" -> ParseAddrMapEvent(raw)
    [] code = "BW" -> ParseBandwidthEvent(raw)
    [] code = "BUILDTIMEOUT_SET" -> ParseBuildTimeoutSetEvent(raw)
    [] code = "CELL_STATS" -> ParseCellStatsEvent(raw)
    [] code = "CIRC" -> ParseCircuitEvent(raw)
    [] code = "CIRC_BW" -> ParseCircuitBandwidthEvent(raw)
    [] code = "CIRC_MINOR" -> ParseCircuitMinorEvent(raw)
    [] code = "CLIENTS_SEEN" -> ParseClientsSeenEvent(raw)
    [] code = "CONF_CHANGED" -> ParseConfChangedEvent(lines)
    [] code = "CONN_BW" -> ParseConnBandwidthEvent(raw)
    [] code = "GUARD" -> ParseGuardEvent(raw)
    [] code = "HS_DESC" -> ParseHSDescEvent(raw)
    [] code = "HS_DESC_CONTENT" -> ParseHSDescContentEvent(raw)
    [] code \in {"DEBUG", "ERR", "INFO", "NOTICE", "WARN"} -> ParseLogEvent(code, raw)
    [] code = "NEWDESC" -> ParseNewDescEvent(raw)
    [] code = "ORCONN" -> ParseORConnEvent(raw)
    [] code \in {"STATUS_CLIENT", "STATUS_GENERAL", "STATUS_SERVER"} ->
         ParseStatusEvent(code, raw)
    [] code = "STREAM" -> ParseStreamEvent(raw)
    [] code = "STREAM_BW" -> ParseStreamBandwidthEvent(raw)
    [] code = "TB_EMPTY" -> ParseTokenBucketEmptyEvent(raw)
    [] code = "TRANSPORT_LAUNCHED" -> ParseTransportLaunchedEvent(raw)
    [] code \in {"SIGNAL", "NS", "NEWCONSENSUS", "DESCCHANGED", "NETWORK_LIVENESS"} ->
         ParseRawEvent(raw)
    [] OTHER -> ParseUnrecognizedEvent(code, raw, lines)

----------------------------------------------------------------------------
(* relayAsyncEvents: which event a response is *)

\* With one data line the code ends at its first space, else at its first line
\* break; with several the first line is the code; with none the reply has it.
SplitEvent(resp) ==
  LET space == PartitionString(resp.data[1], SP)
      line == PartitionString(resp.data[1], CR)
      reply == PartitionString(resp.reply, SP)
  IN CASE Len(resp.data) = 1 /\ space.ok ->
            [code |-> space.head, data |-> space.tail, lines |-> <<>>]
       [] Len(resp.data) = 1 /\ ~space.ok /\ line.ok ->
            [code |-> line.head, data |-> Tail(line.tail), lines |-> <<>>]
       [] Len(resp.data) = 1 /\ ~space.ok /\ ~line.ok ->
            [code |-> resp.data[1], data |-> <<>>, lines |-> <<>>]
       [] Len(resp.data) > 1 ->
            [code |-> resp.data[1], data |-> <<>>, lines |-> Tail(resp.data)]
       [] Len(resp.data) = 0 ->
            [code |-> reply.head, data |-> reply.tail, lines |-> <<>>]

\* A code of several tokens is none that is known.
relayAsyncEvents(resp) ==
  LET event == SplitEvent(resp)
      code == IF Len(event.code) = 1 THEN event.code[1] ELSE "unknown"
  IN [code |-> event.code, event |-> ParseEvent(code, event.data, event.lines)]
=============================================================================
