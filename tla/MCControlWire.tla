---------------------------- MODULE MCControlWire ----------------------------
(* Sessions of one to three calls and up to three events for TLC. *)
EXTENDS ControlWire

Ok == [code |-> "250", data |-> <<>>, reply |-> <<"OK">>, bad |-> "none"]
Message(code, data, reply) == [code |-> code, data |-> data, reply |-> reply, bad |-> "none"]
Text1(text) == [text |-> text, lines |-> <<>>]
Unsaid == <<>>

Call(request, answer, means) ==
  [request |-> request, answer |-> answer, means |-> means, same |-> ""]
Session(calls, evs) == [calls |-> calls, events |-> evs, cut |-> FALSE]
Entry(key, val) == [key |-> key, val |-> val, valSetAndEmpty |-> FALSE]
Port(key, val) == [key |-> key, val |-> val]

----------------------------------------------------------------------------
(* Events, and what Tor says with them: the control protocol's meaning of   *)
(* each word, by field.                                                     *)

Attr(key, val) == [key |-> key, val |-> val]
Event(code, words, attrs, means) ==
  [code |-> code, words |-> words, attrs |-> attrs, style |-> "line",
   body |-> <<>>, bad |-> "none", means |-> means]

Count == <<"a", ":", "7">>
Counts == <<"a", ":", "7", ",", "b", ":", "8">>
Summary == <<"a", "=", "7", ",", "b", "=", "8">>
Counted == [key \in {<<"a">>, <<"b">>} |-> IF key = <<"a">> THEN <<"7">> ELSE <<"8">>]
Address == <<"host", ":", "7">>

EventsWithAttributes ==
  {Event("CIRC", << <<"1">>, <<"BUILT">>, <<"$a", "=", "n", ",", "$b">> >>,
         << Attr("BUILD_FLAGS", <<"x", ",", "y">>), Attr("TIME_CREATED", ISOTime2Frac),
            Attr("REASON", <<"r">>) >>,
         [CircuitID |-> <<"1">>, Status |-> <<"BUILT">>, BuildFlags |-> << <<"x">>, <<"y">> >>,
          TimeCreated |-> ISOTime2Frac, Reason |-> <<"r">>]),
   Event("CIRC_MINOR", << <<"1">>, <<"PURPOSE_CHANGED">>, <<"$a", "=", "n">> >>,
         << Attr("OLD_PURPOSE", <<"x">>), Attr("HS_STATE", <<"y">>) >>,
         [CircuitID |-> <<"1">>, Event |-> <<"PURPOSE_CHANGED">>, OldPurpose |-> <<"x">>,
          HSState |-> <<"y">>]),
   Event("STREAM", << <<"1">>, <<"NEW">>, <<"0">>, Address >>,
         << Attr("SOURCE_ADDR", Address), Attr("PURPOSE", <<"USER">>) >>,
         [StreamID |-> <<"1">>, Status |-> <<"NEW">>, CircuitID |-> <<"0">>,
          TargetAddress |-> <<"host">>, TargetPort |-> <<"7">>, SourceAddress |-> <<"host">>,
          SourcePort |-> <<"7">>, Purpose |-> <<"USER">>]),
   Event("STREAM", << <<"1">>, <<"NEW">>, <<"0">>, <<"host">> >>,
         << Attr("SOURCE_ADDR", <<"(Tor_internal)">>), Attr("REASON", <<"r">>) >>,
         [StreamID |-> <<"1">>, Status |-> <<"NEW">>, CircuitID |-> <<"0">>,
          TargetAddress |-> <<"host">>, SourceAddress |-> <<"(Tor_internal)">>,
          Reason |-> <<"r">>]),
   Event("ORCONN", << <<"$a">>, <<"CONNECTED">> >>,
         << Attr("NCIRCS", <<"7">>), Attr("ID", <<"8">>) >>,
         [Target |-> <<"$a">>, Status |-> <<"CONNECTED">>, NumCircuits |-> <<"7">>,
          ConnID |-> <<"8">>]),
   Event("ADDRMAP", << <<"a">>, <<"b">>, <<"NEVER">> >>,
         << Attr("error", <<"yes">>), Attr("CACHED", <<Quote, "YES", Quote>>) >>,
         [Address |-> <<"a">>, NewAddress |-> <<"b">>, ErrorCode |-> <<"yes">>,
          Cached |-> <<"YES">>]),
   Event("STATUS_CLIENT", << <<"NOTICE">>, <<"BOOTSTRAP">> >>,
         << Attr("PROGRESS", <<"7">>), Attr("TAG", <<Quote, "t", Quote>>) >>,
         [Type |-> "STATUS_CLIENT", Severity |-> <<"NOTICE">>, Action |-> <<"BOOTSTRAP">>,
          Arguments |-> [key \in {<<"PROGRESS">>, <<"TAG">>} |->
                           IF key = <<"TAG">> THEN <<"t">> ELSE <<"7">>]]),
   Event("CLIENTS_SEEN", << <<"started">> >>,
         << Attr("CountrySummary", Summary), Attr("IPVersions", Summary) >>,
         [CountrySummary |-> Counted, IPVersions |-> Counted]),
   Event("BUILDTIMEOUT_SET", << <<"COMPUTED">>, <<"TOTAL_TIMES", "=", "7">> >>,
         << Attr("TIMEOUT_MS", <<"7">>), Attr("XM", <<"8">>), Attr("CLOSE_MS", <<"9">>) >>,
         [Type |-> <<"COMPUTED">>, Timeout |-> <<"7">>, Xm |-> <<"8">>, CloseTimeout |-> <<"9">>]),
   Event("CONN_BW", << >>,
         << Attr("ID", <<"1">>), Attr("TYPE", <<"OR">>), Attr("READ", <<"7">>) >>,
         [ConnID |-> <<"1">>, ConnType |-> <<"OR">>, BytesRead |-> <<"7">>]),
   Event("CIRC_BW", << >>,
         << Attr("ID", <<"1">>), Attr("READ", <<"7">>), Attr("TIME", ISOTime2Frac) >>,
         [CircuitID |-> <<"1">>, BytesRead |-> <<"7">>, Time |-> ISOTime2Frac]),
   Event("CELL_STATS", << >>,
         << Attr("ID", <<"1">>), Attr("InboundAdded", Counts), Attr("OutboundTime", Counts) >>,
         [CircuitID |-> <<"1">>, InboundAdded |-> Counted]),
   Event("TB_EMPTY", << <<"ORCONN">> >>,
         << Attr("ID", <<"1">>), Attr("LAST", <<"7">>) >>,
         [BucketName |-> <<"ORCONN">>, ConnID |-> <<"1">>, LastRefil |-> <<"7">>]),
   Event("HS_DESC", << <<"UPLOADED">>, <<"addr">>, <<"NO_AUTH">>, <<"dir">>, <<"id">> >>,
         << Attr("REASON", <<"r">>), Attr("REPLICA", <<"7">>) >>,
         [Action |-> <<"UPLOADED">>, Address |-> <<"addr">>, AuthType |-> <<"NO_AUTH">>,
          HSDir |-> <<"dir">>, DescID |-> <<"id">>, Reason |-> <<"r">>, Replica |-> <<"7">>])}

NoAttributes(code, words, means) == Event(code, words, <<>>, means)
Raw(text) == [Raw |-> text]
Unknown(text, lines) == [EventCode |-> <<"FUTURE">>, RawSingleLine |-> text, RawMultiLine |-> lines]

OtherEvents ==
  {NoAttributes("BW", << <<"7">>, <<"8">> >>, [BytesRead |-> <<"7">>, BytesWritten |-> <<"8">>]),
   NoAttributes("NOTICE", << <<"text">> >>, [Severity |-> "NOTICE", Raw |-> <<"text">>]),
   NoAttributes("NEWDESC", << <<"$a">>, <<"$b">> >>, [Descs |-> << <<"$a">>, <<"$b">> >>]),
   NoAttributes("GUARD", << <<"ENTRY">>, <<"$a">>, <<"NEW">> >>,
                [Type |-> <<"ENTRY">>, Name |-> <<"$a">>, Status |-> <<"NEW">>]),
   NoAttributes("STREAM_BW", << <<"7">>, <<"8">>, <<Quote, "dateTclock", Quote>> >>,
                [BytesRead |-> <<"7">>, BytesWritten |-> <<"8">>, Time |-> ISOTime2Frac]),
   NoAttributes("TRANSPORT_LAUNCHED", << <<"client">>, <<"n">>, <<"a">>, <<"7">> >>,
                [Type |-> <<"client">>, Name |-> <<"n">>, Address |-> <<"a">>, Port |-> <<"7">>]),
   NoAttributes("SIGNAL", << <<"NEWNYM">> >>, Raw(<<"NEWNYM">>)),
   NoAttributes("FUTURE", << <<"x">>, <<"y">> >>, Unknown(<<"x", SP, "y">>, <<>>)),
   NoAttributes("ADDRMAP", << <<"a">>, <<"b">>, <<Quote, "date">>, <<"clock", Quote>>,
                              <<"EXPIRES", "=", Quote, "date">>, <<"clock", Quote>> >>,
                [Address |-> <<"a">>, NewAddress |-> <<"b">>]),
   NoAttributes("CLIENTS_SEEN", << <<"TimeStarted", "=", Quote, "date">>, <<"clock", Quote>>,
                                   <<"CountrySummary", "=">> \o Summary >>,
                [CountrySummary |-> Counted]),
   NoAttributes("CELL_STATS", << <<"InboundTime", "=">> \o Count, <<"OutboundTime", "=">> \o Count,
                                 <<"OutboundAdded", "=">> \o Count >>,
                [OutboundAdded |-> [key \in {<<"a">>} |-> <<"7">>]]),
   [NoAttributes("CONF_CHANGED", << <<"Nick", "=", "n">>, <<"Info">> >>,
                 Raw(<< <<"Nick", "=", "n">>, <<"Info">> >>)) EXCEPT !.style = "lines"],
   [NoAttributes("FUTURE", << <<"x">>, <<"y">> >>, Unknown(<<>>, << <<"x">>, <<"y">> >>))
      EXCEPT !.style = "lines"],
   [NoAttributes("HS_DESC_CONTENT", << <<"addr">>, <<"id">>, <<"dir">> >>,
                 [Address |-> <<"addr">>, DescID |-> <<"id">>, HSDir |-> <<"dir">>,
                  Descriptor |-> <<"desc", LF, ".", "x", LF, "y", SP, "z">>])
      EXCEPT !.style = "body", !.body = << <<"desc">>, <<".", "x">>, <<"y", SP, "z">> >>],
   [NoAttributes("NS", << >>, Raw(<<"r", LF, LF, "s">>))
      EXCEPT !.style = "body", !.body = << <<"r">>, <<>>, <<"s">> >>]}

Bandwidth ==
  NoAttributes("BW", << <<"7">>, <<"8">> >>, [BytesRead |-> <<"7">>, BytesWritten |-> <<"8">>])

Permuted(e) == [e EXCEPT !.attrs = Reverse(@)]
Newer(e) == [e EXCEPT !.attrs = <<@[1], Attr(NewAttribute, <<"x">>)>> \o Tail(@)]
Others(e) == IF e.code = "STATUS_CLIENT" THEN <<e, Permuted(e)>> ELSE <<e, Permuted(e), Newer(e)>>

EventSessions ==
  {Session(<<>>, Others(e)) : e \in EventsWithAttributes}
  \cup {Session(<<>>, <<e, Bandwidth>>) : e \in OtherEvents}

----------------------------------------------------------------------------
(* Configuration *)

Specials == {"a", "n", "r", "=", SP, Quote, Backslash, CR, LF, "%"}
Values == UNION {[1..n -> Specials] : n \in 1..2}
          \cup {<<Backslash, Backslash, "n">>, <<Backslash, Quote, Backslash>>, <<"a", SP, Quote>>}

SetGet(entry) ==
  << Call([op |-> "SetConf", entries |-> <<entry>>], Ok, Unsaid),
     Call([op |-> "GetConf", keys |-> <<entry.key>>], Ok, Unsaid) >>

ConfSessions ==
  {Session(SetGet(Entry(<<"Nick">>, val)), <<>>) : val \in Values \cup {<<>>}}
  \cup {Session(SetGet([Entry(<<"Nick">>, <<>>) EXCEPT !.valSetAndEmpty = TRUE]), <<Bandwidth>>)}
  \cup {[Session(SetGet(Entry(<<"Info">>, <<"a", SP, "n">>)), <<Bandwidth>>) EXCEPT !.cut = cut] :
           cut \in BOOLEAN}

----------------------------------------------------------------------------
(* The other commands *)

Onion == [op |-> "AddOnion", key |-> [type |-> "NEW", blob |-> <<"BEST">>], flags |-> <<>>,
          maxStreams |-> <<>>, ports |-> <<Port(<<"80">>, <<>>)>>, clientAuths |-> <<>>]
OnionData(key) == <<Text1(<<"ServiceID", "=", "id">>), Text1(<<"PrivateKey", "=">> \o key)>>
OnionKey(type, blob) == Value([id |-> <<"id">>, key |-> [type |-> type, blob |-> blob, err |-> FALSE]])

GetInfo(keys) == [op |-> "GetInfo", keys |-> keys]
GetVersion(data, means) == Call(GetInfo(<< <<"version">> >>), Message("250", data, <<"OK">>), means)
Info == [op |-> "ProtocolInfo"]
InfoData(version, auth) ==
  <<Text1(<<"PROTOCOLINFO", SP>> \o version), Text1(<<"AUTH", SP>> \o auth),
    Text1(<<"VERSION", SP, "Tor", "=", Quote, "v", Quote, SP, "more">>), Text1(<<"later">>)>>
InfoIs(methods, file) == Value([authMethods |-> methods, cookieFile |-> file, torVersion |-> <<"v">>])

Extend ==
  Call([op |-> "ExtendCircuit", circuitID |-> <<"7">>, path |-> << <<"a">>, <<"b">> >>,
        purpose |-> <<"general">>], Message("250", <<>>, <<"EXTENDED", SP, "7">>), Value(<<"7">>))

Answered ==
  {GetVersion(<<Text1(<<"version", "=", "v">>)>>, Value(<<Port(<<"version">>, <<"v">>)>>)),
   GetVersion(<<Text1(<<"version", "=", "a", "=", "b">>)>>,
              Value(<<Port(<<"version">>, <<"a", "=", "b">>)>>)),
   GetVersion(<<Text1(<<"version", "=", Quote, "a", Backslash, "n", Quote>>)>>,
              Value(<<Port(<<"version">>, <<"a", LF>>)>>)),
   GetVersion(<<Text1(<<"version", "=", Quote, Backslash, "a", Quote>>)>>, Failed),
   GetVersion(<<[text |-> <<"version", "=">>, lines |-> << <<"l">>, <<".", "m">>, <<>>, <<"n">> >>],
                Text1(<<"x", "=", "y">>)>>,
              Value(<<Port(<<"version">>, <<CR, LF, "l", LF, ".", "m", LF, LF, "n">>),
                      Port(<<"x">>, <<"y">>)>>)),
   Call(GetInfo(<< <<"x">> >>), Message("552", <<>>, <<"Unrecognized entity", SP, "x">>),
        [err |-> "status", val |-> [code |-> "552", msg |-> "Unrecognized entity",
                                    reply |-> <<SP, "x">>]]),
   Call(GetInfo(<< <<"y">> >>), Message("299", <<Text1(<<"x">>)>>, <<"odd">>),
        [err |-> "status", val |-> [code |-> "299", msg |-> "Unknown status code",
                                    reply |-> <<"odd">>]]),
   Call([op |-> "MapAddresses", addresses |-> <<Port(<<"a">>, <<"b">>), Port(<<"c">>, <<"d">>)>>],
        Message("250", <<Text1(<<"a", "=", "b">>)>>, <<"c", "=", "d">>),
        Value(<<Port(<<"a">>, <<"b">>), Port(<<"c">>, <<"d">>)>>)),
   Extend,
   Call(Onion, Message("250", OnionData(<<"ED25519-V3", ":", "blob">>), <<"OK">>),
        OnionKey("ED25519-V3", <<"blob">>)),
   Call(Onion, Message("250", OnionData(<<"ED25519-V3", ":", "short">>), <<"OK">>),
        OnionKey("ED25519-V3", <<"short">>)),
   Call(Onion, Message("250", OnionData(<<"RSA1024", ":", "short">>), <<"OK">>), Failed),
   Call([Onion EXCEPT !.flags = << <<"Detach">>, <<"DiscardPK">> >>],
        Message("251", <<Text1(<<"ServiceID", "=", "id">>)>>, <<"OK">>),
        Value([id |-> <<"id">>, key |-> NoKey])),
   Call([Onion EXCEPT !.ports = <<Port(<<"80">>, <<"81">>), Port(<<"82">>, <<>>)>>],
        Message("250", OnionData(<<"RSA1024", ":", "broken">>), <<"OK">>), Failed),
   Call([Onion EXCEPT !.maxStreams = <<"7">>, !.clientAuths = << <<"x">> >>],
        Message("250", OnionData(<<"LATER", ":", "blob">>), <<"OK">>), Failed),
   Call([Onion EXCEPT !.maxStreams = <<"7">>], Ok, Value([id |-> <<>>, key |-> NoKey])),
   Call(Info, Message("250", InfoData(<<"1">>, <<"METHODS", "=", "NULL">>), <<"OK">>),
        InfoIs(<< <<"NULL">> >>, <<>>)),
   Call(Info, Message("250", InfoData(<<"1">>, <<"METHODS", "=", "COOKIE", ",", "SAFECOOKIE", SP,
                                  "COOKIEFILE", "=", Quote, "a", SP, "b", Quote>>), <<"OK">>),
        InfoIs(<< <<"COOKIE">>, <<"SAFECOOKIE">> >>, <<"a", SP, "b">>)),
   Call(Info, Message("250", InfoData(<<"1">>, <<"METHODS", "=", "SAFECOOKIE", SP, "COOKIEFILE", "=", "a">>),
                  <<"OK">>), InfoIs(<<>>, <<>>)),
   Call(Info, Message("250", InfoData(<<"1">>, <<"METHODS", "=", "SAFECOOKIE", SP, "x">>), <<"OK">>),
        InfoIs(<<>>, <<>>)),
   Call(Info, Message("250", InfoData(<<"1">>, <<"x">>), <<"OK">>), InfoIs(<<>>, <<>>)),
   Call(Info, Message("250", InfoData(<<"2">>, <<"x">>), <<"OK">>), Failed)}

Circuit0 == {Call([op |-> "ExtendCircuit", circuitID |-> id, path |-> <<>>, purpose |-> <<>>],
                  Message("250", <<>>, <<"8">>), Value(<<"8">>)) : id \in {<<>>, <<"0">>}}
Attach(id, hop) == [op |-> "AttachStream", streamID |-> <<"1">>, circuitID |-> id, hop |-> hop]
Post(server, address) ==
  [op |-> "HSPost", desc |-> <<"d">>, servers |-> server, address |-> address]

Plain ==
  {[op |-> "ResetConf", entries |-> <<Entry(<<"Nick">>, <<"a">>), Entry(<<"Info">>, <<>>)>>],
   [op |-> "DelOnion", serviceID |-> <<"id">>], [op |-> "Signal", signal |-> <<"NEWNYM">>],
   [op |-> "UseFeatures", features |-> << <<"a">>, <<"b">> >>],
   [op |-> "Quit"], [op |-> "TakeOwnership"], [op |-> "DropGuards"],
   [op |-> "SaveConf", force |-> TRUE], [op |-> "SaveConf", force |-> FALSE],
   [op |-> "LoadConf", conf |-> <<"Nick", SP, "a">>],
   [op |-> "PostDescriptor", purpose |-> <<"p">>, cache |-> <<>>, desc |-> <<"d">>],
   [op |-> "PostDescriptor", purpose |-> <<>>, cache |-> <<"no">>, desc |-> <<"d">>],
   [op |-> "ResolveAsync", address |-> <<"a">>, reverse |-> TRUE],
   [op |-> "ResolveAsync", address |-> <<"a">>, reverse |-> FALSE],
   [op |-> "SetCircuitPurpose", circuitID |-> <<"1">>, purpose |-> <<"p">>],
   [op |-> "CloseCircuit", circuitID |-> <<"1">>, flags |-> << <<"IfUnused">> >>],
   [op |-> "CloseCircuit", circuitID |-> <<"1">>, flags |-> <<>>],
   Attach(<<"7">>, <<"2">>), Attach(<<"7">>, <<>>),
   [op |-> "RedirectStream", streamID |-> <<"1">>, address |-> <<"a">>, port |-> <<"7">>],
   [op |-> "RedirectStream", streamID |-> <<"1">>, address |-> <<"a">>, port |-> <<>>],
   [op |-> "CloseStream", streamID |-> <<"1">>, reason |-> <<"2">>],
   [op |-> "HSFetch", address |-> <<"a">>, server |-> <<"s">>],
   [op |-> "HSFetch", address |-> <<"a">>, server |-> <<>>],
   Post(<< <<"s">>, <<"t">> >>, <<>>), Post(<<>>, <<"a">>),
   Post(<< <<"s">> >>, <<"a">>)}

Done(request) == Call(request, Ok, Value(<<>>))

CallSessions ==
  {Session(<<call1>>, <<Bandwidth>>) : call1 \in Answered}
  \cup {Session(<<Done(request)>>, <<>>) : request \in Plain}
  \cup {Session(<< Call([Onion EXCEPT !.key = NoKey], Ok, Refusal), Call(Onion, Ok, Unsaid) >>,
                <<Bandwidth>>)}
  \cup {Session(<<[call1 EXCEPT !.same = "new circuit"]>>, <<>>) : call1 \in Circuit0}
  \cup {Session(<<[Done(Attach(id, <<>>)) EXCEPT !.same = "let Tor choose"]>>, <<>>) :
          id \in {<<>>, <<"0">>}}

----------------------------------------------------------------------------
(* Messages that are not well formed, and connections that end *)

Multi == <<Text1(<<"version", "=", "v">>), [text |-> <<"x", "=">>, lines |-> << <<"l">>, <<".">> >>]>>

BrokenSessions ==
  {Session(<< Call(GetInfo(<< <<"version">> >>),
                   [code |-> "250", data |-> data, reply |-> <<"OK">>, bad |-> bad], Unsaid),
              Call(GetInfo(<< <<"x">> >>), Message("250", Multi, <<"OK">>), Unsaid) >>, <<Bandwidth>>) :
     data \in {<<>>, Multi}, bad \in {"short", "code", "separator", "changed", "last"}}
  \cup {Session(<<Done([op |-> "Quit"])>>,
                <<[Event("NS", <<>>, <<>>, Raw(<<>>)) EXCEPT !.style = style, !.bad = bad,
                                                    !.body = << <<"r">> >>], Bandwidth>>) :
          style \in {"line", "body"}, bad \in {"separator", "changed", "last"}}

CutSessions ==
  {[Session(<< GetVersion(Multi, Unsaid), Done([op |-> "Quit"]) >>,
            <<[Bandwidth EXCEPT !.style = "body", !.body = << <<"x">> >>, !.words = <<>>,
                                !.means = Raw(<<"x">>)]>>)
      EXCEPT !.cut = TRUE],
   [Session(<< Extend, Done([op |-> "Quit"]) >>, <<Bandwidth>>) EXCEPT !.cut = TRUE]}

MCSessions == EventSessions \cup ConfSessions \cup CallSessions \cup BrokenSessions \cup CutSessions

\* What the theorems about events assume is so in these sessions.
ASSUME ProtocolAssumption == RepliesAreNoEvents /\ EventsReadable /\ AttributeLines
=============================================================================
