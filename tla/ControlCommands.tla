-------------------------- MODULE ControlCommands --------------------------
(***************************************************************************)
(* The commands of package control (cmd_*.go but for events and            *)
(* authentication): the line each method writes, and what it makes of the  *)
(* response.  A request is a record: op, the method, and its arguments.    *)
(***************************************************************************)
EXTENDS Text

\* The line is the format string of Printf: a % in it is taken for a verb.
Printf(str) == [i \in DOMAIN str |-> IF str[i] = "%" THEN "%!" ELSE str[i]]

Words(parts) == Join(parts, SP)

\* key=val, or nothing when the argument is not given.
Opt(key, val) == IF val = <<>> THEN << >> ELSE << <<key, "=">> \o val >>

\* A body after the command's line, up to a dot.  Its lines are not stuffed.
WithBody(line, body) == line \o <<CR, LF>> \o body \o <<CR, LF, ".">>

----------------------------------------------------------------------------
(* SETCONF, RESETCONF, GETCONF *)

\* Mutant of ValSet: an empty value is no value.
ValSetNonEmpty(kv) == kv.val # <<>>

ValSet(kv) == kv.val # <<>> \/ kv.valSetAndEmpty

sendSetConf(cmd, entries) ==
  Printf(Words(<< <<cmd>> >> \o
    [i \in DOMAIN entries |->
       entries[i].key \o (IF ValSet(entries[i])
                            THEN <<"=">> \o EscapeSimpleQuotedStringIfNeeded(entries[i].val)
                            ELSE <<>>)]))

GetConfEntry(str) ==
  LET kv == PartitionString(str, "=")
      val == UnescapeSimpleQuotedStringIfNeeded(kv.tail)
  IN [key |-> kv.head, val |-> val.val, valSetAndEmpty |-> kv.ok /\ val.val = <<>>,
      err |-> kv.ok /\ val.err]

KeyVal(entry) ==
  [key |-> entry.key, val |-> entry.val, valSetAndEmpty |-> entry.valSetAndEmpty]

Failed == [err |-> "decode", val |-> <<>>]
Value(val) == [err |-> "", val |-> val]

\* An entry that cannot be unescaped fails the call.
GetConfResult(data) ==
  LET entries == [i \in DOMAIN data |-> GetConfEntry(data[i])]
  IN IF \E i \in DOMAIN entries : entries[i].err THEN Failed
     ELSE Value([i \in DOMAIN entries |-> KeyVal(entries[i])])

----------------------------------------------------------------------------
(* MAPADDRESS, GETINFO, EXTENDCIRCUIT *)

MapAddresses(addresses) ==
  Printf(Words(<< <<"MAPADDRESS">> >> \o
    [i \in DOMAIN addresses |-> addresses[i].key \o <<"=">> \o addresses[i].val]))

MapAddressesResult(data) ==
  Value([i \in DOMAIN data |->
           [key |-> PartitionString(data[i], "=").head,
            val |-> PartitionString(data[i], "=").tail]])

\* Mutant of GetInfoResult: the last "=" separates key and value.
GetInfoResultFromEnd(data) ==
  Value([i \in DOMAIN data |->
           [key |-> PartitionStringFromEnd(data[i], "=").head,
            val |-> PartitionStringFromEnd(data[i], "=").tail]])

GetInfoResult(data) ==
  LET val(i) == UnescapeSimpleQuotedStringIfNeeded(PartitionString(data[i], "=").tail)
  IN IF \E i \in DOMAIN data : val(i).err THEN Failed
     ELSE Value([i \in DOMAIN data |->
                   [key |-> PartitionString(data[i], "=").head, val |-> val(i).val]])

OrZero(id) == IF id = <<>> THEN <<"0">> ELSE id

ExtendCircuit(r) ==
  Printf(Words(<< <<"EXTENDCIRCUIT">>, OrZero(r.circuitID) >>
               \o (IF r.path = <<>> THEN << >> ELSE << Join(r.path, ",") >>)
               \o Opt("purpose", r.purpose)))

\* The last word of the reply.
ExtendCircuitResult(reply) ==
  LET last == PartitionStringFromEnd(reply, SP)
  IN Value(IF last.ok THEN last.tail ELSE reply)

----------------------------------------------------------------------------
(* ADD_ONION *)

\* The blobs that are base64, and the one of them that is a key's. An RSA key is
\* parsed, an ED25519 one is taken as it is, of any length.
Base64 == {<<"blob">>, <<"short">>}
RSABlobs == {<<"blob">>}

NoKey == [type |-> "", blob |-> <<>>, err |-> FALSE]

\* GenKey, RSAKey and ED25519Key, or an error.
KeyFromString(str) ==
  LET key == PartitionString(str, ":")
  IN CASE key.head = <<"NEW">> -> [type |-> "NEW", blob |-> key.tail, err |-> FALSE]
       [] key.head = <<"RSA1024">> ->
            [type |-> "RSA1024", blob |-> key.tail, err |-> key.tail \notin RSABlobs]
       [] key.head = <<"ED25519-V3">> ->
            [type |-> "ED25519-V3", blob |-> key.tail, err |-> key.tail \notin Base64]
       [] OTHER -> [type |-> "", blob |-> <<>>, err |-> TRUE]

\* A request without a key is refused before anything is written.
Refused(r) == r.op = "AddOnion" /\ r.key = NoKey
Refusal == [err |-> "refused", val |-> <<>>]

\* Mutant of AddOnion: the client authorizations are left out.
AddOnionOpen(r) ==
  Printf(Words(<< <<"ADD_ONION">>, <<r.key.type, ":">> \o r.key.blob >>
               \o Opt("Flags", Join(r.flags, ","))
               \o Opt("MaxStreams", r.maxStreams)
               \o [i \in DOMAIN r.ports |->
                     <<"Port", "=">> \o r.ports[i].key
                     \o (IF r.ports[i].val = <<>> THEN <<>> ELSE <<",">> \o r.ports[i].val)]))

\* maxStreams is <<>> when it is not positive.
AddOnion(r) ==
  Printf(Words(<< <<"ADD_ONION">>, <<r.key.type, ":">> \o r.key.blob >>
               \o Opt("Flags", Join(r.flags, ","))
               \o Opt("MaxStreams", r.maxStreams)
               \o [i \in DOMAIN r.ports |->
                     <<"Port", "=">> \o r.ports[i].key
                     \o (IF r.ports[i].val = <<>> THEN <<>> ELSE <<",">> \o r.ports[i].val)]
               \o [i \in DOMAIN r.clientAuths |-> <<"ClientAuthV3", "=">> \o r.clientAuths[i]]))

\* The service's ID and key, whatever else Tor says; a key that cannot be
\* decoded fails the call, although the service is there.
AddOnionResult(data) ==
  LET lines(key) == {i \in DOMAIN data : PartitionString(data[i], "=").head = <<key>>}
      val(i) == PartitionString(data[i], "=").tail
      last(key) == val(CHOOSE i \in lines(key) : \A j \in lines(key) : j <= i)
  IN IF \E i \in lines("PrivateKey") : KeyFromString(val(i)).err THEN Failed
     ELSE Value([id |-> IF lines("ServiceID") = {} THEN <<>> ELSE last("ServiceID"),
                 key |-> IF lines("PrivateKey") = {} THEN NoKey
                         ELSE KeyFromString(last("PrivateKey"))])

----------------------------------------------------------------------------
(* PROTOCOLINFO *)

HasPrefix(str, prefix) == Len(str) >= Len(prefix) /\ SubSeq(str, 1, Len(prefix)) = prefix
After(str, prefix) == SubSeq(str, Len(prefix) + 1, Len(str))

\* AUTH METHODS=...: ignored when the rest is no cookie file that can be read.
AuthLine(info, str) ==
  LET line == PartitionString(str, SP)
      file == UnescapeSimpleQuotedString(After(line.tail, <<"COOKIEFILE", "=">>))
      methods == Split(After(line.head, <<"METHODS", "=">>), ",")
  IN IF ~HasPrefix(line.head, <<"METHODS", "=">>) THEN info
     ELSE CASE line.tail = <<>> -> [info EXCEPT !.authMethods = methods]
            [] HasPrefix(line.tail, <<"COOKIEFILE", "=">>) /\ file.err ->
                 [info EXCEPT !.cookieFile = <<>>]
            [] HasPrefix(line.tail, <<"COOKIEFILE", "=">>) /\ ~file.err ->
                 [info EXCEPT !.authMethods = methods, !.cookieFile = file.val]
            [] OTHER -> info

VersionLine(info, str) ==
  LET version == PartitionString(str, SP).head
  IN IF HasPrefix(version, <<"Tor", "=">>)
     THEN [info EXCEPT !.torVersion = UnescapeSimpleQuotedString(After(version, <<"Tor", "=">>)).val]
     ELSE info

\* One data line: it is skipped when it is not known.
InfoLine(info, str) ==
  LET kv == PartitionString(str, SP)
  IN CASE ~kv.ok -> info
       [] kv.ok /\ kv.head = <<"AUTH">> -> AuthLine(info, kv.tail)
       [] kv.ok /\ kv.head = <<"VERSION">> -> VersionLine(info, kv.tail)
       [] OTHER -> info

NoInfo == [authMethods |-> <<>>, cookieFile |-> <<>>, torVersion |-> <<>>]

ProtocolInfoResult(data) ==
  IF \E i \in DOMAIN data : /\ PartitionString(data[i], SP).head = <<"PROTOCOLINFO">>
                            /\ PartitionString(data[i], SP).ok
                            /\ PartitionString(data[i], SP).tail # <<"1">>
  THEN Failed
  ELSE Value(FoldLeft(InfoLine, NoInfo, data))

----------------------------------------------------------------------------
(* The other commands *)

Signal(r) == Words(<< <<"SIGNAL">>, r.signal >>)

UseFeatures(r) == Printf(Words(<< <<"USEFEATURE">> >> \o r.features))

Quit == <<"QUIT">>
TakeOwnership == <<"TAKEOWNERSHIP">>
DropGuards == <<"DROPGUARDS">>

DelOnion(r) == Words(<< <<"DEL_ONION">>, r.serviceID >>)

SaveConf(r) == IF r.force THEN Words(<< <<"SAVECONF">>, <<"FORCE">> >>) ELSE <<"SAVECONF">>

LoadConf(r) == WithBody(<<"+LOADCONF">>, r.conf)

PostDescriptor(r) ==
  Printf(WithBody(Words(<< <<"+POSTDESCRIPTOR">> >> \o Opt("purpose", r.purpose)
                        \o Opt("cache", r.cache)), r.desc))

ResolveAsync(r) ==
  Printf(Words(<< <<"RESOLVE">> >>
               \o (IF r.reverse THEN << <<"mode", "=", "reverse">> >> ELSE << >>)
               \o << r.address >>))

SetCircuitPurpose(r) ==
  Words(<< <<"SETCIRCUITPURPOSE">>, r.circuitID, <<"purpose", "=">> \o r.purpose >>)

CloseCircuit(r) == Printf(Words(<< <<"CLOSECIRCUIT">>, r.circuitID >> \o r.flags))

\* hop is <<>> when it is not positive.
AttachStream(r) ==
  Printf(Words(<< <<"ATTACHSTREAM">>, r.streamID, OrZero(r.circuitID) >> \o Opt("HOP", r.hop)))

\* port is <<>> when it is not positive.
RedirectStream(r) ==
  Printf(Words(<< <<"REDIRECTSTREAM">>, r.streamID, r.address >>
               \o (IF r.port = <<>> THEN << >> ELSE << r.port >>)))

CloseStream(r) == Words(<< <<"CLOSESTREAM">>, r.streamID, r.reason >>)

GetHiddenServiceDescriptorAsync(r) ==
  Printf(Words(<< <<"HSFETCH">>, r.address >> \o Opt("SERVER", r.server)))

\* No space comes before HSADDRESS.
PostHiddenServiceDescriptorAsync(r) ==
  LET servers == [i \in DOMAIN r.servers |-> <<"SERVER", "=">> \o r.servers[i]]
      line == Words(<< <<"+HSPOST">> >> \o servers)
  IN Printf(WithBody(IF r.address = <<>> THEN line
                     ELSE line \o <<"HSADDRESS", "=">> \o r.address, r.desc))

----------------------------------------------------------------------------

Command(r) ==
  CASE r.op = "SetConf" -> sendSetConf("SETCONF", r.entries)
    [] r.op = "ResetConf" -> sendSetConf("RESETCONF", r.entries)
    [] r.op = "GetConf" -> Words(<< <<"GETCONF">> >> \o r.keys)
    [] r.op = "GetInfo" -> Words(<< <<"GETINFO">> >> \o r.keys)
    [] r.op = "MapAddresses" -> MapAddresses(r.addresses)
    [] r.op = "ExtendCircuit" -> ExtendCircuit(r)
    [] r.op = "AddOnion" -> AddOnion(r)
    [] r.op = "DelOnion" -> DelOnion(r)
    [] r.op = "ProtocolInfo" -> <<"PROTOCOLINFO">>
    [] r.op = "Signal" -> Signal(r)
    [] r.op = "UseFeatures" -> UseFeatures(r)
    [] r.op = "Quit" -> Quit
    [] r.op = "TakeOwnership" -> TakeOwnership
    [] r.op = "DropGuards" -> DropGuards
    [] r.op = "SaveConf" -> SaveConf(r)
    [] r.op = "LoadConf" -> LoadConf(r)
    [] r.op = "PostDescriptor" -> PostDescriptor(r)
    [] r.op = "ResolveAsync" -> ResolveAsync(r)
    [] r.op = "SetCircuitPurpose" -> SetCircuitPurpose(r)
    [] r.op = "CloseCircuit" -> CloseCircuit(r)
    [] r.op = "AttachStream" -> AttachStream(r)
    [] r.op = "RedirectStream" -> RedirectStream(r)
    [] r.op = "CloseStream" -> CloseStream(r)
    [] r.op = "HSFetch" -> GetHiddenServiceDescriptorAsync(r)
    [] r.op = "HSPost" -> PostHiddenServiceDescriptorAsync(r)

\* What the method returns of a response that is no error.
Result(r, resp) ==
  CASE r.op = "GetConf" -> GetConfResult(Append(resp.data, resp.reply))
    [] r.op = "MapAddresses" -> MapAddressesResult(Append(resp.data, resp.reply))
    [] r.op = "GetInfo" -> GetInfoResult(resp.data)
    [] r.op = "ExtendCircuit" -> ExtendCircuitResult(resp.reply)
    [] r.op = "AddOnion" -> AddOnionResult(resp.data)
    [] r.op = "ProtocolInfo" -> ProtocolInfoResult(resp.data)
    [] OTHER -> Value(<<>>)
=============================================================================
