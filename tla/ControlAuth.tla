---------------------------- MODULE ControlAuth ----------------------------
(***************************************************************************)
(* Conn.Authenticate and Conn.ProtocolInfo (control/cmd_authenticate.go,   *)
(* cmd_protocolinfo.go) called by several goroutines on one connection:    *)
(* they share the cached protocolInfo and the flag Authenticated, which no *)
(* lock protects.  An exchange with Tor is one step (ControlConn), each    *)
(* read or write of a shared field is one of its own.  Hashes are terms:   *)
(* the two of an exchange differ by their prefix only.                     *)
(***************************************************************************)
EXTENDS Integers

CONSTANTS
  Goroutines,
  MaxCalls,     \* bound: calls of Authenticate by a goroutine
  Cookies,      \* what a cookie file of 32 bytes can hold
  TorCookie     \* Tor's own

ASSUME CookieAssumption == TorCookie \in Cookies
ASSUME BoundAssumption == MaxCalls \in Nat

VARIABLES
  methods,          \* Tor: the authentication methods it allows
  connOpen,         \* Tor: the connection is open
  challenge,        \* Tor: the nonces of the last AUTHCHALLENGE
  accepted,         \* Tor: the connection is authenticated
  protocolInfo,     \* Conn.protocolInfo, Nil before it is known
  Authenticated,    \* Conn.Authenticated
  pc,               \* where each goroutine is
  calls,            \* calls each has begun
  password,         \* the argument of each call
  info,             \* pi, and before it what sendProtocolInfo returned
  cookie,           \* the bytes of the cookie file
  nonces,           \* the client's and the server's nonce
  proof,            \* authBytes
  serverHashes,     \* history: the server's hashes that Tor sent
  proofs,           \* history: the proofs sent with AUTHENTICATE
  overlap,          \* history: another call has run during the goroutine's
  fault             \* history: something outside has gone wrong during it

tor == <<methods, connOpen, challenge, accepted>>
conn == <<protocolInfo, Authenticated>>
local == <<calls, password, info, cookie, nonces, proof, overlap>>
history == <<serverHashes, proofs>>
vars == <<tor, conn, pc, local, history, fault>>

Methods == {"NULL", "SAFECOOKIE", "HASHEDPASSWORD"}
Passwords == {"", "right", "wrong"}
Nil == [nil |-> TRUE, methods |-> {}]
Info(ms) == [nil |-> FALSE, methods |-> ms]
NoNonces == [client |-> <<>>, server |-> 0]

HMAC(prefix, c, n) == [prefix |-> prefix, cookie |-> c, nonces |-> n]
Null == [method |-> "NULL"]
Cookie(hash) == [method |-> "SAFECOOKIE", hash |-> hash]
Password(p) == [method |-> "HASHEDPASSWORD", password |-> p]

Outside == {"idle", "nil", "error", "panic"}   \* not in Authenticate

Inside == {"cache", "ask", "store", "cached", "choose", "file", "challenge", "respond",
           "send", "accepted"}

Init ==
  /\ methods \in SUBSET Methods
  /\ connOpen = TRUE /\ challenge = NoNonces /\ accepted = FALSE
  /\ protocolInfo = Nil /\ Authenticated = FALSE
  /\ pc = [g \in Goroutines |-> "idle"]
  /\ calls = [g \in Goroutines |-> 0]
  /\ password = [g \in Goroutines |-> ""]
  /\ info = [g \in Goroutines |-> Nil]
  /\ cookie = [g \in Goroutines |-> TorCookie]
  /\ nonces = [g \in Goroutines |-> NoNonces]
  /\ proof = [g \in Goroutines |-> Null]
  /\ serverHashes = {} /\ proofs = {}
  /\ overlap = [g \in Goroutines |-> FALSE]
  /\ fault = [g \in Goroutines |-> FALSE]

Goto(g, to) == pc' = [pc EXCEPT ![g] = to]
Blame(g, wrong) == fault' = [fault EXCEPT ![g] = @ \/ wrong]

----------------------------------------------------------------------------
(* Authenticate: the flag, then ProtocolInfo *)

\* The call begins and reads the flag.
Authenticate(g) ==
  /\ pc[g] \in {"idle", "nil", "error"} /\ calls[g] < MaxCalls
  /\ \A h \in Goroutines : pc[h] # "panic"
  /\ calls' = [calls EXCEPT ![g] = @ + 1]
  /\ \E p \in Passwords : password' = [password EXCEPT ![g] = p]
  /\ Goto(g, IF Authenticated THEN "nil" ELSE "cache")
  /\ LET others == {h \in Goroutines \ {g} : pc[h] \notin Outside}
     IN overlap' = [h \in Goroutines |-> IF h = g THEN others # {}
                                        ELSE overlap[h] \/ h \in others]
  /\ fault' = [fault EXCEPT ![g] = FALSE]
  /\ UNCHANGED <<tor, conn, info, cookie, nonces, proof, history>>

\* ProtocolInfo asks Tor when there is nothing in the cache.
CheckCache(g) ==
  /\ pc[g] = "cache"
  /\ Goto(g, IF protocolInfo = Nil THEN "ask" ELSE "cached")
  /\ UNCHANGED <<tor, conn, local, history, fault>>

\* PROTOCOLINFO: the methods, or none of them when the line with them cannot
\* be read, or an error.  Tor may refuse the command or close the connection.
sendProtocolInfo(g) ==
  /\ pc[g] = "ask"
  /\ \/ /\ connOpen
        /\ \E ms \in {methods, {}} :
             /\ info' = [info EXCEPT ![g] = Info(ms)]
             /\ Blame(g, ms # methods)
        /\ UNCHANGED connOpen
     \/ /\ info' = [info EXCEPT ![g] = Nil]
        /\ Blame(g, TRUE)
        /\ connOpen' \in {connOpen, FALSE}
  /\ Goto(g, "store")
  /\ UNCHANGED <<methods, challenge, accepted, conn, calls, password, cookie, nonces,
                 proof, overlap, history>>

\* Mutant of StoreInfo: the error is dropped.
StoreInfoOnly(g) ==
  /\ pc[g] = "store"
  /\ protocolInfo' = info[g]
  /\ Goto(g, "cached")
  /\ UNCHANGED <<tor, Authenticated, local, history, fault>>

\* The result is stored, be it nil.
StoreInfo(g) ==
  /\ pc[g] = "store"
  /\ protocolInfo' = info[g]
  /\ Goto(g, IF info[g] = Nil THEN "error" ELSE "cached")
  /\ UNCHANGED <<tor, Authenticated, local, history, fault>>

\* The cache is read again for the result.
ReadCache(g) ==
  /\ pc[g] = "cached"
  /\ info' = [info EXCEPT ![g] = protocolInfo]
  /\ Goto(g, "choose")
  /\ UNCHANGED <<tor, conn, calls, password, cookie, nonces, proof, overlap, history,
                 fault>>

----------------------------------------------------------------------------
(* The method *)

\* NULL before SAFECOOKIE before HASHEDPASSWORD.
ChooseMethod(g) ==
  /\ pc[g] = "choose" /\ info[g] # Nil
  /\ LET ms == info[g].methods
     IN \/ /\ "NULL" \in ms
           /\ proof' = [proof EXCEPT ![g] = Null]
           /\ Goto(g, "send") /\ Blame(g, FALSE)
        \/ /\ "NULL" \notin ms /\ "SAFECOOKIE" \in ms
           /\ Goto(g, "file") /\ Blame(g, FALSE)
           /\ UNCHANGED proof
        \/ /\ ms \cap {"NULL", "SAFECOOKIE"} = {} /\ "HASHEDPASSWORD" \in ms
           /\ proof' = [proof EXCEPT ![g] = Password(password[g])]
           /\ Goto(g, IF password[g] = "" THEN "error" ELSE "send")
           /\ Blame(g, password[g] # "right")
        \/ /\ ms = {}
           /\ Goto(g, "error") /\ Blame(g, methods = {})
           /\ UNCHANGED proof
  /\ UNCHANGED <<tor, conn, calls, password, info, cookie, nonces, overlap, history>>

\* pi is nil although ProtocolInfo returned no error.
UseNilInfo(g) ==
  /\ pc[g] = "choose" /\ info[g] = Nil
  /\ Goto(g, "panic")
  /\ UNCHANGED <<tor, conn, local, history, fault>>

----------------------------------------------------------------------------
(* SAFECOOKIE *)

\* There is no file name, or no file, or its length is not 32; or it holds
\* some cookie.
ReadCookieFile(g) ==
  /\ pc[g] = "file"
  /\ \/ Goto(g, "error") /\ Blame(g, TRUE) /\ UNCHANGED cookie
     \/ \E c \in Cookies :
          /\ cookie' = [cookie EXCEPT ![g] = c]
          /\ Goto(g, "challenge") /\ Blame(g, c # TorCookie)
  /\ UNCHANGED <<tor, conn, calls, password, info, nonces, proof, overlap, history>>

\* Mutant of AuthChallenge: the server's hash is not compared.
AuthChallengeUnverified(g) ==
  /\ pc[g] = "challenge" /\ connOpen
  /\ LET n == [client |-> <<g, calls[g]>>, server |-> challenge.server + 1]
     IN /\ challenge' = n
        /\ nonces' = [nonces EXCEPT ![g] = n]
        /\ serverHashes' = serverHashes \cup {HMAC("server", TorCookie, n)}
        /\ Goto(g, "respond")
  /\ Blame(g, FALSE)
  /\ UNCHANGED <<methods, connOpen, accepted, conn, calls, password, info, cookie, proof,
                 overlap, proofs>>

\* AUTHCHALLENGE: Tor remembers the nonces of the last one and answers with
\* its hash, which must be the hash of the cookie that was read.
AuthChallenge(g) ==
  /\ pc[g] = "challenge" /\ connOpen
  /\ LET n == [client |-> <<g, calls[g]>>, server |-> challenge.server + 1]
     IN /\ challenge' = n
        /\ nonces' = [nonces EXCEPT ![g] = n]
        /\ serverHashes' = serverHashes \cup {HMAC("server", TorCookie, n)}
        /\ Goto(g, IF HMAC("server", TorCookie, n) = HMAC("server", cookie[g], n)
                   THEN "respond" ELSE "error")
  /\ Blame(g, FALSE)
  /\ UNCHANGED <<methods, connOpen, accepted, conn, calls, password, info, cookie, proof,
                 overlap, proofs>>

\* The answer is an error, or not of the form the code expects.
AuthChallengeFails(g) ==
  /\ pc[g] = "challenge"
  /\ Goto(g, "error")
  /\ Blame(g, TRUE)
  /\ UNCHANGED <<tor, conn, local, history>>

\* Mutant of ClientHash: the server's hash is sent back.
ClientHashOfServer(g) ==
  /\ pc[g] = "respond"
  /\ proof' = [proof EXCEPT ![g] = Cookie(HMAC("server", cookie[g], nonces[g]))]
  /\ Goto(g, "send")
  /\ UNCHANGED <<tor, conn, calls, password, info, cookie, nonces, overlap, history, fault>>

ClientHash(g) ==
  /\ pc[g] = "respond"
  /\ proof' = [proof EXCEPT ![g] = Cookie(HMAC("client", cookie[g], nonces[g]))]
  /\ Goto(g, "send")
  /\ UNCHANGED <<tor, conn, calls, password, info, cookie, nonces, overlap, history, fault>>

----------------------------------------------------------------------------
(* AUTHENTICATE *)

TorAccepts(p) ==
  /\ p.method \in methods
  /\ p.method = "SAFECOOKIE" => p.hash = HMAC("client", TorCookie, challenge)
  /\ p.method = "HASHEDPASSWORD" => p.password = "right"

\* Tor accepts the proof, and no other; a refusal may end the connection.
sendAuthenticate(g) ==
  /\ pc[g] = "send"
  /\ proofs' = proofs \cup {proof[g]}
  /\ \/ /\ connOpen /\ TorAccepts(proof[g])
        /\ accepted' = TRUE
        /\ Goto(g, "accepted") /\ Blame(g, FALSE)
        /\ UNCHANGED connOpen
     \/ /\ connOpen /\ ~TorAccepts(proof[g])
        /\ connOpen' \in BOOLEAN
        /\ Goto(g, "error") /\ Blame(g, FALSE)
        /\ UNCHANGED accepted
     \/ /\ ~connOpen
        /\ Goto(g, "error") /\ Blame(g, TRUE)
        /\ UNCHANGED <<connOpen, accepted>>
  /\ UNCHANGED <<methods, challenge, conn, local, serverHashes>>

SetAuthenticated(g) ==
  /\ pc[g] = "accepted"
  /\ Authenticated' = TRUE
  /\ Goto(g, "nil")
  /\ UNCHANGED <<tor, protocolInfo, local, history, fault>>

----------------------------------------------------------------------------

Next ==
  \E g \in Goroutines :
    \/ Authenticate(g) \/ CheckCache(g) \/ sendProtocolInfo(g) \/ StoreInfo(g)
    \/ ReadCache(g) \/ ChooseMethod(g) \/ UseNilInfo(g)
    \/ ReadCookieFile(g) \/ AuthChallenge(g) \/ AuthChallengeFails(g) \/ ClientHash(g)
    \/ sendAuthenticate(g) \/ SetAuthenticated(g)

Spec == Init /\ [][Next]_vars

----------------------------------------------------------------------------
(* Properties *)

Nonces == {NoNonces} \cup [client : Goroutines \X (0..MaxCalls), server : Nat]
ClientHashes == [prefix : {"client"}, cookie : Cookies, nonces : Nonces]
Proofs ==
  {Null} \cup [method : {"SAFECOOKIE"}, hash : ClientHashes]
  \cup [method : {"HASHEDPASSWORD"}, password : Passwords]
Infos == {Nil} \cup {Info(ms) : ms \in SUBSET Methods}

TypeOK ==
  /\ methods \in SUBSET Methods
  /\ connOpen \in BOOLEAN /\ accepted \in BOOLEAN /\ Authenticated \in BOOLEAN
  /\ challenge \in Nonces
  /\ protocolInfo \in Infos
  /\ pc \in [Goroutines -> Outside \cup Inside]
  /\ calls \in [Goroutines -> 0..MaxCalls]
  /\ password \in [Goroutines -> Passwords]
  /\ info \in [Goroutines -> Infos]
  /\ cookie \in [Goroutines -> Cookies]
  /\ nonces \in [Goroutines -> Nonces]
  /\ proof \in [Goroutines -> Proofs]
  /\ serverHashes \subseteq [prefix : {"server"}, cookie : Cookies, nonces : Nonces]
  /\ proofs \subseteq Proofs
  /\ overlap \in [Goroutines -> BOOLEAN] /\ fault \in [Goroutines -> BOOLEAN]

\* What goes to Tor: a password only when Tor allows neither NULL nor
\* SAFECOOKIE (cmd_authenticate.go:15-16), a client's hash only when Tor has
\* shown for the same nonces that it knows the same cookie (71-73).
CredentialSafe ==
  \A p \in proofs :
    /\ p.method \in methods
    /\ p.method = "HASHEDPASSWORD" => methods = {"HASHEDPASSWORD"}
    /\ p.method = "SAFECOOKIE" =>
         /\ "NULL" \notin methods
         /\ HMAC("server", p.hash.cookie, p.hash.nonces) \in serverHashes

\* A call that returns no error has an authenticated connection; a call that
\* fails had another beside it, or something outside was wrong, or what Tor
\* once said of its methods could not be read.  Only a call beside it can make
\* ProtocolInfo return nil without an error (cmd_protocolinfo.go:29-34).
NeverMistaken ==
  \A g \in Goroutines :
    /\ pc[g] = "nil" => accepted /\ Authenticated
    /\ pc[g] = "error" => overlap[g] \/ fault[g] \/ info[g].methods # methods
    /\ pc[g] = "panic" => overlap[g]
=============================================================================
