------------------------- MODULE ControlAuthProofs -------------------------
(***************************************************************************)
(* Authenticate is safe for any number of goroutines, calls and cookies.   *)
(***************************************************************************)
EXTENDS ControlAuth, TLAPS

----------------------------------------------------------------------------
(* The inductive invariant *)

\* What is known of the methods is all of them, or nothing.
InfoInv ==
  /\ protocolInfo \in {Nil, Info(methods), Info({})}
  /\ \A g \in Goroutines : info[g] \in {Nil, Info(methods), Info({})}

\* A proof that may go to Tor.
Sound(p) ==
  /\ p.method \in methods
  /\ p.method = "HASHEDPASSWORD" => methods = {"HASHEDPASSWORD"}
  /\ p.method = "SAFECOOKIE" =>
       /\ "NULL" \notin methods
       /\ HMAC("server", p.hash.cookie, p.hash.nonces) \in serverHashes

\* The way to each proof.
ProofInv ==
  /\ \A p \in proofs : Sound(p)
  /\ \A g \in Goroutines :
       /\ pc[g] \in {"file", "challenge", "respond"} =>
            "NULL" \notin methods /\ "SAFECOOKIE" \in methods
       /\ pc[g] = "respond" => HMAC("server", cookie[g], nonces[g]) \in serverHashes
       /\ pc[g] = "send" => Sound(proof[g])

\* The flag is set after Tor has accepted.
AcceptedInv ==
  /\ Authenticated => accepted
  /\ \A g \in Goroutines : /\ pc[g] = "accepted" => accepted
                           /\ pc[g] = "nil" => Authenticated

\* Two calls at a time know of each other.
AloneInv ==
  \A g, h \in Goroutines :
    g # h /\ pc[g] \notin Outside /\ pc[h] \notin Outside => overlap[g]

\* What a call by itself, with nothing wrong outside, has in its hands.
Undisturbed(g) ==
  /\ pc[g] = "store" /\ info[g] = Nil => fault[g]
  /\ pc[g] = "cached" => overlap[g] \/ protocolInfo # Nil
  /\ pc[g] = "choose" => overlap[g] \/ info[g] # Nil
  /\ pc[g] \in {"challenge", "respond"} => fault[g] \/ cookie[g] = TorCookie
  /\ pc[g] = "respond" => overlap[g] \/ nonces[g] = challenge
  /\ pc[g] = "send" => overlap[g] \/ fault[g] \/ TorAccepts(proof[g])
  /\ pc[g] = "error" => overlap[g] \/ fault[g] \/ info[g].methods # methods
  /\ pc[g] = "panic" => overlap[g]

UndisturbedInv == \A g \in Goroutines : Undisturbed(g)

Inv ==
  TypeOK /\ InfoInv /\ ProofInv /\ AcceptedInv /\ AloneInv /\ UndisturbedInv

USE DEF tor, conn, local, history, Goto, Blame

LEMMA Initially == Init => Inv
<1>. SUFFICES ASSUME Init PROVE Inv
  OBVIOUS
<1>. USE DEF Init, Outside
<1>1. TypeOK
  <2>1. Nil \in Infos /\ NoNonces \in Nonces /\ Null \in Proofs /\ "" \in Passwords
    BY DEF Infos, Nonces, Proofs, Passwords
  <2>2. pc \in [Goroutines -> Outside \cup Inside]
    OBVIOUS
  <2>3. calls \in [Goroutines -> 0..MaxCalls] /\ cookie \in [Goroutines -> Cookies]
    <3>. HIDE DEF Init
    <3>1. 0 \in 0..MaxCalls
      BY BoundAssumption
    <3>2. calls = [g \in Goroutines |-> 0] /\ cookie = [g \in Goroutines |-> TorCookie]
      BY DEF Init
    <3>. QED
      BY <3>1, <3>2, CookieAssumption
  <2>4. /\ info \in [Goroutines -> Infos] /\ nonces \in [Goroutines -> Nonces]
        /\ proof \in [Goroutines -> Proofs] /\ password \in [Goroutines -> Passwords]
        /\ protocolInfo \in Infos /\ challenge \in Nonces
    BY <2>1
  <2>5. overlap \in [Goroutines -> BOOLEAN] /\ fault \in [Goroutines -> BOOLEAN]
    OBVIOUS
  <2>6. /\ methods \in SUBSET Methods
        /\ connOpen \in BOOLEAN /\ accepted \in BOOLEAN /\ Authenticated \in BOOLEAN
        /\ serverHashes = {} /\ proofs = {}
    OBVIOUS
  <2>. HIDE DEF Init
  <2>. QED
    BY <2>2, <2>3, <2>4, <2>5, <2>6 DEF TypeOK
<1>2. InfoInv /\ ProofInv /\ AcceptedInv
  BY DEF InfoInv, ProofInv, AcceptedInv
<1>3. AloneInv /\ UndisturbedInv
  BY DEF AloneInv, UndisturbedInv, Undisturbed
<1>. QED
  BY <1>1, <1>2, <1>3 DEF Inv

LEMMA InfoParts ==
  ASSUME NEW ms
  PROVE  Nil.methods = {} /\ Info(ms).methods = ms /\ Info(ms) # Nil
  BY DEF Nil, Info

LEMMA InfoMethods ==
  ASSUME InfoInv, NEW g \in Goroutines
  PROVE  info[g].methods = methods \/ info[g].methods = {}
<1>1. info[g] = Nil \/ info[g] = Info(methods) \/ info[g] = Info({})
  BY DEF InfoInv
<1>2. CASE info[g] = Nil
  BY <1>2, InfoParts
<1>3. CASE info[g] = Info(methods)
  BY <1>3, InfoParts
<1>4. CASE info[g] = Info({})
  BY <1>4, InfoParts
<1>. QED
  BY <1>1, <1>2, <1>3, <1>4

LEMMA InfoTyped ==
  ASSUME methods \in SUBSET Methods
  PROVE  {Nil, Info(methods), Info({})} \subseteq Infos
  BY DEF Infos

LEMMA HashTyped ==
  ASSUME NEW c \in Cookies, NEW n \in Nonces
  PROVE  /\ HMAC("server", c, n) \in [prefix : {"server"}, cookie : Cookies, nonces : Nonces]
         /\ Cookie(HMAC("client", c, n)) \in Proofs
  BY DEF HMAC, Cookie, Proofs, ClientHashes

LEMMA TypeStep == TypeOK /\ InfoInv /\ [Next]_vars => TypeOK'
<1>. SUFFICES ASSUME TypeOK, InfoInv, [Next]_vars PROVE TypeOK'
  OBVIOUS
<1>. USE DEF TypeOK, Outside, Inside
<1>1. ASSUME NEW g \in Goroutines, Authenticate(g) PROVE TypeOK'
  <2>1. password' \in [Goroutines -> Passwords] /\ calls' \in [Goroutines -> 0..MaxCalls]
    BY <1>1, BoundAssumption DEF Authenticate
  <2>2. overlap' \in [Goroutines -> BOOLEAN]
    BY <1>1 DEF Authenticate
  <2>3. pc' \in [Goroutines -> Outside \cup Inside]
    BY <1>1 DEF Authenticate
  <2>. QED
    BY <1>1, <2>1, <2>2, <2>3 DEF Authenticate
<1>2. ASSUME NEW g \in Goroutines, CheckCache(g) PROVE TypeOK'
  BY <1>2 DEF CheckCache
<1>3. ASSUME NEW g \in Goroutines, sendProtocolInfo(g) PROVE TypeOK'
  <2>1. \E i \in {Nil, Info(methods), Info({})} : info' = [info EXCEPT ![g] = i]
    BY <1>3 DEF sendProtocolInfo
  <2>3. info' \in [Goroutines -> Infos]
    BY <2>1, InfoTyped
  <2>2. fault' \in [Goroutines -> BOOLEAN] /\ connOpen' \in BOOLEAN
    BY <1>3 DEF sendProtocolInfo
  <2>. QED
    BY <1>3, <2>3, <2>2 DEF sendProtocolInfo
<1>4. ASSUME NEW g \in Goroutines, StoreInfo(g) PROVE TypeOK'
  BY <1>4 DEF StoreInfo
<1>5. ASSUME NEW g \in Goroutines, ReadCache(g) PROVE TypeOK'
  BY <1>5 DEF ReadCache
<1>6. ASSUME NEW g \in Goroutines, ChooseMethod(g) PROVE TypeOK'
  <2>0. Null \in Proofs /\ \A p \in Passwords : Password(p) \in Proofs
    BY DEF Proofs, Password
  <2>1. proof' \in [Goroutines -> Proofs]
    <3>1. password[g] \in Passwords
      OBVIOUS
    <3>2. proof' \in {proof, [proof EXCEPT ![g] = Null],
                     [proof EXCEPT ![g] = Password(password[g])]}
      BY <1>6 DEF ChooseMethod
    <3>. QED
      BY <3>1, <3>2, <2>0
  <2>2. fault' \in [Goroutines -> BOOLEAN]
    BY <1>6 DEF ChooseMethod
  <2>. QED
    BY <1>6, <2>1, <2>2 DEF ChooseMethod
<1>7. ASSUME NEW g \in Goroutines, UseNilInfo(g) PROVE TypeOK'
  BY <1>7 DEF UseNilInfo
<1>8. ASSUME NEW g \in Goroutines, ReadCookieFile(g) PROVE TypeOK'
  <2>1. cookie' \in [Goroutines -> Cookies] /\ fault' \in [Goroutines -> BOOLEAN]
    BY <1>8 DEF ReadCookieFile
  <2>. QED
    BY <1>8, <2>1 DEF ReadCookieFile
<1>9. ASSUME NEW g \in Goroutines, AuthChallenge(g) PROVE TypeOK'
  <2>. DEFINE n == [client |-> <<g, calls[g]>>, server |-> challenge.server + 1]
  <2>1. challenge.server \in Nat
    BY DEF Nonces, NoNonces
  <2>2. n \in Nonces
    BY <2>1 DEF Nonces
  <2>3. challenge' = n /\ nonces' = [nonces EXCEPT ![g] = n]
        /\ serverHashes' = serverHashes \cup {HMAC("server", TorCookie, n)}
    BY <1>9 DEF AuthChallenge
  <2>4. HMAC("server", TorCookie, n) \in [prefix : {"server"}, cookie : Cookies, nonces : Nonces]
    BY <2>2, HashTyped, CookieAssumption
  <2>5. pc' \in [Goroutines -> Outside \cup Inside]
    BY <1>9 DEF AuthChallenge
  <2>6. UNCHANGED <<methods, connOpen, accepted, conn, calls, password, info, cookie, proof,
                 overlap, proofs>> /\ fault' \in [Goroutines -> BOOLEAN]
    BY <1>9 DEF AuthChallenge
  <2>. HIDE DEF n
  <2>. QED
    BY <2>2, <2>3, <2>4, <2>5, <2>6
<1>10. ASSUME NEW g \in Goroutines, AuthChallengeFails(g) PROVE TypeOK'
  BY <1>10 DEF AuthChallengeFails
<1>11. ASSUME NEW g \in Goroutines, ClientHash(g) PROVE TypeOK'
  <2>1. proof' \in [Goroutines -> Proofs]
    BY <1>11, HashTyped DEF ClientHash
  <2>. QED
    BY <1>11, <2>1 DEF ClientHash
<1>12. ASSUME NEW g \in Goroutines, sendAuthenticate(g) PROVE TypeOK'
  <2>1. proofs' \subseteq Proofs
    BY <1>12 DEF sendAuthenticate
  <2>2. /\ connOpen' \in BOOLEAN /\ accepted' \in BOOLEAN
        /\ pc' \in [Goroutines -> Outside \cup Inside] /\ fault' \in [Goroutines -> BOOLEAN]
    BY <1>12 DEF sendAuthenticate
  <2>. QED
    BY <1>12, <2>1, <2>2 DEF sendAuthenticate
<1>13. ASSUME NEW g \in Goroutines, SetAuthenticated(g) PROVE TypeOK'
  BY <1>13 DEF SetAuthenticated
<1>14. CASE UNCHANGED vars
  BY <1>14 DEF vars
<1>. QED
  BY <1>1, <1>2, <1>3, <1>4, <1>5, <1>6, <1>7, <1>8, <1>9, <1>10, <1>11, <1>12, <1>13,
     <1>14 DEF Next

LEMMA InfoStep == TypeOK /\ InfoInv /\ [Next]_vars => InfoInv'
<1>. SUFFICES ASSUME TypeOK, InfoInv, [Next]_vars PROVE InfoInv'
  OBVIOUS
<1>1. methods' = methods
  BY DEF Next, vars, Authenticate, CheckCache, sendProtocolInfo, StoreInfo, ReadCache, ChooseMethod,
     UseNilInfo, ReadCookieFile, AuthChallenge, AuthChallengeFails, ClientHash,
     sendAuthenticate, SetAuthenticated
<1>2. ASSUME NEW g \in Goroutines, sendProtocolInfo(g) PROVE InfoInv'
  <2>1. \E i \in {Nil, Info(methods), Info({})} : info' = [info EXCEPT ![g] = i]
    BY <1>2 DEF sendProtocolInfo
  <2>2. protocolInfo' = protocolInfo
    BY <1>2 DEF sendProtocolInfo
  <2>. QED
    BY <1>1, <2>1, <2>2 DEF InfoInv, TypeOK
<1>3. ASSUME NEW g \in Goroutines, StoreInfo(g) PROVE InfoInv'
  BY <1>1, <1>3 DEF StoreInfo, InfoInv
<1>4. ASSUME NEW g \in Goroutines, ReadCache(g) PROVE InfoInv'
  BY <1>1, <1>4 DEF ReadCache, InfoInv, TypeOK
<1>5. ASSUME UNCHANGED <<protocolInfo, info>> PROVE InfoInv'
  BY <1>1, <1>5 DEF InfoInv
<1>. QED
  BY <1>2, <1>3, <1>4, <1>5 DEF Next, vars, Authenticate, CheckCache, ChooseMethod,
     UseNilInfo, ReadCookieFile, AuthChallenge, AuthChallengeFails, ClientHash,
     sendAuthenticate, SetAuthenticated

LEMMA AcceptedStep == TypeOK /\ AcceptedInv /\ [Next]_vars => AcceptedInv'
<1>. SUFFICES ASSUME TypeOK, AcceptedInv, [Next]_vars PROVE AcceptedInv'
  OBVIOUS
<1>. USE DEF AcceptedInv
<1>0. pc \in [Goroutines -> Outside \cup Inside]
  BY DEF TypeOK
<1>1. ASSUME NEW g \in Goroutines, Authenticate(g) PROVE AcceptedInv'
  BY <1>0, <1>1 DEF Authenticate
<1>2. ASSUME NEW g \in Goroutines, sendAuthenticate(g) PROVE AcceptedInv'
  BY <1>0, <1>2 DEF sendAuthenticate
<1>3. ASSUME NEW g \in Goroutines, SetAuthenticated(g) PROVE AcceptedInv'
  BY <1>0, <1>3 DEF SetAuthenticated
<1>4. ASSUME NEW g \in Goroutines, NEW to \in (Outside \cup Inside) \ {"nil", "accepted"},
             pc' = [pc EXCEPT ![g] = to], UNCHANGED <<accepted, Authenticated>>
      PROVE  AcceptedInv'
  BY <1>0, <1>4
<1>5. CASE UNCHANGED vars
  BY <1>5 DEF vars
<1>6. ASSUME NEW g \in Goroutines,
             CheckCache(g) \/ sendProtocolInfo(g) \/ StoreInfo(g) \/ ReadCache(g)
               \/ ChooseMethod(g) \/ UseNilInfo(g) \/ ReadCookieFile(g) \/ AuthChallenge(g)
               \/ AuthChallengeFails(g) \/ ClientHash(g)
      PROVE  AcceptedInv'
  <2>1. UNCHANGED <<accepted, Authenticated>>
    BY <1>6 DEF CheckCache, sendProtocolInfo, StoreInfo, ReadCache, ChooseMethod,
       UseNilInfo, ReadCookieFile, AuthChallenge, AuthChallengeFails, ClientHash
  <2>2. \E to \in (Outside \cup Inside) \ {"nil", "accepted"} : pc' = [pc EXCEPT ![g] = to]
    BY <1>6 DEF CheckCache, sendProtocolInfo, StoreInfo, ReadCache, ChooseMethod,
       UseNilInfo, ReadCookieFile, AuthChallenge, AuthChallengeFails, ClientHash, Outside,
       Inside
  <2>. QED
    BY <1>4, <2>1, <2>2
<1>. QED
  BY <1>1, <1>2, <1>3, <1>5, <1>6 DEF Next

LEMMA AloneStep == TypeOK /\ AloneInv /\ [Next]_vars => AloneInv'
<1>. SUFFICES ASSUME TypeOK, AloneInv, [Next]_vars PROVE AloneInv'
  OBVIOUS
<1>. USE DEF AloneInv, TypeOK, Outside, Inside
<1>1. ASSUME NEW g \in Goroutines, Authenticate(g) PROVE AloneInv'
  BY <1>1 DEF Authenticate
<1>2. ASSUME NEW g \in Goroutines, overlap' = overlap, pc[g] \notin Outside,
             \A h \in Goroutines \ {g} : pc'[h] = pc[h]
      PROVE  AloneInv'
  BY <1>2
<1>3. CASE UNCHANGED vars
  BY <1>3 DEF vars
<1>4. ASSUME NEW g \in Goroutines,
             CheckCache(g) \/ sendProtocolInfo(g) \/ StoreInfo(g) \/ ReadCache(g)
               \/ ChooseMethod(g) \/ UseNilInfo(g) \/ ReadCookieFile(g) \/ AuthChallenge(g)
               \/ AuthChallengeFails(g) \/ ClientHash(g) \/ sendAuthenticate(g)
               \/ SetAuthenticated(g)
      PROVE  AloneInv'
  <2>1. overlap' = overlap /\ pc[g] \notin Outside
    BY <1>4 DEF CheckCache, sendProtocolInfo, StoreInfo, ReadCache, ChooseMethod, UseNilInfo,
       ReadCookieFile, AuthChallenge, AuthChallengeFails, ClientHash, sendAuthenticate,
       SetAuthenticated
  <2>2. \A h \in Goroutines \ {g} : pc'[h] = pc[h]
    BY <1>4 DEF CheckCache, sendProtocolInfo, StoreInfo, ReadCache, ChooseMethod, UseNilInfo,
       ReadCookieFile, AuthChallenge, AuthChallengeFails, ClientHash, sendAuthenticate,
       SetAuthenticated
  <2>. QED
    BY <1>2, <2>1, <2>2
<1>. QED
  BY <1>1, <1>3, <1>4 DEF Next

LEMMA SoundKept ==
  ASSUME NEW p, Sound(p), methods' = methods, serverHashes \subseteq serverHashes'
  PROVE  Sound(p)'
  BY DEF Sound

LEMMA ProofStep == TypeOK /\ InfoInv /\ ProofInv /\ [Next]_vars => ProofInv'
<1>. SUFFICES ASSUME TypeOK, InfoInv, ProofInv, [Next]_vars PROVE ProofInv'
  OBVIOUS
<1>. USE DEF ProofInv
<1>0. /\ pc \in [Goroutines -> Outside \cup Inside] /\ proof \in [Goroutines -> Proofs]
      /\ cookie \in [Goroutines -> Cookies] /\ nonces \in [Goroutines -> Nonces]
  BY DEF TypeOK
<1>1. ASSUME UNCHANGED <<methods, serverHashes, proofs, cookie, nonces, proof>>,
             NEW g \in Goroutines,
             NEW to, to \notin {"file", "challenge", "respond", "send"},
             pc' = [pc EXCEPT ![g] = to]
      PROVE  ProofInv'
  BY <1>0, <1>1 DEF Sound
<1>2. ASSUME NEW g \in Goroutines,
             Authenticate(g) \/ CheckCache(g) \/ sendProtocolInfo(g) \/ StoreInfo(g)
               \/ ReadCache(g) \/ UseNilInfo(g) \/ AuthChallengeFails(g)
               \/ SetAuthenticated(g)
      PROVE  ProofInv'
  <2>1. UNCHANGED <<methods, serverHashes, proofs, cookie, nonces, proof>>
    BY <1>2 DEF Authenticate, CheckCache, sendProtocolInfo, StoreInfo, ReadCache, UseNilInfo,
       AuthChallengeFails, SetAuthenticated
  <2>2. \E to \in (Outside \cup Inside) \ {"file", "challenge", "respond", "send"} :
           pc' = [pc EXCEPT ![g] = to]
    BY <1>2 DEF Authenticate, CheckCache, sendProtocolInfo, StoreInfo, ReadCache, UseNilInfo,
       AuthChallengeFails, SetAuthenticated, Outside, Inside
  <2>. QED
    BY <1>1, <2>1, <2>2
<1>3. ASSUME NEW g \in Goroutines, ChooseMethod(g) PROVE ProofInv'
  <2>1. /\ UNCHANGED <<methods, serverHashes, proofs, cookie, nonces>>
        /\ \A h \in Goroutines \ {g} : pc'[h] = pc[h] /\ proof'[h] = proof[h]
    BY <1>0, <1>3 DEF ChooseMethod
  <2>2. info[g].methods = methods \/ info[g].methods = {}
    BY InfoMethods
  <2>3. /\ pc'[g] \notin {"challenge", "respond"}
        /\ pc'[g] = "file" => "NULL" \notin methods /\ "SAFECOOKIE" \in methods
    BY <1>0, <1>3, <2>2 DEF ChooseMethod
  <2>4. pc'[g] = "send" =>
          \/ proof'[g] = Null /\ "NULL" \in methods
          \/ /\ proof'[g] = Password(password[g])
             /\ "HASHEDPASSWORD" \in methods /\ methods \cap {"NULL", "SAFECOOKIE"} = {}
    BY <1>0, <1>3, <2>2 DEF ChooseMethod
  <2>5. methods \subseteq {"NULL", "SAFECOOKIE", "HASHEDPASSWORD"}
    BY DEF TypeOK, Methods
  <2>6. pc'[g] = "send" => Sound(proof[g])'
    BY <2>1, <2>4, <2>5 DEF Sound, Null, Password
  <2>. QED
    BY <2>1, <2>3, <2>6 DEF Sound
<1>4. ASSUME NEW g \in Goroutines, ReadCookieFile(g) PROVE ProofInv'
  BY <1>0, <1>4 DEF ReadCookieFile, Sound
<1>5. ASSUME NEW g \in Goroutines, AuthChallenge(g) PROVE ProofInv'
  <2>. DEFINE n == [client |-> <<g, calls[g]>>, server |-> challenge.server + 1]
  <2>1. /\ nonces' = [nonces EXCEPT ![g] = n]
        /\ serverHashes' = serverHashes \cup {HMAC("server", TorCookie, n)}
        /\ UNCHANGED <<methods, proofs, cookie, proof>>
        /\ pc' = [pc EXCEPT ![g] = IF HMAC("server", TorCookie, n) = HMAC("server", cookie[g], n)
                                     THEN "respond" ELSE "error"]
        /\ pc[g] = "challenge"
    BY <1>5 DEF AuthChallenge
  <2>. HIDE DEF n
  <2>2. \A p : Sound(p) => Sound(p)'
    BY <2>1, SoundKept
  <2>3. pc'[g] = "respond" => HMAC("server", cookie'[g], nonces'[g]) \in serverHashes'
    BY <1>0, <2>1
  <2>. QED
    BY <1>0, <2>1, <2>2, <2>3
<1>6. ASSUME NEW g \in Goroutines, ClientHash(g) PROVE ProofInv'
  <2>1. /\ proof' = [proof EXCEPT ![g] = Cookie(HMAC("client", cookie[g], nonces[g]))]
        /\ pc' = [pc EXCEPT ![g] = "send"] /\ pc[g] = "respond"
        /\ UNCHANGED <<methods, serverHashes, proofs, cookie, nonces>>
    BY <1>6 DEF ClientHash
  <2>2. Sound(proof'[g])
    BY <1>0, <2>1 DEF Sound, Cookie, HMAC
  <2>. QED
    BY <1>0, <2>1, <2>2 DEF Sound
<1>7. ASSUME NEW g \in Goroutines, sendAuthenticate(g) PROVE ProofInv'
  <2>1. /\ UNCHANGED <<methods, serverHashes, cookie, nonces, proof>>
        /\ proofs' = proofs \cup {proof[g]} /\ pc[g] = "send"
        /\ pc' = [pc EXCEPT ![g] = "accepted"] \/ pc' = [pc EXCEPT ![g] = "error"]
    BY <1>7 DEF sendAuthenticate
  <2>. QED
    BY <1>0, <2>1 DEF Sound
<1>8. CASE UNCHANGED vars
  BY <1>8 DEF vars, Sound
<1>. QED
  BY <1>2, <1>3, <1>4, <1>5, <1>6, <1>7, <1>8 DEF Next

LEMMA UndisturbedStep ==
  TypeOK /\ InfoInv /\ ProofInv /\ AloneInv /\ UndisturbedInv /\ [Next]_vars
    => UndisturbedInv'
<1>. SUFFICES ASSUME TypeOK, InfoInv, ProofInv, AloneInv, UndisturbedInv, [Next]_vars
              PROVE  UndisturbedInv'
  OBVIOUS
<1>0. /\ pc \in [Goroutines -> Outside \cup Inside] /\ info \in [Goroutines -> Infos]
      /\ cookie \in [Goroutines -> Cookies] /\ nonces \in [Goroutines -> Nonces]
      /\ proof \in [Goroutines -> Proofs] /\ overlap \in [Goroutines -> BOOLEAN]
      /\ fault \in [Goroutines -> BOOLEAN] /\ calls \in [Goroutines -> 0..MaxCalls]
  BY DEF TypeOK
<1>1. ASSUME NEW g \in Goroutines, NEW h \in Goroutines, h # g, methods' = methods,
             pc'[h] = pc[h], info'[h] = info[h], cookie'[h] = cookie[h],
             nonces'[h] = nonces[h], proof'[h] = proof[h], fault'[h] = fault[h],
             overlap[h] => overlap'[h],
             pc[g] \notin Outside \/ UNCHANGED <<protocolInfo, challenge>>
      PROVE  Undisturbed(h)'
  <2>1. Undisturbed(h)
    BY DEF UndisturbedInv
  <2>2. CASE UNCHANGED <<protocolInfo, challenge>>
    BY <1>1, <2>1, <2>2 DEF Undisturbed, TorAccepts
  <2>3. CASE pc[g] \notin Outside /\ pc[h] \notin Outside
    <3>1. overlap'[h]
      BY <1>1, <2>3 DEF AloneInv
    <3>. QED
      BY <1>1, <2>1, <2>3, <3>1 DEF Undisturbed, Outside
  <2>4. CASE pc[h] \in Outside
    BY <1>1, <2>1, <2>4 DEF Undisturbed, Outside
  <2>. QED
    BY <1>1, <2>2, <2>3, <2>4
<1>2. ASSUME NEW g \in Goroutines, Authenticate(g) PROVE UndisturbedInv'
  <2>1. Undisturbed(g)'
    BY <1>0, <1>2 DEF Authenticate, Undisturbed
  <2>2. ASSUME NEW h \in Goroutines, h # g PROVE Undisturbed(h)'
    BY <1>0, <1>1, <1>2, <2>2 DEF Authenticate
  <2>. QED
    BY <2>1, <2>2 DEF UndisturbedInv
<1>3. ASSUME NEW g \in Goroutines, CheckCache(g) PROVE UndisturbedInv'
  <2>1. Undisturbed(g)'
    BY <1>0, <1>3 DEF CheckCache, Undisturbed
  <2>2. ASSUME NEW h \in Goroutines, h # g PROVE Undisturbed(h)'
    BY <1>0, <1>1, <1>3, <2>2 DEF CheckCache
  <2>. QED
    BY <2>1, <2>2 DEF UndisturbedInv
<1>4. ASSUME NEW g \in Goroutines, sendProtocolInfo(g) PROVE UndisturbedInv'
  <2>0. pc'[g] = "store"
    BY <1>0, <1>4 DEF sendProtocolInfo
  <2>3. info'[g] = Nil => fault'[g]
    <3>1. CASE \E ms : info' = [info EXCEPT ![g] = Info(ms)]
      BY <1>0, <3>1, InfoParts
    <3>2. CASE fault' = [fault EXCEPT ![g] = fault[g] \/ TRUE]
      BY <1>0, <3>2
    <3>. QED
      BY <1>4, <3>1, <3>2 DEF sendProtocolInfo
  <2>1. Undisturbed(g)'
    BY <2>0, <2>3 DEF Undisturbed
  <2>2. ASSUME NEW h \in Goroutines, h # g PROVE Undisturbed(h)'
    BY <1>0, <1>1, <1>4, <2>2 DEF sendProtocolInfo
  <2>. QED
    BY <2>1, <2>2 DEF UndisturbedInv
<1>5. ASSUME NEW g \in Goroutines, StoreInfo(g) PROVE UndisturbedInv'
  <2>0. Undisturbed(g)
    BY DEF UndisturbedInv
  <2>1. Undisturbed(g)'
    BY <1>0, <1>5, <2>0 DEF StoreInfo, Undisturbed
  <2>2. ASSUME NEW h \in Goroutines, h # g PROVE Undisturbed(h)'
    BY <1>0, <1>1, <1>5, <2>2 DEF StoreInfo, Outside
  <2>. QED
    BY <2>1, <2>2 DEF UndisturbedInv
<1>6. ASSUME NEW g \in Goroutines, ReadCache(g) PROVE UndisturbedInv'
  <2>0. Undisturbed(g)
    BY DEF UndisturbedInv
  <2>1. Undisturbed(g)'
    BY <1>0, <1>6, <2>0 DEF ReadCache, Undisturbed
  <2>2. ASSUME NEW h \in Goroutines, h # g PROVE Undisturbed(h)'
    BY <1>0, <1>1, <1>6, <2>2 DEF ReadCache
  <2>. QED
    BY <2>1, <2>2 DEF UndisturbedInv
<1>7. ASSUME NEW g \in Goroutines, ChooseMethod(g) PROVE UndisturbedInv'
  <2>0. info[g].methods = methods \/ info[g].methods = {}
    BY InfoMethods
  <2>1. /\ pc'[g] \in {"send", "file", "error"}
        /\ UNCHANGED <<methods, challenge, info, overlap>>
        /\ pc'[g] = "error" => fault'[g] \/ info[g].methods # methods
        /\ pc'[g] = "send" =>
             \/ proof'[g] = Null /\ "NULL" \in methods
             \/ /\ proof'[g] = Password(password[g]) /\ "HASHEDPASSWORD" \in methods
                /\ fault'[g] \/ password[g] = "right"
    BY <1>0, <1>7, <2>0 DEF ChooseMethod
  <2>2. Undisturbed(g)'
    BY <2>1 DEF Undisturbed, TorAccepts, Null, Password
  <2>3. ASSUME NEW h \in Goroutines, h # g PROVE Undisturbed(h)'
    BY <1>0, <1>1, <1>7, <2>3 DEF ChooseMethod
  <2>. QED
    BY <2>2, <2>3 DEF UndisturbedInv
<1>8. ASSUME NEW g \in Goroutines, UseNilInfo(g) PROVE UndisturbedInv'
  <2>0. Undisturbed(g)
    BY DEF UndisturbedInv
  <2>1. Undisturbed(g)'
    BY <1>0, <1>8, <2>0 DEF UseNilInfo, Undisturbed
  <2>2. ASSUME NEW h \in Goroutines, h # g PROVE Undisturbed(h)'
    BY <1>0, <1>1, <1>8, <2>2 DEF UseNilInfo
  <2>. QED
    BY <2>1, <2>2 DEF UndisturbedInv
<1>9. ASSUME NEW g \in Goroutines, ReadCookieFile(g) PROVE UndisturbedInv'
  <2>1. Undisturbed(g)'
    BY <1>0, <1>9 DEF ReadCookieFile, Undisturbed
  <2>2. ASSUME NEW h \in Goroutines, h # g PROVE Undisturbed(h)'
    BY <1>0, <1>1, <1>9, <2>2 DEF ReadCookieFile
  <2>. QED
    BY <2>1, <2>2 DEF UndisturbedInv
<1>10. ASSUME NEW g \in Goroutines, AuthChallenge(g) PROVE UndisturbedInv'
  <2>. DEFINE n == [client |-> <<g, calls[g]>>, server |-> challenge.server + 1]
  <2>0. /\ Undisturbed(g) /\ pc[g] = "challenge"
        /\ challenge' = n /\ nonces' = [nonces EXCEPT ![g] = n]
        /\ pc' = [pc EXCEPT ![g] = IF HMAC("server", TorCookie, n) = HMAC("server", cookie[g], n)
                                     THEN "respond" ELSE "error"]
        /\ fault' = [fault EXCEPT ![g] = fault[g] \/ FALSE]
        /\ UNCHANGED <<methods, protocolInfo, info, cookie, proof, overlap>>
    BY <1>10 DEF AuthChallenge, UndisturbedInv
  <2>. HIDE DEF n
  <2>3. fault[g] \/ cookie[g] = TorCookie
    BY <2>0 DEF Undisturbed
  <2>1. Undisturbed(g)'
    <3>1. /\ nonces'[g] = challenge' /\ cookie'[g] = cookie[g] /\ fault'[g] = fault[g]
          /\ pc'[g] \in {"respond", "error"} /\ (pc'[g] = "error" => cookie[g] # TorCookie)
      BY <1>0, <2>0
    <3>. QED
      BY <2>3, <3>1 DEF Undisturbed
  <2>2. ASSUME NEW h \in Goroutines, h # g PROVE Undisturbed(h)'
    BY <1>0, <1>1, <2>0, <2>2 DEF Outside
  <2>. QED
    BY <2>1, <2>2 DEF UndisturbedInv
<1>11. ASSUME NEW g \in Goroutines, AuthChallengeFails(g) PROVE UndisturbedInv'
  <2>1. Undisturbed(g)'
    BY <1>0, <1>11 DEF AuthChallengeFails, Undisturbed
  <2>2. ASSUME NEW h \in Goroutines, h # g PROVE Undisturbed(h)'
    BY <1>0, <1>1, <1>11, <2>2 DEF AuthChallengeFails
  <2>. QED
    BY <2>1, <2>2 DEF UndisturbedInv
<1>12. ASSUME NEW g \in Goroutines, ClientHash(g), "SAFECOOKIE" \in methods
       PROVE  UndisturbedInv'
  <2>0. /\ Undisturbed(g) /\ pc[g] = "respond"
        /\ proof' = [proof EXCEPT ![g] = Cookie(HMAC("client", cookie[g], nonces[g]))]
        /\ pc' = [pc EXCEPT ![g] = "send"]
        /\ UNCHANGED <<methods, challenge, protocolInfo, info, cookie, nonces, overlap, fault>>
    BY <1>12 DEF ClientHash, UndisturbedInv
  <2>3. /\ fault[g] \/ cookie[g] = TorCookie
        /\ overlap[g] \/ nonces[g] = challenge
    BY <2>0 DEF Undisturbed
  <2>4. overlap[g] \/ fault[g] \/ TorAccepts(proof[g])'
    BY <1>0, <1>12, <2>0, <2>3 DEF TorAccepts, Cookie, HMAC
  <2>1. Undisturbed(g)'
    BY <1>0, <2>0, <2>4 DEF Undisturbed
  <2>2. ASSUME NEW h \in Goroutines, h # g PROVE Undisturbed(h)'
    BY <1>0, <1>1, <2>0, <2>2
  <2>. QED
    BY <2>1, <2>2 DEF UndisturbedInv
<1>13. ASSUME NEW g \in Goroutines, sendAuthenticate(g) PROVE UndisturbedInv'
  <2>0. Undisturbed(g)
    BY DEF UndisturbedInv
  <2>1. Undisturbed(g)'
    BY <1>0, <1>13, <2>0 DEF sendAuthenticate, Undisturbed
  <2>2. ASSUME NEW h \in Goroutines, h # g PROVE Undisturbed(h)'
    BY <1>0, <1>1, <1>13, <2>2 DEF sendAuthenticate
  <2>. QED
    BY <2>1, <2>2 DEF UndisturbedInv
<1>14. ASSUME NEW g \in Goroutines, SetAuthenticated(g) PROVE UndisturbedInv'
  <2>1. Undisturbed(g)'
    BY <1>0, <1>14 DEF SetAuthenticated, Undisturbed
  <2>2. ASSUME NEW h \in Goroutines, h # g PROVE Undisturbed(h)'
    BY <1>0, <1>1, <1>14, <2>2 DEF SetAuthenticated
  <2>. QED
    BY <2>1, <2>2 DEF UndisturbedInv
<1>15. CASE UNCHANGED vars
  BY <1>15 DEF vars, UndisturbedInv, Undisturbed, TorAccepts
<1>16. ASSUME NEW g \in Goroutines, ClientHash(g) PROVE "SAFECOOKIE" \in methods
  BY <1>16 DEF ClientHash, ProofInv
<1>. QED
  BY <1>2, <1>3, <1>4, <1>5, <1>6, <1>7, <1>8, <1>9, <1>10, <1>11, <1>12, <1>13, <1>14,
     <1>15, <1>16 DEF Next

----------------------------------------------------------------------------
(* What follows *)

LEMMA InvHolds == Spec => []Inv
<1>1. Init => Inv
  BY Initially
<1>2. Inv /\ [Next]_vars => Inv'
  BY TypeStep, InfoStep, AcceptedStep, AloneStep, ProofStep, UndisturbedStep DEF Inv
<1>. QED
  BY <1>1, <1>2, PTL DEF Spec

\* Every variable keeps its type (cmd_authenticate.go).
THEOREM TypeCorrect == Spec => []TypeOK
<1>1. Inv => TypeOK
  BY DEF Inv
<1>. QED
  BY <1>1, InvHolds, PTL

\* A password goes out only as the last resort, and a hash only after Tor's own
\* was verified (cmd_authenticate.go:14-17, 64-73).
THEOREM CredentialsSafe == Spec => []CredentialSafe
<1>1. Inv => CredentialSafe
  BY DEF Inv, ProofInv, Sound, CredentialSafe
<1>. QED
  BY <1>1, InvHolds, PTL

\* Success means an authenticated connection, failure a reason outside the call
\* (cmd_authenticate.go:18-101).
THEOREM OutcomeSound == Spec => []NeverMistaken
<1>1. Inv => NeverMistaken
  BY DEF Inv, AcceptedInv, UndisturbedInv, Undisturbed, NeverMistaken
<1>. QED
  BY <1>1, InvHolds, PTL
=============================================================================
