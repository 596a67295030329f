----------------------- MODULE ControlConnOrderProofs -----------------------
(***************************************************************************)
(* The order in which goroutines read, close and send, for any number of   *)
(* callers, EventWait calls and events: a command's reply is read by the   *)
(* goroutine that sent it (ReplyMatch), EventWait closes its channel after *)
(* the last send on it (SafeClose), and events reach the channels          *)
(* registered for them once and in Tor's order (InOrderDelivery).          *)
(***************************************************************************)
EXTENDS ControlConnProofs

----------------------------------------------------------------------------
(* The socket and the response sequencer                                    *)

\* The replies in the socket carry consecutive numbers, from respTurn on.
RepliesInv ==
  /\ \A i \in 1..Len(inbox) :
       inbox[i].kind = "reply" =>
         /\ inbox[i].n >= respTurn
         /\ inbox[i].n > respTurn =>
              \E j \in 1..(i-1) :
                inbox[j].kind = "reply" /\ inbox[j].n = inbox[i].n - 1
  /\ \A i, j \in 1..Len(inbox) :
       inbox[i].kind = "reply" /\ inbox[j].kind = "reply" /\ i < j
         => inbox[i].n < inbox[j].n

\* The number of the first command Tor has not answered.
Unanswered == nextId - Len(wire)

\* While the link is up, the commands Tor has not answered are the last ones
\* numbered, and every earlier one is answered in the socket or read.
WireInv ==
  linkUp =>
    /\ ~broken
    /\ \A j \in 1..Len(wire) : wire[j].id = Unanswered + j - 1
    /\ Unanswered >= respTurn
    /\ \A i \in 1..Len(inbox) :
         inbox[i].kind = "reply" => inbox[i].n < Unanswered
    /\ Unanswered > respTurn =>
         \E i \in 1..Len(inbox) :
           inbox[i].kind = "reply" /\ inbox[i].n = Unanswered - 1

\* A caller past StartResponse waits for the reply whose turn it is.
TurnInv ==
  \A p \in Callers : pc[p] \in {"read", "relay"} => call[p].id = respTurn

ReplyInv == RepliesInv /\ WireInv /\ TurnInv

----------------------------------------------------------------------------
(* What a step does to the socket *)

\* The facts about numbers that the steps below rest on.
LEMMA Numbers ==
  ASSUME TypeOK
  PROVE  /\ nextId \in Nat /\ respTurn \in Nat
         /\ inbox \in Seq(Messages) /\ Len(inbox) \in Nat
         /\ \A i \in 1..Len(inbox) : inbox[i].n \in Nat
         /\ wire \in Seq(Commands) /\ Len(wire) \in Nat
         /\ \A j \in 1..Len(wire) : wire[j].id \in Nat
         /\ Unanswered \in Int
<1>1. nextId \in Nat /\ respTurn \in Nat
  BY DEF TypeOK
<1>2. inbox \in Seq(Messages) /\ wire \in Seq(Commands)
  BY DEF TypeOK
<1>3. /\ Len(inbox) \in Nat /\ \A i \in 1..Len(inbox) : inbox[i] \in Messages
      /\ Len(wire) \in Nat /\ \A j \in 1..Len(wire) : wire[j] \in Commands
  BY <1>2
<1> QED
  BY <1>1, <1>2, <1>3 DEF Messages, Commands, Unanswered

\* A message is taken off the socket: the reply whose turn it is, or an event.
LEMMA TailReplies ==
  ASSUME TypeOK, RepliesInv, inbox # <<>>, inbox' = Tail(inbox),
         Head(inbox).kind = "reply" => respTurn' = respTurn + 1,
         Head(inbox).kind # "reply" => respTurn' = respTurn
  PROVE  /\ Head(inbox).kind = "reply" => Head(inbox).n = respTurn
         /\ RepliesInv'
         /\ WireInv /\ UNCHANGED <<linkUp, broken, nextId, wire>> => WireInv'
<1>1. /\ Len(inbox) \in Nat /\ Len(inbox) > 0 /\ Head(inbox) = inbox[1]
      /\ Len(inbox') = Len(inbox) - 1
      /\ \A i \in 1..Len(inbox') : inbox'[i] = inbox[i+1]
  BY Numbers, HeadTailProperties
<1>2. ASSUME Head(inbox).kind = "reply"
      PROVE  inbox[1].n = respTurn
  BY <1>1, <1>2, Numbers DEF RepliesInv
<1>3. ASSUME NEW i \in 1..Len(inbox'), inbox'[i].kind = "reply"
      PROVE  /\ inbox'[i].n >= respTurn'
             /\ inbox'[i].n > respTurn' =>
                  \E j \in 1..(i-1) :
                    inbox'[j].kind = "reply" /\ inbox'[j].n = inbox'[i].n - 1
  <2>1. /\ i + 1 \in 1..Len(inbox) /\ inbox'[i] = inbox[i+1]
        /\ inbox[i+1].kind = "reply" /\ inbox[i+1].n \in Nat
        /\ inbox[i+1].n >= respTurn /\ respTurn \in Nat
    BY <1>1, <1>3, Numbers DEF RepliesInv
  <2>2. CASE Head(inbox).kind = "reply"
    <3>1. respTurn' = respTurn + 1 /\ inbox[1].kind = "reply"
      BY <1>1, <2>2
    <3>2. inbox[1].n < inbox[i+1].n
      BY <1>1, <2>1, <3>1 DEF RepliesInv
    <3>3. ASSUME inbox'[i].n > respTurn'
          PROVE  \E j \in 1..(i-1) :
                   inbox'[j].kind = "reply" /\ inbox'[j].n = inbox'[i].n - 1
      <4>1. PICK j \in 1..i :
              inbox[j].kind = "reply" /\ inbox[j].n = inbox[i+1].n - 1
        BY <2>1, <3>1, <3>3 DEF RepliesInv
      <4>2. j # 1
        BY <1>2, <2>1, <2>2, <3>1, <3>3, <4>1
      <4>3. j - 1 \in 1..(i-1) /\ j - 1 \in 1..Len(inbox')
        BY <1>1, <4>2
      <4>4. inbox'[j-1] = inbox[j]
        BY <1>1, <4>3
      <4> QED
        BY <2>1, <4>1, <4>3, <4>4
    <3> QED
      BY <1>2, <2>1, <2>2, <3>1, <3>2, <3>3
  <2>3. CASE Head(inbox).kind # "reply"
    <3>1. ASSUME inbox'[i].n > respTurn'
          PROVE  \E j \in 1..(i-1) :
                   inbox'[j].kind = "reply" /\ inbox'[j].n = inbox'[i].n - 1
      <4>1. PICK j \in 1..i :
              inbox[j].kind = "reply" /\ inbox[j].n = inbox[i+1].n - 1
        BY <2>1, <2>3, <3>1 DEF RepliesInv
      <4>2. j # 1
        BY <1>1, <2>3, <4>1
      <4>3. j - 1 \in 1..(i-1) /\ j - 1 \in 1..Len(inbox')
        BY <1>1, <4>2
      <4>4. inbox'[j-1] = inbox[j]
        BY <1>1, <4>3
      <4> QED
        BY <2>1, <4>1, <4>3, <4>4
    <3> QED
      BY <2>1, <2>3, <3>1
  <2> QED
    BY <2>2, <2>3
<1>4. ASSUME NEW i \in 1..Len(inbox'), NEW j \in 1..Len(inbox'),
             inbox'[i].kind = "reply", inbox'[j].kind = "reply", i < j
      PROVE  inbox'[i].n < inbox'[j].n
  BY <1>1, <1>4 DEF RepliesInv
<1>5. RepliesInv'
  BY <1>3, <1>4 DEF RepliesInv
<1>6. ASSUME WireInv, UNCHANGED <<linkUp, broken, nextId, wire>>
      PROVE  WireInv'
  <2> SUFFICES ASSUME linkUp PROVE WireInv'
    BY <1>6 DEF WireInv
  <2>1. Unanswered' = Unanswered /\ Unanswered \in Int
    BY <1>6, Numbers DEF Unanswered
  <2>2. \A i \in 1..Len(inbox') :
          inbox'[i].kind = "reply" => inbox'[i].n < Unanswered'
    BY <1>1, <1>6, <2>1 DEF WireInv
  <2>3. Unanswered' >= respTurn'
    BY <1>1, <1>2, <1>6, <2>1, Numbers DEF WireInv
  <2>4. ASSUME Unanswered' > respTurn'
        PROVE  \E i \in 1..Len(inbox') :
                 inbox'[i].kind = "reply" /\ inbox'[i].n = Unanswered' - 1
    <3>1. Unanswered > respTurn
      BY <2>1, <2>4, Numbers
    <3>2. PICK i \in 1..Len(inbox) :
            inbox[i].kind = "reply" /\ inbox[i].n = Unanswered - 1
      BY <1>6, <3>1 DEF WireInv
    <3>3. i # 1
      BY <1>1, <1>2, <2>1, <2>4, <3>2, Numbers
    <3>4. i - 1 \in 1..Len(inbox') /\ inbox'[i-1] = inbox[i]
      BY <1>1, <3>3
    <3> QED
      BY <2>1, <3>2, <3>4
  <2> QED
    BY <1>6, <2>1, <2>2, <2>3, <2>4 DEF WireInv
<1> QED
  BY <1>1, <1>2, <1>5, <1>6

\* What stays readable when the link is lost are the first messages.
LEMMA LoseLinkReplies ==
  ASSUME TypeOK, RepliesInv, LoseLink, respTurn' = respTurn
  PROVE  RepliesInv' /\ WireInv'
<1>1. PICK n \in 0..Len(inbox) : inbox' = SubSeq(inbox, 1, n)
  BY DEF LoseLink
<1>2. Len(inbox') = n /\ \A i \in 1..n : inbox'[i] = inbox[i]
  BY <1>1, Numbers, SubSeqProperties
<1>3. n <= Len(inbox) /\ Len(inbox) \in Nat /\ n \in Nat
  BY Numbers
<1>4. ASSUME NEW i \in 1..n, inbox[i].kind = "reply"
      PROVE  /\ inbox[i].n >= respTurn
             /\ inbox[i].n > respTurn =>
                  \E j \in 1..(i-1) :
                    inbox'[j].kind = "reply" /\ inbox'[j].n = inbox[i].n - 1
  <2>1. \A j \in 1..(i-1) : inbox'[j] = inbox[j]
    BY <1>2, <1>3
  <2> QED
    BY <1>3, <1>4, <2>1 DEF RepliesInv
<1>5. \A i, j \in 1..n :
        inbox[i].kind = "reply" /\ inbox[j].kind = "reply" /\ i < j
          => inbox[i].n < inbox[j].n
  BY <1>3 DEF RepliesInv
<1>6. RepliesInv'
  BY <1>2, <1>4, <1>5 DEF RepliesInv
<1>7. WireInv'
  BY DEF LoseLink, WireInv
<1> QED
  BY <1>6, <1>7

\* Tor writes a message: an event, or a reply that carries on the numbering.
LEMMA AppendReplies ==
  ASSUME TypeOK, RepliesInv, WireInv, linkUp, respTurn' = respTurn,
         NEW m \in Messages, inbox' = Append(inbox, m),
         m.kind = "reply" => m.n = Unanswered
  PROVE  RepliesInv'
<1> DEFINE last == Len(inbox) + 1
<1>1. /\ Len(inbox) \in Nat /\ Len(inbox') = last /\ inbox'[last] = m
      /\ \A i \in 1..Len(inbox) : inbox'[i] = inbox[i]
  BY Numbers, AppendProperties
<1>2. \A i \in 1..last : i \in 1..Len(inbox) \/ i = last
  BY <1>1
<1>3. ASSUME NEW i \in 1..last, inbox'[i].kind = "reply"
      PROVE  /\ inbox'[i].n >= respTurn
             /\ inbox'[i].n > respTurn =>
                  \E j \in 1..(i-1) :
                    inbox'[j].kind = "reply" /\ inbox'[j].n = inbox'[i].n - 1
  <2>1. CASE i \in 1..Len(inbox)
    <3>1. inbox'[i] = inbox[i] /\ \A j \in 1..(i-1) : inbox'[j] = inbox[j]
      BY <1>1, <2>1
    <3> QED
      BY <1>3, <2>1, <3>1 DEF RepliesInv
  <2>2. CASE i = last
    <3>1. inbox'[i] = m /\ m.n = Unanswered /\ 1..(i-1) = 1..Len(inbox)
      BY <1>1, <1>3, <2>2
    <3>2. \A j \in 1..(i-1) : inbox'[j] = inbox[j]
      BY <1>1, <3>1
    <3> QED
      BY <3>1, <3>2 DEF WireInv
  <2> QED
    BY <1>2, <2>1, <2>2
<1>4. ASSUME NEW i \in 1..last, NEW j \in 1..last,
             inbox'[i].kind = "reply", inbox'[j].kind = "reply", i < j
      PROVE  inbox'[i].n < inbox'[j].n
  <2>1. i \in 1..Len(inbox) /\ inbox'[i] = inbox[i]
    BY <1>1, <1>4
  <2>2. CASE j \in 1..Len(inbox)
    BY <1>1, <1>4, <2>1, <2>2 DEF RepliesInv
  <2>3. CASE j = last
    <3>1. inbox'[j] = m /\ m.n = Unanswered
      BY <1>1, <1>4, <2>3
    <3>2. inbox[i].n < Unanswered
      BY <1>4, <2>1 DEF WireInv
    <3> QED
      BY <2>1, <3>1, <3>2
  <2> QED
    BY <1>2, <2>2, <2>3
<1> HIDE DEF last
<1> QED
  BY <1>1, <1>3, <1>4 DEF RepliesInv

\* Tor answers the first command it has not answered.
LEMMA AnswerReplies ==
  ASSUME TypeOK, RepliesInv, WireInv,
         NEW o, NEW status \in Statuses, Answer(o, status)
  PROVE  RepliesInv' /\ WireInv'
<1> DEFINE m == Reply(Head(wire).id, status)
           last == Len(inbox) + 1
<1>1. /\ wire # <<>> /\ wire' = Tail(wire) /\ inbox' = Append(inbox, m)
      /\ linkUp /\ UNCHANGED <<nextId, respTurn, broken>>
  BY DEF Answer, TorRuns, pipe
<1>2. /\ Len(wire) \in Nat /\ Len(wire) > 0 /\ Head(wire) = wire[1]
      /\ Len(wire') = Len(wire) - 1
      /\ \A j \in 1..Len(wire') : wire'[j] = wire[j+1]
  BY <1>1, Numbers, HeadTailProperties
<1>3. wire[1].id = Unanswered /\ wire[1] \in Commands
  BY <1>1, <1>2, Numbers DEF WireInv
<1>4. m \in Messages /\ m.kind = "reply" /\ m.n = Unanswered
  BY <1>2, <1>3 DEF Reply, Messages, Commands
<1> HIDE DEF m
<1>5. RepliesInv'
  BY <1>1, <1>4, AppendReplies
<1>6. Unanswered' = Unanswered + 1 /\ Unanswered \in Int
  BY <1>1, <1>2, Numbers DEF Unanswered
<1>7. /\ Len(inbox) \in Nat /\ Len(inbox') = last /\ inbox'[last] = m
      /\ \A i \in 1..Len(inbox) : inbox'[i] = inbox[i]
  BY <1>1, <1>4, Numbers, AppendProperties
<1>8. \A j \in 1..Len(wire') : wire'[j].id = Unanswered' + j - 1
  <2>1. ASSUME NEW j \in 1..Len(wire')
        PROVE  wire[j+1].id = Unanswered + (j+1) - 1
    <3>1. j + 1 \in 1..Len(wire)
      BY <1>2
    <3> QED
      BY <1>1, <3>1 DEF WireInv
  <2> QED
    BY <1>2, <1>6, <2>1
<1>9. \A i \in 1..Len(inbox') :
        inbox'[i].kind = "reply" => inbox'[i].n < Unanswered'
  <2>1. ASSUME NEW i \in 1..Len(inbox'), inbox'[i].kind = "reply"
        PROVE  inbox'[i].n < Unanswered'
    <3>1. CASE i \in 1..Len(inbox)
      BY <1>1, <1>6, <1>7, <2>1, <3>1, Numbers DEF WireInv
    <3>2. CASE i = last
      BY <1>4, <1>6, <1>7, <3>2
    <3> QED
      BY <1>7, <3>1, <3>2
  <2> QED
    BY <2>1
<1>10. Unanswered' >= respTurn'
  BY <1>1, <1>6, Numbers DEF WireInv
<1>11. inbox'[last].kind = "reply" /\ inbox'[last].n = Unanswered' - 1
  BY <1>4, <1>6, <1>7
<1> QED
  BY <1>1, <1>5, <1>7, <1>8, <1>9, <1>10, <1>11 DEF WireInv

\* A command is written and numbered.
LEMMA CmdReplies ==
  ASSUME TypeOK, WireInv, NEW c \in Commands, c.id = nextId,
         nextId' = nextId + 1, wire' = Append(wire, c),
         UNCHANGED <<linkUp, broken, inbox, respTurn>>
  PROVE  WireInv'
<1> SUFFICES ASSUME linkUp PROVE WireInv'
  BY DEF WireInv
<1> DEFINE last == Len(wire) + 1
<1>1. /\ Len(wire) \in Nat /\ Len(wire') = last /\ wire'[last] = c
      /\ \A j \in 1..Len(wire) : wire'[j] = wire[j]
  BY Numbers, AppendProperties
<1>2. Unanswered' = Unanswered /\ Unanswered + last - 1 = nextId
  BY <1>1, Numbers DEF Unanswered
<1>3. \A j \in 1..Len(wire') : wire'[j].id = Unanswered' + j - 1
  <2>1. ASSUME NEW j \in 1..last
        PROVE  wire'[j].id = Unanswered' + j - 1
    <3>1. CASE j \in 1..Len(wire)
      BY <1>1, <1>2, <3>1 DEF WireInv
    <3>2. CASE j = last
      BY <1>1, <1>2, <3>2
    <3> QED
      BY <1>1, <3>1, <3>2
  <2> QED
    BY <1>1, <2>1
<1> QED
  BY <1>2, <1>3 DEF WireInv

\* Tor writes an event.
LEMMA EmitReplies ==
  ASSUME TypeOK, RepliesInv, WireInv, NEW c \in Codes, Emit(c)
  PROVE  RepliesInv' /\ WireInv'
<1> DEFINE m == Event(Len(log) + 1)
<1>1. /\ inbox' = Append(inbox, m) /\ linkUp
      /\ UNCHANGED <<linkUp, nextId, respTurn, broken, wire>>
  BY DEF Emit, TorRuns, pipe
<1>2. m \in Messages /\ m.kind # "reply"
  BY DEF Event, Messages, Statuses, TypeOK
<1> HIDE DEF m
<1>3. RepliesInv'
  BY <1>1, <1>2, AppendReplies
<1>4. /\ Len(inbox) \in Nat /\ Len(inbox') = Len(inbox) + 1
      /\ inbox'[Len(inbox) + 1] = m
      /\ \A i \in 1..Len(inbox) : inbox'[i] = inbox[i]
  BY <1>1, <1>2, Numbers, AppendProperties
<1>5. Unanswered' = Unanswered /\ Unanswered \in Int
  BY <1>1, Numbers DEF Unanswered
<1>6. \A i \in 1..Len(inbox') :
        inbox'[i].kind = "reply" => i \in 1..Len(inbox) /\ inbox'[i] = inbox[i]
  BY <1>2, <1>4
<1>7. WireInv'
  <2>1. ASSUME Unanswered > respTurn
        PROVE  \E i \in 1..Len(inbox') :
                 inbox'[i].kind = "reply" /\ inbox'[i].n = Unanswered - 1
    <3>1. PICK i \in 1..Len(inbox) :
            inbox[i].kind = "reply" /\ inbox[i].n = Unanswered - 1
      BY <1>1, <2>1 DEF WireInv
    <3> QED
      BY <1>4, <3>1
  <2> QED
    BY <1>1, <1>5, <1>6, <2>1 DEF WireInv
<1> QED
  BY <1>3, <1>7

\* readLock keeps every other caller from reading while p does.
LEMMA OnlyReader ==
  ASSUME Inv, NEW p \in Procs, pc[p] \in Holding,
         NEW q \in Callers, q # p
  PROVE  pc[q] \notin {"read", "relay"}
BY DEF Inv, LockInv, Holding, Procs

LEMMA SameReplies ==
  ASSUME ReplyInv, UNCHANGED <<nextId, respTurn, broken, linkUp, wire, inbox>>
  PROVE  RepliesInv' /\ WireInv'
BY DEF ReplyInv, RepliesInv, WireInv, Unanswered

LEMMA ReplyStep ==
  ASSUME Inv, ReplyInv, [Next]_vars
  PROVE  ReplyInv'
<1>1. ASSUME NEW p \in Callers, NEW o \in {"request", "quit"}, Request(p, o)
     PROVE  ReplyInv'
  <2>1. UNCHANGED <<nextId, respTurn, broken, linkUp, wire, inbox>>
    BY <1>1 DEF Request, pipe, tor
  <2>2. RepliesInv' /\ WireInv'
    BY <2>1, SameReplies
  <2>3. TurnInv'
    BY <1>1, <2>1, ProcAssumption
    DEF Request, ReplyInv, TurnInv, Goto, Inv, TypeOK, Procs, Calls
  <2> QED
    BY <2>2, <2>3 DEF ReplyInv
<1>2. ASSUME NEW p \in Callers, NEW w \in Waits, NEW K \in WaitSets,
             EventWait(p, w, K)
     PROVE  ReplyInv'
  <2>1. UNCHANGED <<nextId, respTurn, broken, linkUp, wire, inbox>>
    BY <1>2 DEF EventWait, pipe, tor
  <2>2. RepliesInv' /\ WireInv'
    BY <2>1, SameReplies
  <2>3. TurnInv'
    BY <1>2, <2>1, ProcAssumption
    DEF EventWait, ReplyInv, TurnInv, Goto, Inv, TypeOK, Procs, Calls
  <2> QED
    BY <2>2, <2>3 DEF ReplyInv
<1>3. ASSUME NEW p \in Callers, Cmd(p)
     PROVE  ReplyInv'
  <2> DEFINE c == [id |-> nextId, op |-> call[p].op, arg |-> call[p].arg]
  <2>1. c \in Commands /\ c.id = nextId
    BY DEF Inv, TypeOK, Calls, Commands
  <2>2. /\ nextId' = nextId + 1 /\ wire' = Append(wire, c)
        /\ UNCHANGED <<linkUp, broken, inbox, respTurn>>
    BY <1>3 DEF Cmd
  <2> HIDE DEF c
  <2>3. WireInv'
    BY <2>1, <2>2, CmdReplies DEF Inv, ReplyInv
  <2>4. RepliesInv'
    BY <2>2 DEF ReplyInv, RepliesInv
  <2>5. TurnInv'
    BY <1>3, ProcAssumption
       DEF Cmd, Goto, Inv, TypeOK, Procs, Calls, ReplyInv, TurnInv
  <2> QED
    BY <2>3, <2>4, <2>5 DEF ReplyInv
<1>4. ASSUME NEW p \in Callers, CmdFails(p)
     PROVE  ReplyInv'
  <2>1. ~linkUp
    BY <1>4 DEF CmdFails, ReplyInv, WireInv
  <2>2. RepliesInv' /\ WireInv'
    BY <1>4, <2>1 DEF CmdFails, tor, ReplyInv, RepliesInv, WireInv
  <2>3. TurnInv'
    BY <1>4, ProcAssumption
       DEF CmdFails, Goto, Inv, TypeOK, Procs, Calls, ReplyInv, TurnInv
  <2> QED
    BY <2>2, <2>3 DEF ReplyInv
<1>5. ASSUME NEW p \in Callers, StartResponse(p)
     PROVE  ReplyInv'
  <2>1. UNCHANGED <<nextId, respTurn, broken, linkUp, wire, inbox>>
    BY <1>5 DEF StartResponse, pipe, tor
  <2>2. RepliesInv' /\ WireInv'
    BY <2>1, SameReplies
  <2>3. TurnInv'
    BY <1>5, <2>1, ProcAssumption
    DEF StartResponse, ReplyInv, TurnInv, Goto, Inv, TypeOK, Procs, Calls
  <2> QED
    BY <2>2, <2>3 DEF ReplyInv
<1>6. ASSUME NEW p \in Callers, ReadReply(p)
     PROVE  ReplyInv'
  <2>1. /\ inbox # <<>> /\ Head(inbox).kind = "reply" /\ inbox' = Tail(inbox)
        /\ respTurn' = respTurn + 1 /\ UNCHANGED <<linkUp, broken, nextId, wire>>
    BY <1>6 DEF ReadReply, Received, FinishResponse
  <2>2. RepliesInv' /\ WireInv'
    BY <2>1, TailReplies DEF Inv, ReplyInv
  <2>3. TurnInv'
    <3>1. pc[p] = "read" /\ pc'[p] = "return"
      BY <1>6 DEF ReadReply, FinishResponse, Goto, Inv, TypeOK, Procs
    <3>2. \A q \in Callers \ {p} : pc'[q] = pc[q]
      BY <1>6 DEF ReadReply, FinishResponse, Goto, Inv, TypeOK, Procs
    <3> QED
      BY <3>1, <3>2, OnlyReader DEF Holding, Procs, TurnInv
  <2> QED
    BY <2>2, <2>3 DEF ReplyInv
<1>7. ASSUME NEW p \in Callers, ReadFails(p)
     PROVE  ReplyInv'
  <2>1. inbox' = <<>> /\ ~linkUp'
    BY <1>7 DEF ReadFails, Disconnected, tor
  <2>2. RepliesInv' /\ WireInv'
    BY <2>1 DEF RepliesInv, WireInv
  <2>3. TurnInv'
    <3>1. pc[p] = "read" /\ pc'[p] = "return"
      BY <1>7 DEF ReadFails, FinishResponse, Goto, Inv, TypeOK, Procs
    <3>2. \A q \in Callers \ {p} : pc'[q] = pc[q]
      BY <1>7 DEF ReadFails, FinishResponse, Goto, Inv, TypeOK, Procs
    <3> QED
      BY <3>1, <3>2, OnlyReader DEF Holding, Procs, TurnInv
  <2> QED
    BY <2>2, <2>3 DEF ReplyInv
<1>8. ASSUME NEW p \in Callers, LockForResponse(p)
     PROVE  ReplyInv'
  <2>1. UNCHANGED <<nextId, respTurn, broken, linkUp, wire, inbox>>
    BY <1>8 DEF LockForResponse, Lock, pipe, tor
  <2>2. RepliesInv' /\ WireInv'
    BY <2>1, SameReplies
  <2>3. TurnInv'
    BY <1>8, <2>1, ProcAssumption
    DEF LockForResponse, Lock, ReplyInv, TurnInv, Goto, Inv, TypeOK, Procs,
        Calls
  <2> QED
    BY <2>2, <2>3 DEF ReplyInv
<1>9. ASSUME NEW p \in Callers, ReturnRequest(p)
     PROVE  ReplyInv'
  <2>1. UNCHANGED <<nextId, respTurn, broken, linkUp, wire, inbox>>
    BY <1>9 DEF ReturnRequest, Returned, pipe, tor
  <2>2. RepliesInv' /\ WireInv'
    BY <2>1, SameReplies
  <2>3. TurnInv'
    BY <1>9, <2>1, ProcAssumption
    DEF ReturnRequest, Returned, ReplyInv, TurnInv, Goto, Inv, TypeOK, Procs,
        Calls
  <2> QED
    BY <2>2, <2>3 DEF ReplyInv
<1>10. ASSUME NEW p \in Callers, Close(p)
     PROVE  ReplyInv'
  <2>1. RepliesInv' /\ WireInv'
    BY <1>10, LoseLinkReplies DEF Close, Inv, ReplyInv
  <2>2. TurnInv'
    BY <1>10, ProcAssumption
    DEF Close, Goto, Inv, TypeOK, Procs, ReplyInv, TurnInv
  <2> QED
    BY <2>1, <2>2 DEF ReplyInv
<1>11. ASSUME NEW p \in Callers, StartHandler(p)
     PROVE  ReplyInv'
  <2>1. UNCHANGED <<nextId, respTurn, broken, linkUp, wire, inbox>>
    BY <1>11 DEF StartHandler, Returned, pipe, tor
  <2>2. RepliesInv' /\ WireInv'
    BY <2>1, SameReplies
  <2>3. TurnInv'
    BY <1>11, <2>1, ProcAssumption
    DEF StartHandler, Returned, ReplyInv, TurnInv, Goto, Inv, TypeOK, Procs,
        Calls, CallInv, HandlerPcs
  <2> QED
    BY <2>2, <2>3 DEF ReplyInv
<1>12. ASSUME NEW p \in Callers, RollBack(p)
     PROVE  ReplyInv'
  <2>1. UNCHANGED <<nextId, respTurn, broken, linkUp, wire, inbox>>
    BY <1>12 DEF RollBack, Returned, pipe, tor
  <2>2. RepliesInv' /\ WireInv'
    BY <2>1, SameReplies
  <2>3. TurnInv'
    BY <1>12, <2>1, ProcAssumption
    DEF RollBack, Returned, ReplyInv, TurnInv, Goto, Inv, TypeOK, Procs, Calls
  <2> QED
    BY <2>2, <2>3 DEF ReplyInv
<1>13. ASSUME NEW p \in Callers, ReturnRemove(p)
     PROVE  ReplyInv'
  <2>1. UNCHANGED <<nextId, respTurn, broken, linkUp, wire, inbox>>
    BY <1>13 DEF ReturnRemove, Returned, pipe, tor
  <2>2. RepliesInv' /\ WireInv'
    BY <2>1, SameReplies
  <2>3. TurnInv'
    BY <1>13, <2>1, ProcAssumption
    DEF ReturnRemove, Returned, ReplyInv, TurnInv, Goto, Inv, TypeOK, Procs,
        Calls
  <2> QED
    BY <2>2, <2>3 DEF ReplyInv
<1>14. ASSUME NEW p \in Callers, ComposeSetEvents(p)
     PROVE  ReplyInv'
  <2>1. UNCHANGED <<nextId, respTurn, broken, linkUp, wire, inbox>>
    BY <1>14 DEF ComposeSetEvents, pipe, tor
  <2>2. RepliesInv' /\ WireInv'
    BY <2>1, SameReplies
  <2>3. TurnInv'
    BY <1>14, <2>1, ProcAssumption
    DEF ComposeSetEvents, ReplyInv, TurnInv, Goto, Inv, TypeOK, Procs, Calls
  <2> QED
    BY <2>2, <2>3 DEF ReplyInv
<1>15. ASSUME NEW p \in Callers, SelectEvent(p)
     PROVE  ReplyInv'
  <2>1. UNCHANGED <<nextId, respTurn, broken, linkUp, wire, inbox>>
    BY <1>15 DEF SelectEvent, pipe, tor
  <2>2. RepliesInv' /\ WireInv'
    BY <2>1, SameReplies
  <2>3. TurnInv'
    BY <1>15, <2>1, ProcAssumption
    DEF SelectEvent, ReplyInv, TurnInv, Goto, Inv, TypeOK, Procs, Calls
  <2> QED
    BY <2>2, <2>3 DEF ReplyInv
<1>16. ASSUME NEW p \in Callers, SelectEnd(p)
     PROVE  ReplyInv'
  <2>1. UNCHANGED <<nextId, respTurn, broken, linkUp, wire, inbox>>
    BY <1>16 DEF SelectEnd, pipe, tor
  <2>2. RepliesInv' /\ WireInv'
    BY <2>1, SameReplies
  <2>3. TurnInv'
    BY <1>16, <2>1, ProcAssumption
    DEF SelectEnd, ReplyInv, TurnInv, Goto, Inv, TypeOK, Procs, Calls
  <2> QED
    BY <2>2, <2>3 DEF ReplyInv
<1>17. ASSUME NEW p \in Callers, RemoveEventListener(p)
     PROVE  ReplyInv'
  <2>1. UNCHANGED <<nextId, respTurn, broken, linkUp, wire, inbox>>
    BY <1>17 DEF RemoveEventListener, pipe, tor
  <2>2. RepliesInv' /\ WireInv'
    BY <2>1, SameReplies
  <2>3. TurnInv'
    BY <1>17, <2>1, ProcAssumption
    DEF RemoveEventListener, ReplyInv, TurnInv, Goto, Inv, TypeOK, Procs, Calls
  <2> QED
    BY <2>2, <2>3 DEF ReplyInv
<1>18. ASSUME NEW p \in Callers, CloseChan(p)
     PROVE  ReplyInv'
  <2>1. UNCHANGED <<nextId, respTurn, broken, linkUp, wire, inbox>>
    BY <1>18 DEF CloseChan, pipe, tor
  <2>2. RepliesInv' /\ WireInv'
    BY <2>1, SameReplies
  <2>3. TurnInv'
    BY <1>18, <2>1, ProcAssumption
    DEF CloseChan, ReplyInv, TurnInv, Goto, Inv, TypeOK, Procs, Calls
  <2> QED
    BY <2>2, <2>3 DEF ReplyInv
<1>19. ASSUME NEW p \in Procs, ReadEvent(p)
     PROVE  ReplyInv'
  <2>1. /\ inbox # <<>> /\ Head(inbox).kind # "reply" /\ inbox' = Tail(inbox)
        /\ respTurn' = respTurn /\ UNCHANGED <<linkUp, broken, nextId, wire>>
    BY <1>19 DEF ReadEvent, Received, pipe
  <2>2. RepliesInv' /\ WireInv'
    BY <2>1, TailReplies DEF Inv, ReplyInv
  <2>3. TurnInv'
    BY <1>19, ProcAssumption
       DEF ReadEvent, Goto, Inv, TypeOK, CallInv, CallerPcs, Procs, pipe,
           ReplyInv, TurnInv
  <2> QED
    BY <2>2, <2>3 DEF ReplyInv
<1>20. ASSUME NEW p \in Procs, Send(p)
     PROVE  ReplyInv'
  <2>1. UNCHANGED <<nextId, respTurn, broken, linkUp, wire, inbox>>
    BY <1>20 DEF Send, pipe, tor
  <2>2. RepliesInv' /\ WireInv'
    BY <2>1, SameReplies
  <2>3. TurnInv'
    BY <1>20, <2>1, ProcAssumption
    DEF Send, ReplyInv, TurnInv, Goto, Inv, TypeOK, Procs, Calls
  <2> QED
    BY <2>2, <2>3 DEF ReplyInv
<1>21. ASSUME NEW p \in Procs, SendPanics(p)
     PROVE  ReplyInv'
  <2>1. UNCHANGED <<nextId, respTurn, broken, linkUp, wire, inbox>>
    BY <1>21 DEF SendPanics, pipe, tor
  <2>2. RepliesInv' /\ WireInv'
    BY <2>1, SameReplies
  <2>3. TurnInv'
    BY <1>21, <2>1, ProcAssumption
    DEF SendPanics, ReplyInv, TurnInv, Goto, Inv, TypeOK, Procs, Calls
  <2> QED
    BY <2>2, <2>3 DEF ReplyInv
<1>22. ASSUME NEW p \in Procs, EndRelay(p)
     PROVE  ReplyInv'
  <2>1. UNCHANGED <<nextId, respTurn, broken, linkUp, wire, inbox>>
    BY <1>22 DEF EndRelay, Unlock, pipe, tor
  <2>2. RepliesInv' /\ WireInv'
    BY <2>1, SameReplies
  <2>3. TurnInv'
    BY <1>22, <2>1, ProcAssumption
    DEF EndRelay, Unlock, TurnInv, ReplyInv, pipe, Goto, Inv, TypeOK, Procs,
        Calls
  <2> QED
    BY <2>2, <2>3 DEF ReplyInv
<1>23. ASSUME NEW w \in Waits, HandleEvents(w)
     PROVE  ReplyInv'
  <2>1. UNCHANGED <<nextId, respTurn, broken, linkUp, wire, inbox>>
    BY <1>23 DEF HandleEvents, pipe, tor
  <2>2. RepliesInv' /\ WireInv'
    BY <2>1, SameReplies
  <2>3. TurnInv'
    BY <1>23, <2>1, ProcAssumption
    DEF HandleEvents, ReplyInv, TurnInv, Goto, Inv, TypeOK, Procs
  <2> QED
    BY <2>2, <2>3 DEF ReplyInv
<1>24. ASSUME NEW w \in Waits, PeekReply(w)
     PROVE  ReplyInv'
  <2>1. UNCHANGED <<nextId, respTurn, broken, linkUp, wire, inbox>>
    BY <1>24 DEF PeekReply, Unlock, pipe, tor
  <2>2. RepliesInv' /\ WireInv'
    BY <2>1, SameReplies
  <2>3. TurnInv'
    BY <1>24, <2>1, ProcAssumption
    DEF PeekReply, Unlock, ReplyInv, TurnInv, Goto, Inv, TypeOK, Procs
  <2> QED
    BY <2>2, <2>3 DEF ReplyInv
<1>25. ASSUME NEW w \in Waits, PeekFails(w)
     PROVE  ReplyInv'
  <2>1. UNCHANGED <<nextId, respTurn, broken, linkUp, wire, inbox>>
    BY <1>25 DEF PeekFails, Unlock, pipe, tor
  <2>2. RepliesInv' /\ WireInv'
    BY <2>1, SameReplies
  <2>3. TurnInv'
    BY <1>25, <2>1, ProcAssumption
    DEF PeekFails, Unlock, ReplyInv, TurnInv, Goto, Inv, TypeOK, Procs
  <2> QED
    BY <2>2, <2>3 DEF ReplyInv
<1>26. ASSUME NEW w \in Waits, LockForEvent(w)
     PROVE  ReplyInv'
  <2>1. UNCHANGED <<nextId, respTurn, broken, linkUp, wire, inbox>>
    BY <1>26 DEF LockForEvent, Lock, pipe, tor
  <2>2. RepliesInv' /\ WireInv'
    BY <2>1, SameReplies
  <2>3. TurnInv'
    BY <1>26, <2>1, ProcAssumption
    DEF LockForEvent, Lock, ReplyInv, TurnInv, Goto, Inv, TypeOK, Procs
  <2> QED
    BY <2>2, <2>3 DEF ReplyInv
<1>27. ASSUME NEW w \in Waits, CtxDone(w)
     PROVE  ReplyInv'
  <2>1. UNCHANGED <<nextId, respTurn, broken, linkUp, wire, inbox>>
    BY <1>27 DEF CtxDone, pipe, tor
  <2>2. RepliesInv' /\ WireInv'
    BY <2>1, SameReplies
  <2>3. TurnInv'
    BY <1>27, <2>1, ProcAssumption
    DEF CtxDone, ReplyInv, TurnInv, Goto, Inv, TypeOK, Procs, Calls
  <2> QED
    BY <2>2, <2>3 DEF ReplyInv
<1>28. ASSUME AnswerRequest
     PROVE  ReplyInv'
  <2>1. RepliesInv' /\ WireInv'
    BY <1>28, AnswerReplies DEF AnswerRequest, Statuses, Inv, ReplyInv
  <2>2. TurnInv'
    BY <1>28 DEF AnswerRequest, Answer, TorRuns, pipe, ReplyInv, TurnInv
  <2> QED
    BY <2>1, <2>2 DEF ReplyInv
<1>29. ASSUME NEW o \in {"add", "remove"}, AnswerSetEvents(o)
     PROVE  ReplyInv'
  <2>1. RepliesInv' /\ WireInv'
    BY <1>29, AnswerReplies DEF AnswerSetEvents, Statuses, Inv, ReplyInv
  <2>2. TurnInv'
    BY <1>29 DEF AnswerSetEvents, Answer, TorRuns, pipe, ReplyInv, TurnInv
  <2> QED
    BY <2>1, <2>2 DEF ReplyInv
<1>30. ASSUME AnswerQuit
     PROVE  ReplyInv'
  <2>1. RepliesInv' /\ WireInv'
    BY <1>30, AnswerReplies DEF AnswerQuit, Statuses, Inv, ReplyInv
  <2>2. TurnInv'
    BY <1>30 DEF AnswerQuit, Answer, TorRuns, pipe, ReplyInv, TurnInv
  <2> QED
    BY <2>1, <2>2 DEF ReplyInv
<1>31. ASSUME NEW c \in Codes, Emit(c)
     PROVE  ReplyInv'
  <2>1. RepliesInv' /\ WireInv'
    BY <1>31, EmitReplies DEF Inv, ReplyInv
  <2>2. TurnInv'
    BY <1>31 DEF Emit, TorRuns, pipe, ReplyInv, TurnInv
  <2> QED
    BY <2>1, <2>2 DEF ReplyInv
<1>32. ASSUME TorExits
     PROVE  ReplyInv'
  <2>1. RepliesInv' /\ WireInv'
    BY <1>32, LoseLinkReplies DEF TorExits, TorRuns, pipe, Inv, ReplyInv
  <2>2. TurnInv'
    BY <1>32 DEF TorExits, TorRuns, pipe, ReplyInv, TurnInv
  <2> QED
    BY <2>1, <2>2 DEF ReplyInv
<1>33. CASE UNCHANGED vars
  BY <1>33, SameReplies DEF ReplyInv, TurnInv, vars, pipe, tor
<1> QED
  BY <1>1, <1>2, <1>3, <1>4, <1>5, <1>6, <1>7, <1>8, <1>9, <1>10, <1>11, <1>12,
     <1>13, <1>14, <1>15, <1>16, <1>17, <1>18, <1>19, <1>20, <1>21, <1>22,
     <1>23, <1>24, <1>25, <1>26, <1>27, <1>28, <1>29, <1>30, <1>31, <1>32, <1>33
     DEF Next, Call, SendRequest, Relay, Return, Wait, Handler, Tor, Quiescent,
         Procs

----------------------------------------------------------------------------
(* The theorem *)

LEMMA ReplyInvMatches ==
  ASSUME Inv, ReplyInv
  PROVE  ReplyMatch
<1> SUFFICES ASSUME NEW p \in Callers, pc[p] = "read", Received("reply")
             PROVE  Head(inbox).n = call[p].id
  BY DEF ReplyMatch
<1>1. Head(inbox) = inbox[1] /\ 1 \in 1..Len(inbox) /\ inbox[1].n \in Nat
  BY Numbers DEF Received, Inv
<1>2. inbox[1].n = respTurn
  BY <1>1, Numbers DEF Received, Inv, ReplyInv, RepliesInv
<1> QED
  BY <1>1, <1>2 DEF ReplyInv, TurnInv

LEMMA InitReplies ==
  ASSUME Init
  PROVE  ReplyInv
<1>1. /\ 1..Len(inbox) = {} /\ 1..Len(wire) = {}
      /\ nextId = 0 /\ respTurn = 0 /\ Len(wire) = 0 /\ ~broken
  BY DEF Init
<1>2. RepliesInv /\ WireInv
  BY <1>1 DEF RepliesInv, WireInv, Unanswered
<1>3. TurnInv
  BY DEF Init, TurnInv, Procs
<1> QED
  BY <1>2, <1>3 DEF ReplyInv

\* A reply is read by the goroutine whose command it answers, for any number
\* of callers and EventWait calls and however events, replies, failed writes
\* and the loss of the link come between (conn.go:51-78, cmd_event.go:150-190).
THEOREM RepliesMatch == Spec => []ReplyMatch
<1>1. Init => ReplyInv
  BY InitReplies
<1>2. Inv /\ ReplyInv /\ [Next]_vars => ReplyInv'
  BY ReplyStep
<1>3. Inv /\ ReplyInv => ReplyMatch
  BY ReplyInvMatches
<1> QED
  BY <1>1, <1>2, <1>3, InvHolds, PTL DEF Spec

----------------------------------------------------------------------------
(* Who may still send on a channel                                          *)

\* p has not yet taken readLock after removing w from the listener map.
Barred(p, w) ==
  \/ Owns(p, w)
  \/ /\ call[p].on = w /\ call[p].op = "remove"
     /\ pc[p] \in {"compose", "cmd", "lock"}

\* A goroutine that still has to send on w keeps its EventWait from closing it.
SendInv ==
  \A p \in Procs, w \in Waits :
    Contains(relay[p].to, w) /\ w \notin unbarriered
      => \E q \in Callers : Barred(q, w)

\* A step that starts no send and ends no barrier keeps SendInv.
LEMMA SendFrame ==
  ASSUME SendInv,
         \A p \in Procs, w \in Waits :
           Contains(relay'[p].to, w) => Contains(relay[p].to, w),
         unbarriered \subseteq unbarriered',
         \A q \in Callers, w \in Waits :
           Barred(q, w) => Barred(q, w)' \/ w \in unbarriered'
  PROVE  SendInv'
<1> SUFFICES ASSUME NEW p \in Procs, NEW w \in Waits,
                    Contains(relay'[p].to, w), w \notin unbarriered'
             PROVE  \E q \in Callers : Barred(q, w)'
  BY DEF SendInv
<1>1. Contains(relay[p].to, w) /\ w \notin unbarriered
  OBVIOUS
<1>2. PICK q \in Callers : Barred(q, w)
  BY <1>1 DEF SendInv
<1> QED
  BY <1>2

\* What is registered for an event is registered in one of the two lists.
LEMMA TargetsListed ==
  ASSUME Inv, NEW k \in Codes, NEW w \in Waits, Contains(Targets(k), w)
  PROVE  \E q \in Callers : Owns(q, w)
<1> DEFINE a == listeners[k]
           b == IF k \in Recognized THEN <<>> ELSE listeners[Unrecognized]
<1>1. a \in Seq(Waits) /\ b \in Seq(Waits)
  BY DEF Inv, TypeOK, Keys
<1>2. Targets(k) = a \o b
  BY DEF Targets
<1>3. Contains(a, w) \/ Contains(b, w)
  <2> HIDE DEF a, b
  <2>1. PICK i \in 1..Len(Targets(k)) : Targets(k)[i] = w
    BY DEF Contains
  <2>2. /\ Len(Targets(k)) = Len(a) + Len(b)
        /\ Targets(k)[i] = IF i <= Len(a) THEN a[i] ELSE b[i - Len(a)]
    BY <1>1, <1>2, <2>1, ConcatProperties
  <2>3. CASE i <= Len(a)
    BY <1>1, <2>1, <2>2, <2>3 DEF Contains
  <2>4. CASE ~(i <= Len(a))
    <3>1. i - Len(a) \in 1..Len(b)
      BY <1>1, <2>1, <2>2, <2>4
    <3> QED
      BY <2>1, <2>2, <2>4, <3>1 DEF Contains
  <2> QED
    BY <2>3, <2>4
<1>4. CASE Contains(a, w)
  BY <1>4 DEF Inv, MapInv, Keys
<1>5. CASE Contains(b, w)
  <2>1. Contains(listeners[Unrecognized], w)
    BY <1>5 DEF Contains
  <2> QED
    BY <2>1 DEF Inv, MapInv, Keys
<1> QED
  BY <1>3, <1>4, <1>5

LEMMA SendStep ==
  ASSUME Inv, SendInv, [Next]_vars
  PROVE  SendInv'
<1>1. ASSUME NEW p \in Callers, NEW o \in {"request", "quit"}, Request(p, o)
     PROVE  SendInv'
  <2>1. relay' = relay /\ unbarriered \subseteq unbarriered'
    BY <1>1 DEF Request, history
  <2>2. \A q \in Callers, v \in Waits :
          Barred(q, v) => Barred(q, v)' \/ v \in unbarriered'
    BY <1>1, ProcAssumption
       DEF Request, Barred, Owns, Goto, Inv, TypeOK, Procs, Calls, CallInv,
           CallerPcs, HandlerPcs
  <2> QED
    BY <2>1, <2>2, SendFrame
<1>2. ASSUME NEW p \in Callers, NEW w \in Waits, NEW K \in WaitSets,
             EventWait(p, w, K)
     PROVE  SendInv'
  <2>1. relay' = relay /\ unbarriered \subseteq unbarriered'
    BY <1>2 DEF EventWait, history
  <2>2. \A q \in Callers, v \in Waits :
          Barred(q, v) => Barred(q, v)' \/ v \in unbarriered'
    BY <1>2, ProcAssumption
       DEF EventWait, Barred, Owns, Goto, Inv, TypeOK, Procs, Calls, CallInv,
           CallerPcs, HandlerPcs
  <2> QED
    BY <2>1, <2>2, SendFrame
<1>3. ASSUME NEW p \in Callers, Cmd(p)
     PROVE  SendInv'
  <2>1. relay' = relay /\ unbarriered \subseteq unbarriered'
    BY <1>3 DEF Cmd, history
  <2>2. \A q \in Callers, v \in Waits :
          Barred(q, v) => Barred(q, v)' \/ v \in unbarriered'
    BY <1>3, ProcAssumption
       DEF Cmd, Barred, Owns, Goto, Inv, TypeOK, Procs, Calls
  <2> QED
    BY <2>1, <2>2, SendFrame
<1>4. ASSUME NEW p \in Callers, CmdFails(p)
     PROVE  SendInv'
  <2>1. relay' = relay /\ unbarriered \subseteq unbarriered'
    BY <1>4 DEF CmdFails, history
  <2>2. \A q \in Callers, v \in Waits :
          Barred(q, v) => Barred(q, v)' \/ v \in unbarriered'
    BY <1>4, ProcAssumption
       DEF CmdFails, Barred, Owns, Goto, Inv, TypeOK, Procs, Calls
  <2> QED
    BY <2>1, <2>2, SendFrame
<1>5. ASSUME NEW p \in Callers, StartResponse(p)
     PROVE  SendInv'
  <2>1. relay' = relay /\ unbarriered \subseteq unbarriered'
    BY <1>5 DEF StartResponse, history
  <2>2. \A q \in Callers, v \in Waits :
          Barred(q, v) => Barred(q, v)' \/ v \in unbarriered'
    BY <1>5, ProcAssumption
       DEF StartResponse, Barred, Owns, Goto, Inv, TypeOK, Procs, Calls
  <2> QED
    BY <2>1, <2>2, SendFrame
<1>6. ASSUME NEW p \in Callers, ReadReply(p)
     PROVE  SendInv'
  <2>1. relay' = relay /\ unbarriered \subseteq unbarriered'
    BY <1>6 DEF ReadReply, FinishResponse, history
  <2>2. \A q \in Callers, v \in Waits :
          Barred(q, v) => Barred(q, v)' \/ v \in unbarriered'
    BY <1>6, ProcAssumption
       DEF ReadReply, FinishResponse, Barred, Owns, Goto, Inv, TypeOK, Procs,
           Calls
  <2> QED
    BY <2>1, <2>2, SendFrame
<1>7. ASSUME NEW p \in Callers, ReadFails(p)
     PROVE  SendInv'
  <2>1. relay' = relay /\ unbarriered \subseteq unbarriered'
    BY <1>7 DEF ReadFails, FinishResponse, history
  <2>2. \A q \in Callers, v \in Waits :
          Barred(q, v) => Barred(q, v)' \/ v \in unbarriered'
    BY <1>7, ProcAssumption
       DEF ReadFails, FinishResponse, Barred, Owns, Goto, Inv, TypeOK, Procs,
           Calls
  <2> QED
    BY <2>1, <2>2, SendFrame
<1>8. ASSUME NEW p \in Callers, LockForResponse(p)
     PROVE  SendInv'
  <2>1. \A q \in Procs : relay[q].to = <<>>
    BY <1>8, ProcAssumption DEF LockForResponse, Lock, Inv, LockInv, Holding
  <2>2. relay' = relay
    BY <1>8 DEF LockForResponse
  <2>3. \A q \in Procs, v \in Waits : ~Contains(relay'[q].to, v)
    BY <2>1, <2>2 DEF Contains
  <2> QED
    BY <2>3 DEF SendInv
<1>9. ASSUME NEW p \in Callers, ReturnRequest(p)
     PROVE  SendInv'
  <2>1. relay' = relay /\ unbarriered \subseteq unbarriered'
    BY <1>9 DEF ReturnRequest, Returned, history
  <2>2. \A q \in Callers, v \in Waits :
          Barred(q, v) => Barred(q, v)' \/ v \in unbarriered'
    BY <1>9, ProcAssumption
       DEF ReturnRequest, Returned, Barred, Owns, Goto, Inv, TypeOK, Procs,
           Calls, CallInv, CallerPcs, HandlerPcs
  <2> QED
    BY <2>1, <2>2, SendFrame
<1>10. ASSUME NEW p \in Callers, Close(p)
     PROVE  SendInv'
  <2>1. relay' = relay /\ unbarriered \subseteq unbarriered'
    BY <1>10 DEF Close, Returned, history
  <2>2. \A q \in Callers, v \in Waits :
          Barred(q, v) => Barred(q, v)' \/ v \in unbarriered'
    BY <1>10, ProcAssumption
       DEF Close, Returned, Barred, Owns, Goto, Inv, TypeOK, Procs, Calls,
           CallInv, CallerPcs, HandlerPcs
  <2> QED
    BY <2>1, <2>2, SendFrame
<1>11. ASSUME NEW p \in Callers, StartHandler(p)
     PROVE  SendInv'
  <2>1. relay' = relay /\ unbarriered \subseteq unbarriered'
    BY <1>11 DEF StartHandler, Returned, history
  <2>2. \A q \in Callers, v \in Waits :
          Barred(q, v) => Barred(q, v)' \/ v \in unbarriered'
    <3>1. pc[p] = "return" /\ pc'[p] = "select" /\ call[p].op = "add"
      BY <1>11, ProcAssumption
         DEF StartHandler, Returned, Inv, TypeOK, CallInv, Ops, Procs
    <3>2. \A q \in Callers \ {p} : pc'[q] = pc[q]
      BY <1>11, ProcAssumption
         DEF StartHandler, Returned, Inv, TypeOK, CallInv, Ops, Procs
    <3>3. \A q \in Callers :
            call'[q].op = call[q].op /\ call'[q].on = call[q].on
      BY <1>11 DEF StartHandler, Inv, TypeOK, Calls
    <3> QED
      BY <3>1, <3>2, <3>3 DEF Barred, Owns
  <2> QED
    BY <2>1, <2>2, SendFrame
<1>12. ASSUME NEW p \in Callers, RollBack(p)
     PROVE  SendInv'
  <2>1. relay' = relay /\ unbarriered \subseteq unbarriered'
    BY <1>12 DEF RollBack, Returned, history
  <2>2. \A q \in Callers, v \in Waits :
          Barred(q, v) => Barred(q, v)' \/ v \in unbarriered'
    BY <1>12, ProcAssumption
       DEF RollBack, Returned, Barred, Owns, Goto, Inv, TypeOK, Procs, Calls
  <2> QED
    BY <2>1, <2>2, SendFrame
<1>13. ASSUME NEW p \in Callers, ReturnRemove(p)
     PROVE  SendInv'
  <2>1. relay' = relay /\ unbarriered \subseteq unbarriered'
    BY <1>13 DEF ReturnRemove, Returned, history
  <2>2. \A q \in Callers, v \in Waits :
          Barred(q, v) => Barred(q, v)' \/ v \in unbarriered'
    BY <1>13, ProcAssumption
       DEF ReturnRemove, Returned, Barred, Owns, Goto, Inv, TypeOK, Procs, Calls
  <2> QED
    BY <2>1, <2>2, SendFrame
<1>14. ASSUME NEW p \in Callers, ComposeSetEvents(p)
     PROVE  SendInv'
  <2>1. relay' = relay /\ unbarriered \subseteq unbarriered'
    BY <1>14 DEF ComposeSetEvents, history
  <2>2. \A q \in Callers, v \in Waits :
          Barred(q, v) => Barred(q, v)' \/ v \in unbarriered'
    BY <1>14, ProcAssumption
       DEF ComposeSetEvents, Barred, Owns, Goto, Inv, TypeOK, Procs, Calls
  <2> QED
    BY <2>1, <2>2, SendFrame
<1>15. ASSUME NEW p \in Callers, SelectEvent(p)
     PROVE  SendInv'
  <2>1. relay' = relay /\ unbarriered \subseteq unbarriered'
    BY <1>15 DEF SelectEvent, history
  <2>2. \A q \in Callers, v \in Waits :
          Barred(q, v) => Barred(q, v)' \/ v \in unbarriered'
    BY <1>15, ProcAssumption
       DEF SelectEvent, Barred, Owns, Goto, Inv, TypeOK, Procs, Calls
  <2> QED
    BY <2>1, <2>2, SendFrame
<1>16. ASSUME NEW p \in Callers, SelectEnd(p)
     PROVE  SendInv'
  <2>1. relay' = relay /\ unbarriered \subseteq unbarriered'
    BY <1>16 DEF SelectEnd, history
  <2>2. \A q \in Callers, v \in Waits :
          Barred(q, v) => Barred(q, v)' \/ v \in unbarriered'
    BY <1>16, ProcAssumption
       DEF SelectEnd, Barred, Owns, Goto, Inv, TypeOK, Procs, Calls
  <2> QED
    BY <2>1, <2>2, SendFrame
<1>17. ASSUME NEW p \in Callers, RemoveEventListener(p)
     PROVE  SendInv'
  <2>1. relay' = relay /\ unbarriered \subseteq unbarriered'
    BY <1>17 DEF RemoveEventListener, history
  <2>2. \A q \in Callers, v \in Waits :
          Barred(q, v) => Barred(q, v)' \/ v \in unbarriered'
    BY <1>17, ProcAssumption
       DEF RemoveEventListener, Barred, Owns, Goto, Inv, TypeOK, Procs, Calls
  <2> QED
    BY <2>1, <2>2, SendFrame
<1>18. ASSUME NEW p \in Callers, CloseChan(p)
     PROVE  SendInv'
  <2>1. relay' = relay /\ unbarriered \subseteq unbarriered'
    BY <1>18 DEF CloseChan, history
  <2>2. \A q \in Callers, v \in Waits :
          Barred(q, v) => Barred(q, v)' \/ v \in unbarriered'
    BY <1>18, ProcAssumption
       DEF CloseChan, Barred, Owns, Goto, Inv, TypeOK, Procs, Calls
  <2> QED
    BY <2>1, <2>2, SendFrame
<1>19. ASSUME NEW p \in Procs, ReadEvent(p)
     PROVE  SendInv'
  <2> DEFINE k == log[Head(inbox).n]
  <2>1. relay'[p].to = Targets(k) /\ \A q \in Procs \ {p} : relay'[q] = relay[q]
    BY <1>19 DEF ReadEvent, Inv, TypeOK
  <2>2. k \in Codes
    <3>1. /\ inbox # <<>> /\ Head(inbox).kind = "event"
          /\ inbox \in Seq(Messages) /\ log \in Seq(Codes)
      BY <1>19 DEF ReadEvent, Received, Inv, TypeOK
    <3>2. 1 \in 1..Len(inbox) /\ Head(inbox) = inbox[1]
      BY <3>1
    <3>3. Head(inbox).n \in 1..Len(log)
      BY <3>1, <3>2 DEF Inv, LogInv
    <3> QED
      BY <3>1, <3>3
  <2> HIDE DEF k
  <2>3. unbarriered' = unbarriered /\ call' = call
    BY <1>19 DEF ReadEvent
  <2>4. \A q \in Callers, v \in Waits :
          /\ Owns(q, v) => Owns(q, v)'
          /\ Barred(q, v) => Barred(q, v)'
    BY <1>19, <2>3, ProcAssumption
       DEF ReadEvent, Goto, Barred, Owns, Inv, TypeOK, CallInv, CallerPcs, Procs
  <2>5. ASSUME NEW q \in Procs, NEW v \in Waits, Contains(relay'[q].to, v),
               v \notin unbarriered'
        PROVE  \E r \in Callers : Barred(r, v)'
    <3>1. CASE q = p
      <4>1. PICK r \in Callers : Owns(r, v)
        BY <2>1, <2>2, <2>5, <3>1, TargetsListed
      <4> QED
        BY <2>4, <4>1 DEF Barred
    <3>2. CASE q # p
      <4>1. PICK r \in Callers : Barred(r, v)
        BY <2>1, <2>3, <2>5, <3>2 DEF SendInv
      <4> QED
        BY <2>4, <4>1
    <3> QED
      BY <3>1, <3>2
  <2> QED
    BY <2>5 DEF SendInv
<1>20. ASSUME NEW p \in Procs, Send(p)
     PROVE  SendInv'
  <2>1. \A q \in Procs, v \in Waits :
          Contains(relay'[q].to, v) => Contains(relay[q].to, v)
    <3>1. relay[p].to \in Seq(Waits) /\ relay[p].to # <<>>
      BY <1>20 DEF Send, Inv, TypeOK
    <3>2. /\ Len(Tail(relay[p].to)) = Len(relay[p].to) - 1
          /\ \A i \in 1..Len(Tail(relay[p].to)) :
               Tail(relay[p].to)[i] = relay[p].to[i+1]
      BY <3>1, HeadTailProperties
    <3>3. \A v \in Waits :
            Contains(Tail(relay[p].to), v) => Contains(relay[p].to, v)
      BY <3>1, <3>2 DEF Contains
    <3>4. relay'[p].to = Tail(relay[p].to)
      BY <1>20 DEF Send, Inv, TypeOK
    <3>5. \A q \in Procs \ {p} : relay'[q] = relay[q]
      BY <1>20 DEF Send, Inv, TypeOK
    <3> QED
      BY <3>3, <3>4, <3>5
  <2>2. unbarriered' = unbarriered /\ call' = call /\ pc' = pc
    BY <1>20 DEF Send, Goto, history, Inv, TypeOK
  <2>3. \A q \in Callers, v \in Waits : Barred(q, v) => Barred(q, v)'
    BY <2>2 DEF Barred, Owns
  <2> QED
    BY <2>1, <2>2, <2>3, SendFrame
<1>21. ASSUME NEW p \in Procs, SendPanics(p)
     PROVE  SendInv'
  <2>1. relay' = relay /\ unbarriered \subseteq unbarriered'
    BY <1>21 DEF SendPanics, history
  <2>2. \A q \in Callers, v \in Waits :
          Barred(q, v) => Barred(q, v)' \/ v \in unbarriered'
    BY <1>21, ProcAssumption
       DEF SendPanics, Barred, Owns, Goto, Inv, TypeOK, Procs, Calls
  <2> QED
    BY <2>1, <2>2, SendFrame
<1>22. ASSUME NEW p \in Procs, EndRelay(p)
     PROVE  SendInv'
  <2>1. \A q \in Procs : relay'[q].to = relay[q].to
    BY <1>22 DEF EndRelay, Inv, TypeOK
  <2>2. unbarriered' = unbarriered
    BY <1>22 DEF EndRelay, history
  <2>3. \A q \in Callers, v \in Waits : Barred(q, v) => Barred(q, v)'
    BY <1>22, ProcAssumption
       DEF EndRelay, Goto, Barred, Owns, Inv, TypeOK, CallInv, Procs
  <2> QED
    BY <2>1, <2>2, <2>3, SendFrame
<1>23. ASSUME NEW w \in Waits, HandleEvents(w)
     PROVE  SendInv'
  <2>1. relay' = relay /\ unbarriered \subseteq unbarriered'
    BY <1>23 DEF HandleEvents, history
  <2>2. \A q \in Callers, v \in Waits :
          Barred(q, v) => Barred(q, v)' \/ v \in unbarriered'
    BY <1>23, ProcAssumption
       DEF HandleEvents, Barred, Owns, Goto, Inv, TypeOK, Procs, Calls, CallInv,
           CallerPcs, HandlerPcs
  <2> QED
    BY <2>1, <2>2, SendFrame
<1>24. ASSUME NEW w \in Waits, PeekReply(w)
     PROVE  SendInv'
  <2>1. relay' = relay /\ unbarriered \subseteq unbarriered'
    BY <1>24 DEF PeekReply, history
  <2>2. \A q \in Callers, v \in Waits :
          Barred(q, v) => Barred(q, v)' \/ v \in unbarriered'
    BY <1>24, ProcAssumption
       DEF PeekReply, Barred, Owns, Goto, Inv, TypeOK, Procs, Calls, CallInv,
           CallerPcs, HandlerPcs
  <2> QED
    BY <2>1, <2>2, SendFrame
<1>25. ASSUME NEW w \in Waits, PeekFails(w)
     PROVE  SendInv'
  <2>1. relay' = relay /\ unbarriered \subseteq unbarriered'
    BY <1>25 DEF PeekFails, history
  <2>2. \A q \in Callers, v \in Waits :
          Barred(q, v) => Barred(q, v)' \/ v \in unbarriered'
    BY <1>25, ProcAssumption
       DEF PeekFails, Barred, Owns, Goto, Inv, TypeOK, Procs, Calls, CallInv,
           CallerPcs, HandlerPcs
  <2> QED
    BY <2>1, <2>2, SendFrame
<1>26. ASSUME NEW w \in Waits, LockForEvent(w)
     PROVE  SendInv'
  <2>1. relay' = relay /\ unbarriered \subseteq unbarriered'
    BY <1>26 DEF LockForEvent, Lock, history
  <2>2. \A q \in Callers, v \in Waits :
          Barred(q, v) => Barred(q, v)' \/ v \in unbarriered'
    BY <1>26, ProcAssumption
       DEF LockForEvent, Lock, Barred, Owns, Goto, Inv, TypeOK, Procs, Calls,
           CallInv, CallerPcs, HandlerPcs
  <2> QED
    BY <2>1, <2>2, SendFrame
<1>27. ASSUME NEW w \in Waits, CtxDone(w)
     PROVE  SendInv'
  <2>1. relay' = relay /\ unbarriered \subseteq unbarriered'
    BY <1>27 DEF CtxDone, history
  <2>2. \A q \in Callers, v \in Waits :
          Barred(q, v) => Barred(q, v)' \/ v \in unbarriered'
    BY <1>27, ProcAssumption
       DEF CtxDone, Barred, Owns, Goto, Inv, TypeOK, Procs, Calls
  <2> QED
    BY <2>1, <2>2, SendFrame
<1>28. ASSUME AnswerRequest
     PROVE  SendInv'
  <2>1. relay' = relay /\ unbarriered \subseteq unbarriered'
    BY <1>28 DEF AnswerRequest, Answer, TorRuns, history
  <2>2. \A q \in Callers, v \in Waits :
          Barred(q, v) => Barred(q, v)' \/ v \in unbarriered'
    BY <1>28, ProcAssumption
       DEF AnswerRequest, Answer, TorRuns, Barred, Owns, Goto, Inv, TypeOK,
           Procs, Calls
  <2> QED
    BY <2>1, <2>2, SendFrame
<1>29. ASSUME NEW o \in {"add", "remove"}, AnswerSetEvents(o)
     PROVE  SendInv'
  <2>1. relay' = relay /\ unbarriered \subseteq unbarriered'
    BY <1>29 DEF AnswerSetEvents, Answer, TorRuns, history
  <2>2. \A q \in Callers, v \in Waits :
          Barred(q, v) => Barred(q, v)' \/ v \in unbarriered'
    BY <1>29, ProcAssumption
       DEF AnswerSetEvents, Answer, TorRuns, Barred, Owns, Goto, Inv, TypeOK,
           Procs, Calls
  <2> QED
    BY <2>1, <2>2, SendFrame
<1>30. ASSUME AnswerQuit
     PROVE  SendInv'
  <2>1. relay' = relay /\ unbarriered \subseteq unbarriered'
    BY <1>30 DEF AnswerQuit, Answer, TorRuns, history
  <2>2. \A q \in Callers, v \in Waits :
          Barred(q, v) => Barred(q, v)' \/ v \in unbarriered'
    BY <1>30, ProcAssumption
       DEF AnswerQuit, Answer, TorRuns, Barred, Owns, Goto, Inv, TypeOK, Procs,
           Calls
  <2> QED
    BY <2>1, <2>2, SendFrame
<1>31. ASSUME NEW c \in Codes, Emit(c)
     PROVE  SendInv'
  <2>1. relay' = relay /\ unbarriered \subseteq unbarriered'
    BY <1>31 DEF Emit, TorRuns, history
  <2>2. \A q \in Callers, v \in Waits :
          Barred(q, v) => Barred(q, v)' \/ v \in unbarriered'
    BY <1>31, ProcAssumption
       DEF Emit, TorRuns, Barred, Owns, Goto, Inv, TypeOK, Procs, Calls
  <2> QED
    BY <2>1, <2>2, SendFrame
<1>32. ASSUME TorExits
     PROVE  SendInv'
  <2>1. relay' = relay /\ unbarriered \subseteq unbarriered'
    BY <1>32 DEF TorExits, TorRuns, history
  <2>2. \A q \in Callers, v \in Waits :
          Barred(q, v) => Barred(q, v)' \/ v \in unbarriered'
    BY <1>32, ProcAssumption
       DEF TorExits, TorRuns, Barred, Owns, Goto, Inv, TypeOK, Procs, Calls
  <2> QED
    BY <2>1, <2>2, SendFrame
<1>33. CASE UNCHANGED vars
  BY <1>33 DEF SendInv, Barred, Owns, history, vars
<1> QED
  BY <1>1, <1>2, <1>3, <1>4, <1>5, <1>6, <1>7, <1>8, <1>9, <1>10, <1>11, <1>12,
     <1>13, <1>14, <1>15, <1>16, <1>17, <1>18, <1>19, <1>20, <1>21, <1>22,
     <1>23, <1>24, <1>25, <1>26, <1>27, <1>28, <1>29, <1>30, <1>31, <1>32, <1>33
     DEF Next, Call, SendRequest, Relay, Return, Wait, Handler, Tor, Quiescent,
         Procs


----------------------------------------------------------------------------
(* The theorem *)

LEMMA SendInvCloses ==
  ASSUME Inv, SendInv
  PROVE  SafeClose
<1> SUFFICES ASSUME NEW w \in Waits, wait[w].chan = "closed"
             PROVE  /\ ~Registered(w)
                    /\ w \in unbarriered
                       \/ \A p \in Procs : ~Contains(relay[p].to, w)
  BY DEF SafeClose
<1>1. \A q \in Callers : call[q].on # w
  BY DEF Inv, CallInv
<1>2. ~Registered(w)
  BY <1>1, OwnedOnly DEF Owns, Registered
<1>3. \A q \in Callers : ~Barred(q, w)
  BY <1>1 DEF Barred, Owns
<1> QED
  BY <1>2, <1>3 DEF SendInv

\* A closed channel is in no listener list, and nobody is about to send on it
\* unless its EventWait gave it up without taking readLock after removing it
\* from the map: after a failed AddEventListener, or a SETEVENTS that could not
\* be written.  In every other case the SETEVENTS of RemoveEventListener works
\* as a barrier: its sender gets readLock only when the goroutine that looked
\* up the channel has sent (cmd_event.go:119-127, 301-304; conn.go:63).
THEOREM ClosedSafely == Spec => []SafeClose
<1>1. Init => SendInv
  BY DEF Init, SendInv, Contains
<1>2. Inv /\ SendInv /\ [Next]_vars => SendInv'
  BY SendStep
<1>3. Inv /\ SendInv => SafeClose
  BY SendInvCloses
<1> QED
  BY <1>1, <1>2, <1>3, InvHolds, PTL DEF Spec

----------------------------------------------------------------------------
(* The numbers of the events that wait in the stream                        *)

\* s[i] is the number of the last event among the first i messages of q.
Numbered(q, from, s) ==
  /\ s \in [0..Len(q) -> Nat]
  /\ s[0] = from
  /\ \A i \in 1..Len(q) :
       IF q[i].kind = "event" THEN s[i] = s[i - 1] + 1 /\ q[i].n = s[i]
                              ELSE s[i] = s[i - 1]

LEMMA NumberedTail ==
  ASSUME NEW q \in Seq(Messages), q # <<>>, NEW from \in Nat, NEW s, Numbered(q, from, s)
  PROVE  /\ Head(q).kind = "event" => Head(q).n = from + 1
         /\ \E t : /\ Numbered(Tail(q), IF Head(q).kind = "event" THEN from + 1 ELSE from, t)
                   /\ t[Len(Tail(q))] = s[Len(q)]
<1>. DEFINE n == Len(q)
            t == [i \in 0..(n - 1) |-> s[i + 1]]
<1>1. /\ n \in Nat \ {0} /\ Len(Tail(q)) = n - 1 /\ Head(q) = q[1]
      /\ \A i \in 1..(n - 1) : Tail(q)[i] = q[i + 1]
  OBVIOUS
<1>2. /\ s \in [0..n -> Nat] /\ s[0] = from
      /\ \A i \in 1..n : IF q[i].kind = "event" THEN s[i] = s[i - 1] + 1 /\ q[i].n = s[i]
                                                ELSE s[i] = s[i - 1]
  BY DEF Numbered
<1>. HIDE DEF n
<1>3. 1 \in 1..n /\ 1 - 1 = 0
  BY <1>1
<1>4. /\ Head(q).kind = "event" => Head(q).n = from + 1
      /\ s[1] = IF Head(q).kind = "event" THEN from + 1 ELSE from
  BY <1>1, <1>2, <1>3
<1>5. /\ t \in [0..(n - 1) -> Nat]
      /\ \A i \in 0..(n - 1) : t[i] = s[i + 1]
  BY <1>1, <1>2
<1>. HIDE DEF t
<1>6. t[0] = s[1] /\ t[n - 1] = s[n]
  BY <1>1, <1>5
<1>7. ASSUME NEW i \in 1..(n - 1)
      PROVE  IF Tail(q)[i].kind = "event" THEN t[i] = t[i - 1] + 1 /\ Tail(q)[i].n = t[i]
                                          ELSE t[i] = t[i - 1]
  <2>1. i - 1 \in 0..(n - 1) /\ i \in 0..(n - 1) /\ i + 1 \in 1..n
        /\ (i - 1) + 1 = i /\ (i + 1) - 1 = i
    BY <1>1
  <2>2. t[i - 1] = s[i] /\ t[i] = s[i + 1] /\ Tail(q)[i] = q[i + 1]
    BY <1>1, <1>5, <2>1
  <2>. QED
    BY <1>2, <2>1, <2>2
<1>8. Numbered(Tail(q), IF Head(q).kind = "event" THEN from + 1 ELSE from, t)
  BY <1>1, <1>4, <1>5, <1>6, <1>7 DEF Numbered
<1>. QED
  BY <1>1, <1>4, <1>6, <1>8 DEF n

LEMMA NumberedAppend ==
  ASSUME NEW q \in Seq(Messages), NEW from, NEW s, Numbered(q, from, s),
         NEW m \in Messages, m.kind = "event" => m.n = s[Len(q)] + 1
  PROVE  \E t : /\ Numbered(Append(q, m), from, t)
                /\ t[Len(q) + 1] = IF m.kind = "event" THEN s[Len(q)] + 1 ELSE s[Len(q)]
<1>. DEFINE n == Len(q)
            last == IF m.kind = "event" THEN s[n] + 1 ELSE s[n]
            t == [i \in 0..(n + 1) |-> IF i = n + 1 THEN last ELSE s[i]]
<1>1. n \in Nat /\ Len(Append(q, m)) = n + 1 /\ Append(q, m)[n + 1] = m
      /\ \A i \in 1..n : Append(q, m)[i] = q[i]
  OBVIOUS
<1>2. s \in [0..n -> Nat] /\ s[n] \in Nat /\ last \in Nat
  BY <1>1 DEF Numbered
<1>. HIDE DEF n
<1>3. /\ last = IF m.kind = "event" THEN s[n] + 1 ELSE s[n]
      /\ m.kind = "event" => m.n = last
  BY DEF n
<1>. HIDE DEF last
<1>4. /\ t \in [0..(n + 1) -> Nat]
      /\ t[n + 1] = last
      /\ \A i \in 0..n : t[i] = s[i]
  BY <1>1, <1>2
<1>5. t[0] = from
  BY <1>1, <1>4 DEF Numbered, n
<1>. HIDE DEF t
<1>6. ASSUME NEW i \in 1..(n + 1)
      PROVE  IF Append(q, m)[i].kind = "event"
             THEN t[i] = t[i - 1] + 1 /\ Append(q, m)[i].n = t[i] ELSE t[i] = t[i - 1]
  <2>1. CASE i = n + 1
    BY <1>1, <1>3, <1>4, <2>1
  <2>2. CASE i \in 1..n
    <3>1. i - 1 \in 0..n /\ i \in 0..n
      BY <1>1, <2>2
    <3>2. IF q[i].kind = "event" THEN s[i] = s[i - 1] + 1 /\ q[i].n = s[i]
                                 ELSE s[i] = s[i - 1]
      BY <2>2 DEF Numbered, n
    <3>. QED
      BY <1>1, <1>4, <2>2, <3>1, <3>2
  <2>. QED
    BY <1>1, <2>1, <2>2
<1>7. Numbered(Append(q, m), from, t)
  BY <1>1, <1>4, <1>5, <1>6 DEF Numbered
<1>. QED
  BY <1>3, <1>4, <1>7 DEF n

LEMMA NumberedCut ==
  ASSUME NEW q \in Seq(Messages), NEW from, NEW s, Numbered(q, from, s),
         NEW n \in 0..Len(q)
  PROVE  \E t : Numbered(SubSeq(q, 1, n), from, t)
<1>. DEFINE t == [i \in 0..n |-> s[i]]
<1>1. Len(q) \in Nat /\ Len(SubSeq(q, 1, n)) = n
      /\ \A i \in 1..n : SubSeq(q, 1, n)[i] = q[i]
  OBVIOUS
<1>2. t \in [0..n -> Nat] /\ \A i \in 0..n : t[i] = s[i]
  BY <1>1 DEF Numbered
<1>. HIDE DEF t
<1>3. ASSUME NEW i \in 1..n
      PROVE  IF SubSeq(q, 1, n)[i].kind = "event"
             THEN t[i] = t[i - 1] + 1 /\ SubSeq(q, 1, n)[i].n = t[i] ELSE t[i] = t[i - 1]
  <2>1. i - 1 \in 0..n /\ i \in 0..n /\ i \in 1..Len(q)
    BY <1>1
  <2>. QED
    BY <1>1, <1>2, <2>1 DEF Numbered
<1>4. 0 \in 0..n /\ t[0] = from
  BY <1>1, <1>2 DEF Numbered
<1>. QED
  BY <1>1, <1>2, <1>3, <1>4 DEF Numbered

\* The events in the stream are those after the last one read, in order, and as
\* long as the link is up they are all that Tor has emitted.
EventsInv ==
  /\ seen <= Len(log)
  /\ \E s : Numbered(inbox, seen, s) /\ (linkUp => s[Len(inbox)] = Len(log))

LEMMA EventsSame ==
  ASSUME EventsInv, UNCHANGED <<seen, log, inbox, linkUp>>
  PROVE  EventsInv'
  BY DEF EventsInv, Numbered

LEMMA EventsCut ==
  ASSUME Inv, EventsInv, LoseLink, UNCHANGED seen
  PROVE  EventsInv'
<1>1. PICK n \in 0..Len(inbox) : inbox' = SubSeq(inbox, 1, n)
  BY DEF LoseLink
<1>2. PICK s : Numbered(inbox, seen, s)
  BY DEF EventsInv
<1>3. inbox \in Seq(Messages)
  BY DEF Inv, TypeOK
<1>4. PICK t : Numbered(SubSeq(inbox, 1, n), seen, t)
  BY <1>2, <1>3, NumberedCut
<1>5. Numbered(inbox', seen', t) /\ ~linkUp' /\ log' = log
  BY <1>1, <1>4 DEF LoseLink
<1>. QED
  BY <1>5 DEF EventsInv, Numbered

LEMMA EventsRead ==
  ASSUME Inv, EventsInv, inbox # <<>>, inbox' = Tail(inbox), UNCHANGED <<log, linkUp>>,
         seen' = IF Head(inbox).kind = "event" THEN Head(inbox).n ELSE seen
  PROVE  /\ EventsInv'
         /\ Head(inbox).kind = "event" => Head(inbox).n = seen + 1
<1>0. inbox \in Seq(Messages) /\ seen \in Nat /\ log \in Seq(Codes)
  BY DEF Inv, TypeOK
<1>1. PICK s : Numbered(inbox, seen, s) /\ (linkUp => s[Len(inbox)] = Len(log))
  BY DEF EventsInv
<1>2. Head(inbox).kind = "event" => Head(inbox).n = seen + 1
  BY <1>0, <1>1, NumberedTail
<1>3. PICK t : /\ Numbered(Tail(inbox), IF Head(inbox).kind = "event" THEN seen + 1 ELSE seen, t)
               /\ t[Len(Tail(inbox))] = s[Len(inbox)]
  BY <1>0, <1>1, NumberedTail
<1>4. Numbered(inbox', seen', t) /\ (linkUp' => t[Len(inbox')] = Len(log'))
  BY <1>1, <1>2, <1>3
<1>5. seen' <= Len(log')
  <2>1. CASE Head(inbox).kind = "event"
    <3>1. 1 \in 1..Len(inbox) /\ Head(inbox) = inbox[1]
      BY <1>0
    <3>2. Head(inbox).n \in 1..Len(log)
      BY <2>1, <3>1 DEF Inv, LogInv
    <3>. QED
      BY <1>0, <2>1, <3>2
  <2>2. CASE Head(inbox).kind # "event"
    BY <2>2 DEF EventsInv
  <2>. QED
    BY <2>1, <2>2
<1>. QED
  BY <1>2, <1>4, <1>5 DEF EventsInv, Numbered

\* A message is added to the stream: a reply, or the event that is logged.
LEMMA EventsAdd ==
  ASSUME Inv, EventsInv, linkUp, NEW m \in Messages, inbox' = Append(inbox, m),
         linkUp' \in BOOLEAN, UNCHANGED seen,
         \/ m.kind = "reply" /\ UNCHANGED log
         \/ /\ m.kind = "event" /\ m.n = Len(log) + 1
            /\ \E code \in Codes : log' = Append(log, code)
  PROVE  EventsInv'
<1>0. inbox \in Seq(Messages) /\ seen \in Nat /\ log \in Seq(Codes)
  BY DEF Inv, TypeOK
<1>1. PICK s : Numbered(inbox, seen, s) /\ s[Len(inbox)] = Len(log)
  BY DEF EventsInv
<1>2. PICK t : /\ Numbered(Append(inbox, m), seen, t)
               /\ t[Len(inbox) + 1] = IF m.kind = "event" THEN s[Len(inbox)] + 1
                                                          ELSE s[Len(inbox)]
  BY <1>0, <1>1, NumberedAppend
<1>3. Len(inbox') = Len(inbox) + 1
  BY <1>0
<1>4. /\ Len(log') = IF m.kind = "event" THEN Len(log) + 1 ELSE Len(log)
      /\ Len(log) \in Nat
  BY <1>0
<1>5. Numbered(inbox', seen', t) /\ t[Len(inbox')] = Len(log')
  BY <1>1, <1>2, <1>3, <1>4
<1>6. seen' <= Len(log')
  BY <1>0, <1>4 DEF EventsInv
<1>. QED
  BY <1>5, <1>6 DEF EventsInv, Numbered

LEMMA EventsStep ==
  ASSUME Inv, EventsInv, [Next]_vars
  PROVE  EventsInv'
<1>. USE DEF pipe, tor, history
<1>1. ASSUME NEW p \in Callers,
             Call(p) \/ Cmd(p) \/ CmdFails(p) \/ StartResponse(p) \/ ReadFails(p)
               \/ LockForResponse(p)
      PROVE  EventsInv'
  BY <1>1, EventsSame DEF Call, Request, EventWait, Cmd, CmdFails, StartResponse, ReadFails,
     FinishResponse, LockForResponse, Lock
<1>2. ASSUME NEW p \in Callers, ReadReply(p)
      PROVE  EventsInv'
  BY <1>2, EventsRead DEF ReadReply, FinishResponse, Received
<1>3. ASSUME NEW p \in Callers,
             ReturnRequest(p) \/ StartHandler(p) \/ RollBack(p) \/ ReturnRemove(p) \/ Wait(p)
      PROVE  EventsInv'
  BY <1>3, EventsSame DEF ReturnRequest, StartHandler, RollBack, ReturnRemove, Wait,
     ComposeSetEvents, SelectEvent, SelectEnd, RemoveEventListener, CloseChan
<1>4. ASSUME NEW p \in Callers, Close(p)
      PROVE  EventsInv'
  BY <1>4, EventsCut DEF Close
<1>5. ASSUME NEW p \in Procs, ReadEvent(p)
      PROVE  EventsInv'
  BY <1>5, EventsRead DEF ReadEvent, Received
<1>6. ASSUME NEW p \in Procs, Send(p) \/ SendPanics(p) \/ EndRelay(p)
      PROVE  EventsInv'
  BY <1>6, EventsSame DEF Send, SendPanics, EndRelay, Unlock
<1>7. ASSUME NEW w \in Waits, Handler(w) \/ LockForEvent(w) \/ CtxDone(w)
      PROVE  EventsInv'
  BY <1>7, EventsSame DEF Handler, HandleEvents, PeekReply, PeekFails, LockForEvent, CtxDone,
     Lock, Unlock
<1>8. ASSUME NEW op, NEW status \in Statuses, Answer(op, status), linkUp' \in BOOLEAN
      PROVE  EventsInv'
  <2>1. Head(wire) \in Commands
    BY <1>8 DEF Answer, Inv, TypeOK
  <2>2. Reply(Head(wire).id, status) \in Messages
        /\ Reply(Head(wire).id, status).kind = "reply"
    BY <2>1 DEF Reply, Messages, Commands
  <2>. QED
    BY <1>8, <2>2, EventsAdd DEF Answer, TorRuns
<1>9. CASE Tor
  BY <1>8, <1>9 DEF Tor, AnswerRequest, AnswerSetEvents, AnswerQuit, Statuses, Inv, TypeOK
<1>10. ASSUME NEW code \in Codes, Emit(code)
       PROVE  EventsInv'
  <2>1. Event(Len(log) + 1) \in Messages
        /\ Event(Len(log) + 1).kind = "event" /\ Event(Len(log) + 1).n = Len(log) + 1
    BY DEF Event, Messages, Statuses, Inv, TypeOK
  <2>. QED
    BY <1>10, <2>1, EventsAdd DEF Emit, TorRuns, Inv, TypeOK
<1>11. CASE TorExits
  BY <1>11, EventsCut DEF TorExits, TorRuns
<1>12. CASE UNCHANGED vars
  BY <1>12, EventsSame DEF vars
<1>. QED
  BY <1>1, <1>2, <1>3, <1>4, <1>5, <1>6, <1>7, <1>9, <1>10, <1>11, <1>12
  DEF Next, SendRequest, Return, Relay, Quiescent

----------------------------------------------------------------------------
(* Sequences of event numbers                                               *)

LEMMA AppendLast ==
  ASSUME NEW s \in Seq(Nat), NEW n \in Nat, Increasing(s), \A x \in Range(s) : x < n
  PROVE  /\ Increasing(s \o <<n>>)
         /\ Range(s \o <<n>>) = Range(s) \cup {n}
<1>. DEFINE t == s \o <<n>>
<1>1. /\ t \in Seq(Nat) /\ Len(t) = Len(s) + 1 /\ t[Len(s) + 1] = n
      /\ \A i \in 1..Len(s) : t[i] = s[i]
  OBVIOUS
<1>2. \A i \in 1..Len(s) : s[i] \in Range(s)
  BY DEF Range
<1>. HIDE DEF t
<1>3. Increasing(t)
  <2>1. ASSUME NEW i \in 1..(Len(s) + 1), NEW j \in 1..(Len(s) + 1), i < j
        PROVE  t[i] < t[j]
    <3>1. i \in 1..Len(s) /\ t[i] = s[i]
      BY <1>1, <2>1
    <3>2. CASE j = Len(s) + 1
      BY <1>1, <1>2, <3>1, <3>2
    <3>3. CASE j \in 1..Len(s)
      BY <1>1, <2>1, <3>1, <3>3 DEF Increasing
    <3>. QED
      BY <1>1, <3>2, <3>3
  <2>. QED
    BY <1>1, <2>1 DEF Increasing
<1>4. DOMAIN t = 1..(Len(s) + 1) /\ DOMAIN s = 1..Len(s) /\ Len(s) \in Nat
  BY <1>1
<1>5. Range(t) = Range(s) \cup {n}
  BY <1>1, <1>4 DEF Range
<1>. QED
  BY <1>3, <1>5 DEF t

LEMMA Associative ==
  ASSUME NEW x \in Seq(Nat), NEW y \in Seq(Nat), NEW z \in Seq(Nat)
  PROVE  (x \o y) \o z = x \o (y \o z)
  BY ConcatAssociative

\* A send moves an event into the channel and keeps the whole.
LEMMA MovedIn ==
  ASSUME NEW a \in Seq(Nat), NEW b \in Seq(Nat), NEW n \in Nat
  PROVE  a \o Append(b, n) \o <<>> = a \o b \o <<n>>
<1>1. a \o b \in Seq(Nat)
  OBVIOUS
<1>2. Append(b, n) = b \o <<n>> /\ <<n>> \in Seq(Nat)
  BY AppendIsConcat
<1>3. (a \o b) \o <<n>> = a \o (b \o <<n>>)
  BY <1>2, Associative
<1>4. a \o (b \o <<n>>) \in Seq(Nat)
  BY <1>1, <1>2, <1>3
<1>5. (a \o (b \o <<n>>)) \o <<>> = a \o (b \o <<n>>)
  BY <1>4, ConcatEmptySeq
<1>. QED
  BY <1>2, <1>3, <1>5

\* A receive moves it out and keeps the whole.
LEMMA MovedOut ==
  ASSUME NEW a \in Seq(Nat), NEW b \in Seq(Nat), b # <<>>
  PROVE  Append(a, Head(b)) \o Tail(b) = a \o b
<1>. DEFINE one == <<Head(b)>>
            rest == Tail(b)
<1>1. /\ one \in Seq(Nat) /\ rest \in Seq(Nat) /\ Len(one) = 1 /\ one[1] = b[1]
      /\ Len(b) = 1 + Len(rest) /\ \A i \in 1..Len(rest) : rest[i] = b[i + 1]
      /\ Head(b) \in Nat
  OBVIOUS
<1>2. Append(a, Head(b)) = a \o one
  BY <1>1, AppendIsConcat
<1>. HIDE DEF one, rest
<1>0. a \in Seq(Nat) /\ one \in Seq(Nat) /\ rest \in Seq(Nat)
  BY <1>1
<1>3. /\ one \o rest \in Seq(Nat) /\ Len(one \o rest) = 1 + Len(rest)
      /\ \A i \in 1..(1 + Len(rest)) :
           (one \o rest)[i] = IF i <= 1 THEN one[i] ELSE rest[i - 1]
  <2>1. /\ one \o rest \in Seq(Nat) /\ Len(one \o rest) = Len(one) + Len(rest)
        /\ \A i \in 1..Len(one) + Len(rest) :
             (one \o rest)[i] = IF i <= Len(one) THEN one[i] ELSE rest[i - Len(one)]
    BY <1>0, ConcatProperties, Zenon
  <2>. QED
    BY <1>1, <2>1
<1>4. one \o rest = b
  <2>1. ASSUME NEW i \in 1..Len(b) PROVE (one \o rest)[i] = b[i]
    <3>1. CASE i = 1
      BY <1>1, <1>3, <3>1
    <3>2. CASE i # 1
      <4>1. i - 1 \in 1..Len(rest) /\ (i - 1) + 1 = i /\ ~(i <= 1)
        BY <1>1, <3>2
      <4>. QED
        BY <1>1, <1>3, <4>1
    <3>. QED
      BY <3>1, <3>2
  <2>. QED
    BY <1>1, <1>3, <2>1, SeqEqual
<1>5. (a \o one) \o rest = a \o (one \o rest)
  BY <1>0, Associative
<1>6. Append(a, Head(b)) \o rest = a \o b
  BY <1>2, <1>4, <1>5
<1>. QED
  BY <1>6 DEF rest

----------------------------------------------------------------------------
(* The channels an event is relayed to                                      *)

LEMMA ConcatOnce ==
  ASSUME NEW S, NEW q \in Seq(S), NEW r \in Seq(S), NEW x
  PROVE  /\ Contains(q \o r, x) <=> Contains(q, x) \/ Contains(r, x)
         /\ Once(q, x) /\ Once(r, x) /\ ~(Contains(q, x) /\ Contains(r, x))
              => Once(q \o r, x)
<1>1. /\ Len(q) \in Nat /\ Len(r) \in Nat /\ Len(q \o r) = Len(q) + Len(r)
      /\ \A i \in 1..(Len(q) + Len(r)) :
           (q \o r)[i] = IF i <= Len(q) THEN q[i] ELSE r[i - Len(q)]
  BY ConcatProperties
<1>. DEFINE z == q \o r
<1>. HIDE DEF z
<1>2. ASSUME NEW i \in 1..Len(z)
      PROVE  \/ i \in 1..Len(q) /\ z[i] = q[i]
             \/ i - Len(q) \in 1..Len(r) /\ z[i] = r[i - Len(q)]
  BY <1>1 DEF z
<1>3. \A i \in 1..Len(q) : i \in 1..Len(z) /\ z[i] = q[i]
  BY <1>1 DEF z
<1>4. ASSUME NEW i \in 1..Len(r)
      PROVE  Len(q) + i \in 1..Len(z) /\ z[Len(q) + i] = r[i]
  <2>1. Len(q) + i \in 1..(Len(q) + Len(r)) /\ ~(Len(q) + i <= Len(q))
        /\ (Len(q) + i) - Len(q) = i
    BY <1>1
  <2>. QED
    BY <1>1, <2>1 DEF z
<1>5. Contains(z, x) <=> Contains(q, x) \/ Contains(r, x)
  BY <1>2, <1>3, <1>4 DEF Contains
<1>6. ASSUME Once(q, x), Once(r, x), ~(Contains(q, x) /\ Contains(r, x))
      PROVE  Once(z, x)
  <2>1. ASSUME NEW i \in 1..Len(z), NEW j \in 1..Len(z), z[i] = x, z[j] = x
        PROVE  i = j
    <3>1. CASE i \in 1..Len(q) /\ z[i] = q[i]
      <4>1. j \in 1..Len(q) /\ z[j] = q[j]
        BY <1>2, <1>6, <2>1, <3>1 DEF Contains
      <4>. QED
        BY <1>6, <2>1, <3>1, <4>1 DEF Once
    <3>2. CASE i - Len(q) \in 1..Len(r) /\ z[i] = r[i - Len(q)]
      <4>1. j - Len(q) \in 1..Len(r) /\ z[j] = r[j - Len(q)]
        BY <1>2, <1>6, <2>1, <3>2 DEF Contains
      <4>2. i - Len(q) = j - Len(q)
        BY <1>6, <2>1, <3>2, <4>1 DEF Once
      <4>. QED
        BY <1>1, <4>2, <2>1
    <3>. QED
      BY <1>2, <3>1, <3>2
  <2>. QED
    BY <2>1 DEF Once
<1>. QED
  BY <1>5, <1>6 DEF z

\* EventCodeUnrecognized goes with recognized events: a channel registered for
\* an unrecognized event both ways would get it twice.
Distinct(K) == Unrecognized \in K => K \subseteq Recognized \cup {Unrecognized}

LEMMA TargetsOf ==
  ASSUME Inv, NEW k \in Codes, NEW w \in Waits, Distinct(wait[w].codes)
  PROVE  /\ Once(Targets(k), w)
         /\ Contains(Targets(k), w) <=>
              \/ Contains(listeners[k], w)
              \/ k \notin Recognized /\ Contains(listeners[Unrecognized], w)
<1>1. /\ listeners[k] \in Seq(Waits) /\ listeners[Unrecognized] \in Seq(Waits)
      /\ <<>> \in Seq(Waits)
  BY DEF Inv, TypeOK, Keys
<1>2. Once(listeners[k], w) /\ Once(listeners[Unrecognized], w) /\ Once(<<>>, w)
      /\ ~Contains(<<>>, w)
  BY DEF Inv, MapInv, Keys, Once, Contains
<1>3. CASE k \in Recognized
  BY <1>1, <1>2, <1>3, ConcatOnce DEF Targets
<1>4. CASE k \notin Recognized
  <2>1. ~(Contains(listeners[k], w) /\ Contains(listeners[Unrecognized], w))
    BY <1>4, CodeAssumption DEF Distinct, Inv, MapInv, Keys
  <2>. QED
    BY <1>1, <1>2, <1>4, <2>1, ConcatOnce DEF Targets
<1>. QED
  BY <1>3, <1>4

\* Only the goroutine that holds readLock relays, so Unsent chooses no other.
OneRelays ==
  \A w \in Waits :
    /\ \A p \in Procs : Contains(relay[p].to, w) => Unsent(w) = <<relay[p].n>>
    /\ (\A p \in Procs : ~Contains(relay[p].to, w)) => Unsent(w) = <<>>

LEMMA UnsentIs == Inv => OneRelays
<1>. SUFFICES ASSUME Inv PROVE OneRelays
  OBVIOUS
<1>1. ASSUME NEW w \in Waits, NEW p \in Procs, Contains(relay[p].to, w)
      PROVE  Unsent(w) = <<relay[p].n>>
  <2>1. ASSUME NEW q \in Procs, Contains(relay[q].to, w) PROVE readLock = q
    <3>1. relay[q].to # <<>>
      BY <2>1 DEF Contains
    <3>. QED
      BY <3>1 DEF Inv, LockInv, Holding
  <2>2. (CHOOSE q \in Procs : Contains(relay[q].to, w)) = p
    BY <1>1, <2>1
  <2>. QED
    BY <1>1, <2>2 DEF Unsent
<1>. QED
  BY <1>1 DEF OneRelays, Unsent

LEMMA UnsentNext == Inv' => OneRelays'
  BY UnsentIs, PTL

----------------------------------------------------------------------------
(* The inductive invariant                                                  *)

RelayInv ==
  \A p \in Procs, w \in Waits :
    /\ Once(relay[p].to, w)
    /\ Contains(relay[p].to, w) => wait[w].chan # "new"

ListInv ==
  \A w \in Waits :
    /\ wait[w].codes = {} \/ wait[w].codes \in WaitSets
    /\ wait[w].chan = "new" => wait[w].taken = <<>> /\ wait[w].buf = <<>>
    /\ Registered(w) => /\ wait[w].start <= seen
                        /\ \A k \in wait[w].codes : Contains(listeners[k], w)

DeliverInv == EventsInv /\ RelayInv /\ ListInv /\ InOrderDelivery

\* A step that takes no event further: for a channel that stays registered
\* nothing changes, a channel may go, and Tor may emit.
Still ==
  /\ seen' = seen
  /\ log' = log \/ \E code \in Codes : log' = Append(log, code)
  /\ \A p \in Procs :
       /\ relay'[p].to = relay[p].to
       /\ relay[p].to # <<>> => relay'[p].n = relay[p].n
  /\ \A w \in Waits :
       /\ wait'[w].chan = "new" => wait'[w] = wait[w]
       /\ wait'[w].codes = {} \/ wait'[w].codes = wait[w].codes
       /\ Registered(w)' =>
            /\ Registered(w)
            /\ \A k \in Keys : Contains(listeners[k], w) => Contains(listeners'[k], w)
            /\ wait'[w].codes = wait[w].codes /\ wait'[w].start = wait[w].start
            /\ wait'[w].taken = wait[w].taken /\ wait'[w].buf = wait[w].buf

LEMMA StillKept ==
  ASSUME Inv, Inv', DeliverInv, Still
  PROVE  RelayInv' /\ ListInv' /\ InOrderDelivery'
<1>1. RelayInv'
  BY DEF DeliverInv, RelayInv, Still
<1>2. ListInv'
  <2>1. \A w \in Waits : wait[w].codes \subseteq Keys
    BY DEF Inv, TypeOK, WaitStates
  <2>. QED
    BY <2>1 DEF DeliverInv, ListInv, Still
<1>3. ASSUME NEW w \in Waits, Registered(w)'
      PROVE  /\ Increasing(Delivered(w)')
             /\ Range(Delivered(w)')
                  = {n \in (wait'[w].start + 1)..seen' : Matches(w, n)'}
  <2>1. Unsent(w)' = Unsent(w)
    <3>1. CASE \E p \in Procs : Contains(relay[p].to, w)
      <4>1. PICK p \in Procs : Contains(relay[p].to, w)
        BY <3>1
      <4>2. relay[p].to # <<>>
        BY <4>1 DEF Contains
      <4>3. Contains(relay'[p].to, w) /\ relay'[p].n = relay[p].n
        BY <4>1, <4>2 DEF Still
      <4>4. Unsent(w) = <<relay[p].n>>
        BY <4>1, UnsentIs DEF OneRelays
      <4>5. Unsent(w)' = <<relay'[p].n>>
        BY <4>3, UnsentNext DEF OneRelays
      <4>. QED
        BY <4>3, <4>4, <4>5
    <3>2. CASE \A p \in Procs : ~Contains(relay[p].to, w)
      BY <3>2 DEF Unsent, Still
    <3>. QED
      BY <3>1, <3>2
  <2>2. Delivered(w)' = Delivered(w)
    BY <1>3, <2>1 DEF Delivered, Still
  <2>3. seen <= Len(log) /\ wait[w].start \in Nat /\ seen \in Nat /\ log \in Seq(Codes)
    BY DEF DeliverInv, EventsInv, Inv, TypeOK, WaitStates
  <2>4. ASSUME NEW n \in (wait[w].start + 1)..seen PROVE Matches(w, n)' <=> Matches(w, n)
    <3>1. n \in 1..Len(log)
      BY <2>3
    <3>2. log'[n] = log[n]
      BY <2>3, <3>1 DEF Still
    <3>. QED
      BY <1>3, <3>2 DEF Matches, Still
  <2>5. /\ Increasing(Delivered(w))
        /\ Range(Delivered(w)) = {n \in (wait[w].start + 1)..seen : Matches(w, n)}
    BY <1>3 DEF DeliverInv, InOrderDelivery, Still
  <2>6. wait'[w].start = wait[w].start /\ seen' = seen
    BY <1>3 DEF Still
  <2>. QED
    BY <2>2, <2>4, <2>5, <2>6
<1>4. InOrderDelivery'
  BY <1>3 DEF InOrderDelivery, Increasing
<1>. QED
  BY <1>1, <1>2, <1>4

----------------------------------------------------------------------------
(* The steps that take no event further                                     *)

\* Tor's steps, and those of the goroutines that touch neither a channel nor
\* the listener map.
LEMMA StillSame ==
  ASSUME Inv, seen' = seen, listeners' = listeners, wait' = wait, relay' = relay,
         log' = log \/ \E code \in Codes : log' = Append(log, code)
  PROVE  Still
  BY DEF Still, Registered

\* A step that sets a flag of an EventWait.
LEMMA StillFlag ==
  ASSUME Inv, UNCHANGED <<seen, listeners, log, relay>>, NEW w \in Waits, NEW v,
         wait' = [wait EXCEPT ![w].done = v] \/ wait' = [wait EXCEPT ![w].err = v],
         wait[w].chan # "new"
  PROVE  Still
<1>1. ASSUME NEW b \in Waits
      PROVE  /\ wait'[b].chan = wait[b].chan /\ wait'[b].codes = wait[b].codes
             /\ wait'[b].start = wait[b].start /\ wait'[b].taken = wait[b].taken
             /\ wait'[b].buf = wait[b].buf
             /\ b # w => wait'[b] = wait[b]
  BY DEF Inv, TypeOK, WaitStates
<1>. QED
  BY <1>1 DEF Still, Registered

\* v is taken out of the listener map.
LEMMA StillRemoved ==
  ASSUME Inv, NEW v \in Waits, listeners' = WithoutListener(v, wait[v].codes),
         UNCHANGED <<seen, log, relay, wait>>
  PROVE  Still
<1>1. ASSUME NEW k \in Keys, NEW w \in Waits
      PROVE  Contains(listeners'[k], w) <=> Contains(listeners[k], w) /\ w # v
  <2>1. listeners[k] \in Seq(Waits) /\ Once(listeners[k], v)
    BY DEF Inv, TypeOK, MapInv
  <2>2. CASE k \in wait[v].codes
    <3>1. listeners'[k] = RemoveFirst(listeners[k], v)
      BY <2>2 DEF WithoutListener
    <3>. QED
      BY <2>1, <3>1, RemoveFirstProperties
  <2>3. CASE k \notin wait[v].codes
    BY <2>3 DEF WithoutListener, Inv, MapInv
  <2>. QED
    BY <2>2, <2>3
<1>2. ASSUME NEW w \in Waits, Registered(w)'
      PROVE  Registered(w) /\ \A k \in Keys : Contains(listeners[k], w) => Contains(listeners'[k], w)
  BY <1>1, <1>2 DEF Registered
<1>. QED
  BY <1>2 DEF Still

\* A channel is closed: it is in no list any more.
LEMMA StillClosed ==
  ASSUME Inv, NEW p \in Callers, CloseChan(p)
  PROVE  Still
<1>. DEFINE w == call[p].on
<1>1. pc[p] = "close" /\ w \in Waits
  BY DEF CloseChan, Goto, Inv, CallInv
<1>2. /\ UNCHANGED <<seen, log, relay, listeners>>
      /\ wait'[w].chan = "closed" /\ wait'[w].codes = {}
      /\ \A b \in Waits : b # w => wait'[b] = wait[b]
  BY <1>1 DEF CloseChan, NewWait, tor, history, Inv, TypeOK
<1>3. ~Registered(w)
  BY <1>1 DEF Registered, Inv, MapInv, CallInv, Owns
<1>. HIDE DEF w
<1>. QED
  BY <1>1, <1>2, <1>3 DEF Still, Registered

LEMMA StillEndRelay ==
  ASSUME Inv, NEW p \in Procs, EndRelay(p)
  PROVE  Still
<1>1. /\ UNCHANGED <<seen, log, listeners, wait>> /\ relay[p].to = <<>>
      /\ \A q \in Procs : relay'[q].to = relay[q].to
      /\ \A q \in Procs : q # p => relay'[q] = relay[q]
  BY DEF EndRelay, tor, history, Inv, TypeOK
<1>. QED
  BY <1>1 DEF Still, Registered

----------------------------------------------------------------------------
(* The steps that take an event further                                     *)

\* EventWait registers its channel: from here on, and for what it asks for.
LEMMA EventWaitKept ==
  ASSUME Inv, Inv', DeliverInv, NEW p \in Callers, NEW w \in Waits, NEW K \in WaitSets,
         EventWait(p, w, K)
  PROVE  RelayInv' /\ ListInv' /\ InOrderDelivery'
<1>1. /\ wait[w].chan = "new" /\ wait'[w].chan = "open" /\ wait'[w].codes = K
      /\ wait'[w].start = seen /\ wait'[w].taken = wait[w].taken
      /\ wait'[w].buf = wait[w].buf
      /\ \A b \in Waits : b # w => wait'[b] = wait[b]
  BY DEF EventWait, Inv, TypeOK, WaitStates
<1>2. /\ UNCHANGED <<seen, log, relay>> /\ listeners' = WithListener(w, K)
      /\ seen \in Nat
  BY DEF EventWait, tor, history, Inv, TypeOK
<1>3. ASSUME NEW k \in Keys, NEW b \in Waits
      PROVE  Contains(listeners'[k], b) <=> Contains(listeners[k], b) \/ (k \in K /\ b = w)
  <2>1. listeners[k] \in Seq(Waits) /\ Len(listeners[k]) \in Nat
    BY DEF Inv, TypeOK
  <2>2. CASE k \in K
    <3>1. listeners'[k] = Append(listeners[k], w)
      BY <1>2, <2>2 DEF WithListener
    <3>2. /\ Len(listeners'[k]) = Len(listeners[k]) + 1
          /\ listeners'[k][Len(listeners[k]) + 1] = w
          /\ \A i \in 1..Len(listeners[k]) : listeners'[k][i] = listeners[k][i]
      BY <2>1, <3>1, AppendProperties
    <3>3. \A i \in 1..Len(listeners'[k]) :
            i \in 1..Len(listeners[k]) \/ i = Len(listeners[k]) + 1
      BY <2>1, <3>2
    <3>4. 1..Len(listeners[k]) \subseteq 1..Len(listeners'[k])
          /\ Len(listeners[k]) + 1 \in 1..Len(listeners'[k])
      BY <2>1, <3>2
    <3>. QED
      BY <2>2, <3>2, <3>3, <3>4 DEF Contains
  <2>3. CASE k \notin K
    BY <1>2, <2>3 DEF WithListener
  <2>. QED
    BY <2>2, <2>3
<1>4. K \subseteq Keys
  BY CodeAssumption
<1>5. RelayInv'
  BY <1>1, <1>2 DEF DeliverInv, RelayInv
<1>6. ListInv'
  <2>1. ASSUME NEW b \in Waits, b # w, Registered(b)'
        PROVE  Registered(b) /\ \A k \in Keys : Contains(listeners[k], b) => Contains(listeners'[k], b)
    BY <1>3, <2>1 DEF Registered
  <2>2. \A b \in Waits : wait[b].codes \subseteq Keys
    BY DEF Inv, TypeOK, WaitStates
  <2>3. \A k \in K : Contains(listeners'[k], w)
    BY <1>3, <1>4
  <2>. QED
    BY <1>1, <1>2, <2>1, <2>2, <2>3 DEF DeliverInv, ListInv
<1>7. ASSUME NEW b \in Waits, Registered(b)'
      PROVE  /\ Increasing(Delivered(b)')
             /\ Range(Delivered(b)')
                  = {n \in (wait'[b].start + 1)..seen' : Matches(b, n)'}
  <2>1. Unsent(b)' = Unsent(b)
    BY <1>2 DEF Unsent
  <2>2. CASE b = w
    <3>1. Unsent(b) = <<>>
      BY <1>1, <2>2, UnsentIs DEF OneRelays, DeliverInv, RelayInv
    <3>2. Delivered(b)' = <<>>
      BY <1>1, <2>1, <2>2, <3>1 DEF DeliverInv, ListInv, Delivered
    <3>3. (wait'[b].start + 1)..seen' = {}
      BY <1>1, <1>2, <2>2
    <3>4. Increasing(<<>>) /\ Range(<<>>) = {}
      BY DEF Increasing, Range
    <3>. QED
      BY <3>2, <3>3, <3>4
  <2>3. CASE b # w
    <3>1. wait'[b] = wait[b] /\ Delivered(b)' = Delivered(b)
      BY <1>1, <2>1, <2>3 DEF Delivered
    <3>2. Registered(b)
      BY <1>3, <1>7, <2>3 DEF Registered
    <3>3. \A n : Matches(b, n)' <=> Matches(b, n)
      BY <1>2, <3>1 DEF Matches
    <3>. QED
      BY <1>2, <3>1, <3>2, <3>3 DEF DeliverInv, InOrderDelivery
  <2>. QED
    BY <2>2, <2>3
<1>8. InOrderDelivery'
  BY <1>7 DEF InOrderDelivery, Increasing
<1>. QED
  BY <1>5, <1>6, <1>8

\* An event is read: every registered channel that asked for it is in line.
LEMMA ReadEventKept ==
  ASSUME Inv, Inv', DeliverInv, \A K \in WaitSets : Distinct(K), NEW p \in Procs,
         ReadEvent(p)
  PROVE  RelayInv' /\ ListInv' /\ InOrderDelivery'
<1>. DEFINE m == seen + 1
<1>1. /\ UNCHANGED <<log, listeners, wait>> /\ seen' = m /\ Head(inbox).n = m
      /\ m \in 1..Len(log) /\ log[m] \in Codes
  <2>1. /\ inbox # <<>> /\ Head(inbox).kind = "event" /\ inbox' = Tail(inbox)
        /\ UNCHANGED <<log, linkUp, listeners, wait>> /\ seen' = Head(inbox).n
    BY DEF ReadEvent, Received
  <2>2. Head(inbox).n = m /\ EventsInv'
    BY <2>1, EventsRead DEF DeliverInv
  <2>3. seen \in Nat /\ log \in Seq(Codes) /\ m <= Len(log)
    BY <2>1, <2>2 DEF Inv, TypeOK, EventsInv
  <2>. QED
    BY <2>1, <2>2, <2>3
<1>2. /\ relay'[p].n = m /\ relay'[p].to = Targets(log[m])
      /\ \A q \in Procs : q # p => relay'[q] = relay[q]
  BY <1>1 DEF ReadEvent, Inv, TypeOK
<1>3. \A q \in Procs : relay[q].to = <<>>
  BY DEF ReadEvent, Goto, Inv, LockInv, Holding
<1>4. \A w \in Waits : Distinct(wait[w].codes)
  BY DEF DeliverInv, ListInv, Distinct
<1>5. ASSUME NEW w \in Waits
      PROVE  /\ Once(relay'[p].to, w)
             /\ Contains(relay'[p].to, w) => wait[w].codes # {} /\ wait[w].chan # "new"
             /\ Registered(w) => (Contains(relay'[p].to, w) <=> Matches(w, m))
  <2>1. /\ Once(relay'[p].to, w)
        /\ Contains(relay'[p].to, w) <=>
             \/ Contains(listeners[log[m]], w)
             \/ log[m] \notin Recognized /\ Contains(listeners[Unrecognized], w)
    BY <1>1, <1>2, <1>4, TargetsOf
  <2>2. \A k \in Keys : Contains(listeners[k], w) => k \in wait[w].codes /\ wait[w].chan # "new"
    BY DEF Inv, MapInv, Owns, CallInv
  <2>3. log[m] \in Keys /\ Unrecognized \in Keys
    BY <1>1 DEF Keys
  <2>4. Registered(w) => \A k \in wait[w].codes : Contains(listeners[k], w)
    BY DEF DeliverInv, ListInv
  <2>. QED
    BY <2>1, <2>2, <2>3, <2>4 DEF Matches
<1>6. RelayInv'
  <2>1. \A w \in Waits : Once(<<>>, w) /\ ~Contains(<<>>, w)
    BY DEF Once, Contains
  <2>. QED
    BY <1>1, <1>2, <1>3, <1>5, <2>1 DEF RelayInv
<1>7. ListInv'
  <2>1. seen \in Nat /\ \A w \in Waits : wait[w].start \in Nat
    BY DEF Inv, TypeOK, WaitStates
  <2>. QED
    BY <1>1, <2>1 DEF DeliverInv, ListInv, Registered
<1>8. ASSUME NEW w \in Waits, Registered(w)'
      PROVE  /\ Increasing(Delivered(w)')
             /\ Range(Delivered(w)')
                  = {n \in (wait'[w].start + 1)..seen' : Matches(w, n)'}
  <2>. DEFINE got == wait[w].taken \o wait[w].buf
  <2>1. Registered(w) /\ (\A n : Matches(w, n)' <=> Matches(w, n))
    BY <1>1, <1>8 DEF Registered, Matches
  <2>2. Unsent(w) = <<>>
    BY <1>3, UnsentIs DEF OneRelays, Contains
  <2>3. wait[w].taken \in Seq(Nat) /\ wait[w].buf \in Seq(Nat) /\ got \in Seq(Nat)
        /\ seen \in Nat /\ wait[w].start \in Nat /\ wait[w].start <= seen
    <3>1. wait[w].taken \in Seq(Nat) /\ wait[w].buf \in Seq(Nat)
          /\ seen \in Nat /\ wait[w].start \in Nat
      BY DEF Inv, TypeOK, WaitStates
    <3>2. wait[w].start <= seen
      BY <2>1 DEF DeliverInv, ListInv
    <3>. QED
      BY <3>1, <3>2
  <2>. HIDE DEF got
  <2>4. Delivered(w) = got
    BY <2>2, <2>3, ConcatEmptySeq DEF Delivered, got
  <2>5. Increasing(got) /\ Range(got) = {n \in (wait[w].start + 1)..seen : Matches(w, n)}
    BY <2>1, <2>4 DEF DeliverInv, InOrderDelivery
  <2>6. Delivered(w)' = got \o Unsent(w)'
    BY <1>1 DEF Delivered, got
  <2>7. CASE Matches(w, m)
    <3>1. Unsent(w)' = <<m>>
      BY <1>2, <1>5, <2>1, <2>7, UnsentNext DEF OneRelays
    <3>2. \A x \in Range(got) : x < m
      BY <2>3, <2>5
    <3>3. Increasing(got \o <<m>>) /\ Range(got \o <<m>>) = Range(got) \cup {m}
      BY <2>3, <2>5, <3>2, AppendLast
    <3>4. {n \in (wait[w].start + 1)..m : Matches(w, n)} = Range(got) \cup {m}
      BY <2>3, <2>5, <2>7
    <3>. QED
      BY <1>1, <2>1, <2>6, <3>1, <3>3, <3>4
  <2>8. CASE ~Matches(w, m)
    <3>1. Unsent(w)' = <<>>
      <4>1. \A q \in Procs : ~Contains(relay'[q].to, w)
        BY <1>2, <1>3, <1>5, <2>1, <2>8 DEF Contains
      <4>. QED
        BY <4>1, UnsentNext DEF OneRelays
    <3>2. Delivered(w)' = got
      BY <2>3, <2>6, <3>1, ConcatEmptySeq
    <3>3. {n \in (wait[w].start + 1)..m : Matches(w, n)} = Range(got)
      BY <2>3, <2>5, <2>8
    <3>. QED
      BY <1>1, <2>1, <2>5, <3>2, <3>3
  <2>. QED
    BY <2>7, <2>8
<1>9. InOrderDelivery'
  BY <1>8 DEF InOrderDelivery, Increasing
<1>. QED
  BY <1>6, <1>7, <1>9

LEMMA TailOnce ==
  ASSUME NEW S, NEW q \in Seq(S), q # <<>>, NEW x
  PROVE  /\ Once(q, x) => Once(Tail(q), x)
         /\ Once(q, x) /\ x = Head(q) => ~Contains(Tail(q), x)
         /\ x # Head(q) => (Contains(Tail(q), x) <=> Contains(q, x))
         /\ Contains(Tail(q), x) => Contains(q, x)
<1>1. /\ Len(q) \in Nat \ {0} /\ Len(Tail(q)) = Len(q) - 1 /\ Head(q) = q[1]
      /\ \A i \in 1..(Len(q) - 1) : Tail(q)[i] = q[i + 1]
  OBVIOUS
<1>2. \A i \in 1..Len(Tail(q)) : i + 1 \in 1..Len(q) /\ i + 1 # 1 /\ Tail(q)[i] = q[i + 1]
  BY <1>1
<1>3. \A j \in 1..Len(q) : j # 1 => j - 1 \in 1..Len(Tail(q)) /\ Tail(q)[j - 1] = q[j]
  BY <1>1
<1>4. 1 \in 1..Len(q)
  BY <1>1
<1>5. Once(q, x) => Once(Tail(q), x)
  <2>. SUFFICES ASSUME Once(q, x), NEW i \in 1..Len(Tail(q)), NEW j \in 1..Len(Tail(q)),
                       Tail(q)[i] = x, Tail(q)[j] = x
                PROVE  i = j
    BY DEF Once
  <2>1. i + 1 = j + 1
    BY <1>2 DEF Once
  <2>. QED
    BY <2>1
<1>6. Contains(Tail(q), x) => Contains(q, x)
  BY <1>2 DEF Contains
<1>7. x # Head(q) /\ Contains(q, x) => Contains(Tail(q), x)
  BY <1>1, <1>3 DEF Contains
<1>8. Once(q, x) /\ x = Head(q) => ~Contains(Tail(q), x)
  BY <1>1, <1>2, <1>4 DEF Once, Contains
<1>. QED
  BY <1>5, <1>6, <1>7, <1>8

LEMMA NothingIn == \A x : ~Contains(<<>>, x)
  BY DEF Contains

\* The event goes from the reader into the channel.
LEMMA SendKept ==
  ASSUME Inv, Inv', DeliverInv, NEW p \in Procs, Send(p)
  PROVE  RelayInv' /\ ListInv' /\ InOrderDelivery'
<1>0. relay[p].to \in Seq(Waits) /\ relay[p].to # <<>> /\ relay[p].n \in Nat
  BY DEF Send, Inv, TypeOK
<1>. PICK v \in Waits : v = Head(relay[p].to)
  BY <1>0
<1>1. v = Head(relay[p].to)
  OBVIOUS
<1>2. /\ UNCHANGED <<seen, log, listeners>> /\ wait[v].chan = "open"
      /\ relay' = [relay EXCEPT ![p].to = Tail(@)]
      /\ wait' = [wait EXCEPT ![v].buf = Append(@, relay[p].n)]
  BY <1>1 DEF Send, tor, history
<1>3. /\ relay'[p].to = Tail(relay[p].to) /\ relay'[p].n = relay[p].n
      /\ \A q \in Procs : q # p => relay'[q] = relay[q]
  BY <1>2 DEF Inv, TypeOK
<1>4. /\ wait'[v].buf = Append(wait[v].buf, relay[p].n)
      /\ \A w \in Waits : w # v => wait'[w] = wait[w]
      /\ \A w \in Waits : /\ wait'[w].chan = wait[w].chan /\ wait'[w].codes = wait[w].codes
                          /\ wait'[w].start = wait[w].start /\ wait'[w].taken = wait[w].taken
  BY <1>1, <1>2 DEF Inv, TypeOK, WaitStates
<1>5. \A w \in Waits : Once(relay[p].to, w)
  BY DEF DeliverInv, RelayInv
<1>6. Contains(relay[p].to, v)
  <2>1. 1 \in 1..Len(relay[p].to) /\ relay[p].to[1] = v
    BY <1>0, <1>1
  <2>. QED
    BY <2>1 DEF Contains
<1>7. /\ \A w \in Waits :
           /\ Once(relay'[p].to, w)
           /\ Contains(relay'[p].to, w) => Contains(relay[p].to, w)
           /\ w # v => (Contains(relay'[p].to, w) <=> Contains(relay[p].to, w))
      /\ ~Contains(relay'[p].to, v)
  BY <1>0, <1>1, <1>3, <1>5, TailOnce
<1>8. RelayInv'
  <2>1. ASSUME NEW q \in Procs, NEW w \in Waits
        PROVE  Once(relay'[q].to, w) /\ (Contains(relay'[q].to, w) => Contains(relay[q].to, w))
    <3>1. CASE q = p
      BY <1>7, <3>1
    <3>2. CASE q # p
      BY <1>3, <3>2 DEF DeliverInv, RelayInv
    <3>. QED
      BY <3>1, <3>2
  <2>2. \A q \in Procs, w \in Waits : Contains(relay[q].to, w) => wait[w].chan # "new"
    BY DEF DeliverInv, RelayInv
  <2>. QED
    BY <1>4, <2>1, <2>2 DEF RelayInv
<1>9. ListInv'
  BY <1>2, <1>4 DEF DeliverInv, ListInv, Registered
<1>10. ASSUME NEW w \in Waits PROVE Delivered(w)' = Delivered(w)
  <2>1. CASE w = v
    <3>1. Unsent(v) = <<relay[p].n>>
      BY <1>6, UnsentIs DEF OneRelays
    <3>2. \A q \in Procs : q # p => relay[q].to = <<>>
      BY <1>0 DEF Inv, LockInv, Holding
    <3>3. Unsent(v)' = <<>>
      <4>1. \A q \in Procs : ~Contains(relay'[q].to, v)
        <5>1. ASSUME NEW q \in Procs PROVE ~Contains(relay'[q].to, v)
          <6>1. CASE q = p
            BY <1>7, <6>1
          <6>2. CASE q # p
            BY <1>3, <3>2, <6>2, NothingIn
          <6>. QED
            BY <6>1, <6>2
        <5>. QED
          BY <5>1
      <4>. QED
        BY <4>1, UnsentNext DEF OneRelays
    <3>4. wait[v].taken \in Seq(Nat) /\ wait[v].buf \in Seq(Nat)
      BY DEF Inv, TypeOK, WaitStates
    <3>5. wait[v].taken \o Append(wait[v].buf, relay[p].n) \o <<>>
            = wait[v].taken \o wait[v].buf \o <<relay[p].n>>
      BY <1>0, <3>4, MovedIn
    <3>6. Delivered(v)' = Delivered(v)
      BY <1>4, <3>1, <3>3, <3>5 DEF Delivered
    <3>. QED
      BY <2>1, <3>6
  <2>2. CASE w # v
    <3>1. \A q \in Procs : Contains(relay'[q].to, w) <=> Contains(relay[q].to, w)
      <4>1. ASSUME NEW q \in Procs
            PROVE  Contains(relay'[q].to, w) <=> Contains(relay[q].to, w)
        <5>1. CASE q = p
          BY <1>7, <2>2, <5>1
        <5>2. CASE q # p
          BY <1>3, <5>2
        <5>. QED
          BY <5>1, <5>2
      <4>. QED
        BY <4>1
    <3>2. \A q \in Procs : relay'[q].n = relay[q].n
      BY <1>3
    <3>3. Unsent(w)' = Unsent(w)
      BY <3>1, <3>2 DEF Unsent
    <3>. QED
      BY <1>4, <2>2, <3>3 DEF Delivered
  <2>. QED
    BY <2>1, <2>2
<1>11. InOrderDelivery'
  BY <1>2, <1>4, <1>10 DEF DeliverInv, InOrderDelivery, Registered, Matches, Increasing
<1>. QED
  BY <1>8, <1>9, <1>11

\* The event goes from the channel to the predicate.
LEMMA SelectEventKept ==
  ASSUME Inv, Inv', DeliverInv, NEW p \in Callers, SelectEvent(p)
  PROVE  RelayInv' /\ ListInv' /\ InOrderDelivery'
<1>. PICK v \in Waits : v = call[p].on /\ wait[v].chan = "open"
  BY DEF SelectEvent, Inv, CallInv
<1>1. UNCHANGED <<seen, log, listeners, relay>> /\ wait[v].buf # <<>>
  BY DEF SelectEvent, tor, history
<1>2. /\ wait'[v].buf = Tail(wait[v].buf)
      /\ wait'[v].taken = Append(wait[v].taken, Head(wait[v].buf))
      /\ \A w \in Waits : w # v => wait'[w] = wait[w]
      /\ \A w \in Waits : /\ wait'[w].chan = wait[w].chan /\ wait'[w].codes = wait[w].codes
                          /\ wait'[w].start = wait[w].start
  <2>1. PICK d : wait' = [wait EXCEPT ![v] =
                            [wait[v] EXCEPT !.buf = Tail(wait[v].buf), !.done = d,
                                            !.taken = Append(wait[v].taken, Head(wait[v].buf))]]
    BY Zenon DEF SelectEvent
  <2>. QED
    BY <2>1 DEF Inv, TypeOK, WaitStates
<1>3. RelayInv'
  BY <1>1, <1>2 DEF DeliverInv, RelayInv
<1>4. ListInv'
  BY <1>1, <1>2 DEF DeliverInv, ListInv, Registered
<1>5. ASSUME NEW w \in Waits PROVE Delivered(w)' = Delivered(w)
  <2>1. Unsent(w)' = Unsent(w)
    BY <1>1 DEF Unsent
  <2>2. CASE w = v
    <3>1. wait[v].taken \in Seq(Nat) /\ wait[v].buf \in Seq(Nat)
      BY DEF Inv, TypeOK, WaitStates
    <3>2. Unsent(v) \in Seq(Nat)
      <4>1. \A q \in Procs : relay[q].n \in Nat
        BY DEF Inv, TypeOK
      <4>2. CASE \E q \in Procs : Contains(relay[q].to, v)
        <5>1. PICK q \in Procs : Contains(relay[q].to, v)
          BY <4>2
        <5>2. Unsent(v) = <<relay[q].n>>
          BY <5>1, UnsentIs DEF OneRelays
        <5>. QED
          BY <4>1, <5>2
      <4>3. CASE \A q \in Procs : ~Contains(relay[q].to, v)
        <5>1. Unsent(v) = <<>>
          BY <4>3, UnsentIs DEF OneRelays
        <5>. QED
          BY <5>1
      <4>. QED
        BY <4>2, <4>3
    <3>3. Append(wait[v].taken, Head(wait[v].buf)) \o Tail(wait[v].buf) \o Unsent(v)
            = wait[v].taken \o wait[v].buf \o Unsent(v)
      BY <1>1, <3>1, MovedOut
    <3>4. Delivered(v)' = Delivered(v)
      BY <1>2, <2>1, <2>2, <3>3 DEF Delivered
    <3>. QED
      BY <2>2, <3>4
  <2>3. CASE w # v
    BY <1>2, <2>1, <2>3 DEF Delivered
  <2>. QED
    BY <2>2, <2>3
<1>6. InOrderDelivery'
  BY <1>1, <1>2, <1>5 DEF DeliverInv, InOrderDelivery, Registered, Matches, Increasing
<1>. QED
  BY <1>3, <1>4, <1>6

----------------------------------------------------------------------------
(* The theorem                                                              *)

LEMMA DeliverInit ==
  ASSUME Init
  PROVE  DeliverInv
<1>1. EventsInv
  <2>. DEFINE none == [i \in 0..0 |-> 0]
  <2>1. none \in [0..0 -> Nat] /\ none[0] = 0 /\ Len(inbox) = 0 /\ Len(log) = 0 /\ seen = 0
    BY DEF Init
  <2>. HIDE DEF none
  <2>2. Numbered(inbox, seen, none) /\ none[Len(inbox)] = Len(log)
    BY <2>1 DEF Numbered
  <2>. QED
    BY <2>1, <2>2 DEF EventsInv
<1>2. \A w \in Waits : ~Registered(w)
  BY DEF Init, Registered, Contains
<1>3. RelayInv
  BY DEF Init, RelayInv, Once, Contains
<1>4. ListInv
  BY <1>2 DEF Init, ListInv, NewWait
<1>. QED
  BY <1>1, <1>2, <1>3, <1>4 DEF DeliverInv, InOrderDelivery

LEMMA DeliverStep ==
  ASSUME Inv, DeliverInv, \A K \in WaitSets : Distinct(K), [Next]_vars
  PROVE  DeliverInv'
<1>0. Inv' /\ EventsInv'
  BY InvStep, EventsStep DEF DeliverInv
<1>. DEFINE Rest == RelayInv' /\ ListInv' /\ InOrderDelivery'
<1>1. ASSUME Still PROVE Rest
  BY <1>0, <1>1, StillKept
<1>. HIDE DEF Rest
<1>. USE DEF pipe, tor, history
<1>2. ASSUME NEW p \in Callers,
             (\E op \in {"request", "quit"} : Request(p, op)) \/ SendRequest(p)
               \/ LockForResponse(p) \/ ReturnRequest(p) \/ Close(p) \/ StartHandler(p)
               \/ ReturnRemove(p) \/ ComposeSetEvents(p)
      PROVE  Rest
  <2>1. UNCHANGED <<seen, listeners, wait, relay, log>>
    BY <1>2 DEF Request, SendRequest, Cmd, CmdFails, StartResponse, ReadReply, ReadFails,
       FinishResponse, LockForResponse, Lock, ReturnRequest, Close, LoseLink, StartHandler,
       ReturnRemove, ComposeSetEvents
  <2>. QED
    BY <1>1, <2>1, StillSame
<1>3. ASSUME NEW p \in Callers, NEW w \in Waits, NEW K \in WaitSets, EventWait(p, w, K)
      PROVE  Rest
  BY <1>0, <1>3, EventWaitKept DEF Rest
<1>4. ASSUME NEW p \in Callers, RollBack(p) \/ RemoveEventListener(p)
      PROVE  Rest
  <2>1. call[p].on \in Waits /\ listeners' = WithoutListener(call[p].on, wait[call[p].on].codes)
        /\ UNCHANGED <<seen, log, relay, wait>>
    BY <1>4 DEF RollBack, RemoveEventListener, Returned, Goto, Inv, CallInv
  <2>. QED
    BY <1>1, <2>1, StillRemoved
<1>5. ASSUME NEW p \in Callers, SelectEvent(p)
      PROVE  Rest
  BY <1>0, <1>5, SelectEventKept DEF Rest
<1>6. ASSUME NEW p \in Callers, SelectEnd(p)
      PROVE  Rest
  <2>1. call[p].on \in Waits /\ wait[call[p].on].chan # "new"
        /\ wait' = [wait EXCEPT ![call[p].on].done = TRUE]
        /\ UNCHANGED <<seen, listeners, log, relay>>
    BY <1>6 DEF SelectEnd, Goto, Inv, CallInv
  <2>. QED
    BY <1>1, <2>1, StillFlag
<1>7. ASSUME NEW p \in Callers, CloseChan(p)
      PROVE  Rest
  BY <1>1, <1>7, StillClosed
<1>8. ASSUME NEW p \in Procs, ReadEvent(p)
      PROVE  Rest
  BY <1>0, <1>8, ReadEventKept DEF Rest
<1>9. ASSUME NEW p \in Procs, Send(p)
      PROVE  Rest
  BY <1>0, <1>9, SendKept DEF Rest
<1>10. ASSUME NEW p \in Procs, SendPanics(p) \/ EndRelay(p)
       PROVE  Rest
  BY <1>1, <1>10, StillSame, StillEndRelay DEF SendPanics
<1>11. ASSUME NEW w \in Waits, HandleEvents(w) \/ PeekReply(w) \/ LockForEvent(w)
       PROVE  Rest
  BY <1>1, <1>11, StillSame DEF HandleEvents, PeekReply, LockForEvent, Lock, Unlock
<1>12. ASSUME NEW w \in Waits, PeekFails(w) \/ CtxDone(w)
       PROVE  Rest
  <2>1. wait[w].chan # "new"
    BY <1>12 DEF PeekFails, CtxDone, Goto, Inv, CallInv
  <2>2. /\ wait' = [wait EXCEPT ![w].done = TRUE] \/ wait' = [wait EXCEPT ![w].err = TRUE]
        /\ UNCHANGED <<seen, listeners, log, relay>>
    BY <1>12 DEF PeekFails, CtxDone
  <2>. QED
    BY <1>1, <2>1, <2>2, StillFlag
<1>13. ASSUME Tor \/ (\E code \in Codes : Emit(code)) \/ TorExits
       PROVE  Rest
  <2>1. UNCHANGED <<seen, listeners, wait, relay>>
        /\ (log' = log \/ \E code \in Codes : log' = Append(log, code))
    BY <1>13 DEF Tor, AnswerRequest, AnswerSetEvents, AnswerQuit, Answer, TorRuns, Emit,
       TorExits, LoseLink
  <2>. QED
    BY <1>1, <2>1, StillSame
<1>14. ASSUME UNCHANGED vars PROVE Rest
  BY <1>1, <1>14, StillSame DEF vars
<1>15. ASSUME NEW p \in Callers, Return(p) PROVE Rest
  BY <1>2, <1>4, <1>15 DEF Return
<1>16. ASSUME NEW p \in Callers, Wait(p) PROVE Rest
  BY <1>2, <1>4, <1>5, <1>6, <1>7, <1>16 DEF Wait
<1>17. ASSUME NEW p \in Callers, Call(p) PROVE Rest
  BY <1>2, <1>3, <1>17 DEF Call
<1>18. ASSUME NEW p \in Procs, Relay(p) PROVE Rest
  BY <1>8, <1>9, <1>10, <1>18 DEF Relay
<1>19. ASSUME NEW w \in Waits, Handler(w) PROVE Rest
  BY <1>11, <1>12, <1>19 DEF Handler
<1>20. Rest
  BY <1>2, <1>11, <1>12, <1>13, <1>14, <1>15, <1>16, <1>17, <1>18, <1>19
  DEF Next, Quiescent
<1>21. RelayInv' /\ ListInv' /\ InOrderDelivery'
  BY <1>20 DEF Rest
<1>. QED
  BY <1>0, <1>21 DEF DeliverInv

\* Every channel gets the events it is registered for, once and in Tor's order,
\* whoever reads them (conn.go:73, cmd_event.go:288-305), when nobody asks for
\* EventCodeUnrecognized together with an unrecognized event.
THEOREM DeliveredInOrder ==
  ASSUME \A K \in WaitSets : Distinct(K)
  PROVE  Spec => []InOrderDelivery
<1>1. Init => DeliverInv
  BY DeliverInit
<1>2. Inv /\ DeliverInv /\ [Next]_vars => DeliverInv'
  BY DeliverStep
<1>3. DeliverInv => InOrderDelivery
  BY DEF DeliverInv
<1>. QED
  BY <1>1, <1>2, <1>3, InvHolds, PTL DEF Spec
=============================================================================
