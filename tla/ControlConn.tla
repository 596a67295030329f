---------------------------- MODULE ControlConn ----------------------------
(***************************************************************************)
(* The control connection of package control: conn.go and the event half   *)
(* of cmd_event.go.  Goroutines share one textproto connection to Tor.     *)
(*                                                                         *)
(*   callers  issue SendRequest, EventWait and Conn.Close;                 *)
(*   waits    are the EventWait calls of a behaviour: w names the channel  *)
(*            the call makes and the HandleEvents goroutine it starts.     *)
(*                                                                         *)
(* A command is written and numbered by textproto.Cmd; its reply is read   *)
(* by the goroutine that holds readLock and whose number is next in the    *)
(* response sequence.  Events share the stream with the replies: whoever   *)
(* reads one relays it to the channels registered for its code, while it   *)
(* still holds readLock.  Tor, the socket and textproto are external.      *)
(***************************************************************************)
EXTENDS Integers, Sequences, SequencesExt

CONSTANTS
  Callers,        \* goroutines of the user that issue calls
  Waits,          \* bound: the EventWait calls of a behaviour
  Codes,          \* event codes Tor may emit
  Unrecognized,   \* EventCodeUnrecognized, a key of the listener map only
  Recognized,     \* the codes of recognizedEventCodes
  TorKnows,       \* keys Tor accepts in SETEVENTS
  WaitSets,       \* the event lists EventWait is called with
  ChanCap,        \* capacity of EventWait's channel (10 in the code)
  MaxIds,         \* bound: no call starts once this many commands were sent
  MaxEvents,      \* bound: events Tor emits
  NoProc          \* "nobody": readLock free, no EventWait in progress

Keys == Codes \cup {Unrecognized}
Procs == Callers \cup Waits

ASSUME ProcAssumption == Callers \cap Waits = {} /\ NoProc \notin Procs
ASSUME CodeAssumption ==
  /\ Unrecognized \notin Codes
  /\ Recognized \subseteq Codes /\ TorKnows \subseteq Codes
  /\ WaitSets \subseteq SUBSET Keys
ASSUME BoundAssumption ==
  ChanCap \in Nat \ {0} /\ MaxIds \in Nat /\ MaxEvents \in Nat

VARIABLES
  \* Conn and the textproto pipeline
  nextId,       \* number of the next command
  respTurn,     \* number whose response may be read next
  readLock,     \* holder of Conn.readLock
  broken,       \* the buffered writer has failed; the failure is sticky
  \* the socket and Tor
  linkUp, wire, inbox, subs,
  log,          \* codes of the events emitted so far
  listeners,    \* Conn.eventListeners
  \* the goroutines
  pc,
  call,         \* what each caller does: command, number, SETEVENTS keys, reply
  relay,        \* the event a goroutine relays and the channels left to send to
  wait,         \* each EventWait: channel, events asked for, context, handler
  crashed,      \* channels whose closing made a send panic
  \* history
  seen,         \* number of the last event read
  unbarriered   \* channels given up without holding readLock since unmapping

pipe == <<nextId, respTurn, readLock, broken>>
tor == <<linkUp, wire, inbox, subs, log>>
history == <<seen, unbarriered>>
vars == <<pipe, tor, listeners, pc, call, relay, wait, crashed, history>>

----------------------------------------------------------------------------
(* Types and initial states *)

Ops == {"none", "request", "quit", "add", "remove"}
CallerPcs == {"idle", "compose", "cmd", "lock", "turn", "read", "relay",
              "return", "select", "unmap", "close"}
HandlerPcs == {"off", "loop", "lock", "peek", "relay", "done"}
Pcs == CallerPcs \cup HandlerPcs
Statuses == {"none", "ok", "refused", "error"}

Commands == [id : Nat, op : Ops, arg : SUBSET Keys]
Messages == [kind : {"event", "reply"}, n : Nat, status : Statuses]
Event(n) == [kind |-> "event", n |-> n, status |-> "ok"]
Reply(n, status) == [kind |-> "reply", n |-> n, status |-> status]

Calls == [op : Ops, id : Nat, arg : SUBSET Keys, reply : Statuses,
          on : Waits \cup {NoProc}]
NoCall == [op |-> "none", id |-> 0, arg |-> {}, reply |-> "none", on |-> NoProc]

\* start is history: the value of seen when the channel was registered; taken
\* is what the predicate was called with.
WaitStates == [chan : {"new", "open", "closed"}, buf : Seq(Nat),
               codes : SUBSET Keys, done : BOOLEAN, err : BOOLEAN,
               start : Nat, taken : Seq(Nat)]
NewWait == [chan |-> "new", buf |-> <<>>, codes |-> {}, done |-> FALSE,
            err |-> FALSE, start |-> 0, taken |-> <<>>]

TypeOK ==
  /\ nextId \in Nat /\ respTurn \in Nat
  /\ readLock \in Procs \cup {NoProc}
  /\ broken \in BOOLEAN /\ linkUp \in BOOLEAN
  /\ wire \in Seq(Commands) /\ inbox \in Seq(Messages)
  /\ subs \in SUBSET Codes /\ log \in Seq(Codes)
  /\ listeners \in [Keys -> Seq(Waits)]
  /\ pc \in [Procs -> Pcs]
  /\ call \in [Callers -> Calls]
  /\ relay \in [Procs -> [n : Nat, to : Seq(Waits)]]
  /\ wait \in [Waits -> WaitStates]
  /\ crashed \in SUBSET Waits
  /\ seen \in Nat /\ unbarriered \in SUBSET Waits

Init ==
  /\ nextId = 0 /\ respTurn = 0 /\ readLock = NoProc /\ broken = FALSE
  /\ linkUp = TRUE /\ wire = <<>> /\ inbox = <<>> /\ subs = {} /\ log = <<>>
  /\ listeners = [k \in Keys |-> <<>>]
  /\ pc = [p \in Procs |-> IF p \in Callers THEN "idle" ELSE "off"]
  /\ call = [p \in Callers |-> NoCall]
  /\ relay = [p \in Procs |-> [n |-> 0, to |-> <<>>]]
  /\ wait = [w \in Waits |-> NewWait]
  /\ crashed = {}
  /\ seen = 0 /\ unbarriered = {}

\* A panic in one goroutine ends the program.
Running == crashed = {}

Goto(p, from, to) ==
  /\ Running
  /\ pc[p] = from
  /\ pc' = [pc EXCEPT ![p] = to]

----------------------------------------------------------------------------
(* The listener map *)

\* addEventListenerToMap: ch goes to the end of the list of each event.
WithListener(w, K) ==
  [k \in Keys |-> IF k \in K THEN Append(listeners[k], w) ELSE listeners[k]]

\* Mutant of WithoutListener: the new list is as long as the old one, so that
\* a nil channel ends it.
WithoutListenerLong(w, K) ==
  [k \in Keys |->
     IF k \in K /\ Contains(listeners[k], w) /\ Len(listeners[k]) > 1
     THEN Append(RemoveFirst(listeners[k], w), NoProc)
     ELSE IF k \in K THEN RemoveFirst(listeners[k], w) ELSE listeners[k]]

\* removeEventListenerFromMap: the first occurrence of ch, if any, is removed.
WithoutListener(w, K) ==
  [k \in Keys |-> IF k \in K THEN RemoveFirst(listeners[k], w)
                             ELSE listeners[k]]

\* The keys of the map, which holds no empty list.
MapKeys == {k \in Keys : listeners[k] # <<>>}

\* The channels an event goes to, in the order of the sends.
Targets(code) ==
  listeners[code] \o (IF code \in Recognized THEN <<>>
                                            ELSE listeners[Unrecognized])

----------------------------------------------------------------------------
(* Calls *)

\* Any command but SETEVENTS is a bare SendRequest; Conn.Close begins with QUIT.
Request(p, op) ==
  /\ Goto(p, "idle", "cmd")
  /\ nextId < MaxIds
  /\ call' = [call EXCEPT ![p].op = op]
  /\ UNCHANGED <<pipe, tor, listeners, relay, wait, crashed, history>>

\* EventWait up to the end of addEventListenerToMap in AddEventListener.
EventWait(p, w, K) ==
  /\ Goto(p, "idle", "compose")
  /\ nextId < MaxIds
  /\ wait[w].chan = "new"
  /\ wait' = [wait EXCEPT ![w] = [@ EXCEPT !.chan = "open", !.codes = K,
                                          !.start = seen]]
  /\ call' = [call EXCEPT ![p] = [@ EXCEPT !.op = "add", !.on = w]]
  /\ listeners' = WithListener(w, K)
  /\ UNCHANGED <<pipe, tor, relay, crashed, history>>

\* sendSetEvents composes the command under the read lock of the map.
ComposeSetEvents(p) ==
  /\ Goto(p, "compose", "cmd")
  /\ call' = [call EXCEPT ![p].arg = MapKeys]
  /\ UNCHANGED <<pipe, tor, listeners, relay, wait, crashed, history>>

----------------------------------------------------------------------------
(* SendRequest *)

\* textproto.Cmd numbers and writes the command; writes are in number order.
\* A write may still succeed when the peer has gone.
Cmd(p) ==
  /\ Goto(p, "cmd", "lock")
  /\ ~broken
  /\ nextId' = nextId + 1
  /\ wire' = Append(wire, [id |-> nextId, op |-> call[p].op,
                           arg |-> call[p].arg])
  /\ call' = [call EXCEPT ![p] = [@ EXCEPT !.id = nextId, !.arg = {}]]
  /\ UNCHANGED <<respTurn, readLock, broken, linkUp, inbox, subs, log,
                 listeners, relay, wait, crashed, history>>

\* A failed write uses up a number and returns before readLock is taken.
CmdFails(p) ==
  /\ Goto(p, "cmd", "return")
  /\ broken \/ ~linkUp
  /\ broken' = TRUE
  /\ nextId' = nextId + 1
  /\ call' = [call EXCEPT ![p] = [@ EXCEPT !.reply = "error", !.arg = {}]]
  /\ unbarriered' = IF call[p].op = "remove" THEN unbarriered \cup {call[p].on}
                                             ELSE unbarriered
  /\ UNCHANGED <<respTurn, readLock, tor, listeners, relay, wait, crashed,
                 seen>>

Lock(p) ==
  /\ readLock = NoProc
  /\ readLock' = p
  /\ UNCHANGED <<nextId, respTurn, broken>>

Unlock ==
  /\ readLock' = NoProc
  /\ UNCHANGED <<nextId, respTurn, broken>>

LockForResponse(p) ==
  /\ Goto(p, "lock", "turn")
  /\ Lock(p)
  /\ UNCHANGED <<tor, listeners, call, relay, wait, crashed, history>>

\* Mutant of StartResponse: the reader does not wait for its number.
StartResponseAtOnce(p) ==
  /\ Goto(p, "turn", "read")
  /\ UNCHANGED <<pipe, tor, listeners, call, relay, wait, crashed, history>>

\* StartResponse waits, holding readLock, for the response sequencer.
StartResponse(p) ==
  /\ Goto(p, "turn", "read")
  /\ call[p].id = respTurn
  /\ UNCHANGED <<pipe, tor, listeners, call, relay, wait, crashed, history>>

\* The deferred EndResponse and Unlock, in this order.
FinishResponse(p, status) ==
  /\ Goto(p, "read", "return")
  /\ call' = [call EXCEPT ![p] = [@ EXCEPT !.reply = status, !.id = 0]]
  /\ respTurn' = respTurn + 1
  /\ readLock' = NoProc
  /\ UNCHANGED <<nextId, broken, listeners, relay, wait, crashed, history>>

\* The next message has been received: it is of this kind.
Received(kind) == inbox # <<>> /\ Head(inbox).kind = kind

Disconnected == inbox = <<>> /\ ~linkUp

ReadReply(p) ==
  /\ Received("reply")
  /\ inbox' = Tail(inbox)
  /\ FinishResponse(p, Head(inbox).status)
  /\ UNCHANGED <<linkUp, wire, subs, log>>

ReadFails(p) ==
  /\ Disconnected
  /\ FinishResponse(p, "error")
  /\ UNCHANGED tor

----------------------------------------------------------------------------
(* relayAsyncEvents, called with readLock held by SendRequest's loop and by *)
(* HandleNextEvent                                                          *)

\* The event is read and the channels registered for it are looked up.
ReadEvent(p) ==
  /\ pc[p] \in {"read", "peek"} /\ Goto(p, pc[p], "relay")
  /\ Received("event")
  /\ inbox' = Tail(inbox)
  /\ seen' = Head(inbox).n
  /\ relay' = [relay EXCEPT ![p] = [n |-> Head(inbox).n,
                                    to |-> Targets(log[Head(inbox).n])]]
  /\ UNCHANGED <<pipe, linkUp, wire, subs, log, listeners, call, wait, crashed,
                 unbarriered>>

\* Mutant of Send: an event that does not fit is dropped.
SendOrDrop(p) ==
  /\ Goto(p, "relay", "relay")
  /\ relay[p].to # <<>> /\ wait[Head(relay[p].to)].chan = "open"
  /\ wait' = [wait EXCEPT ![Head(relay[p].to)].buf =
                 IF Len(@) < ChanCap THEN Append(@, relay[p].n) ELSE @]
  /\ relay' = [relay EXCEPT ![p].to = Tail(@)]
  /\ UNCHANGED <<pipe, tor, listeners, call, crashed, history>>

\* One blocking send per channel, at the head of what is left to send.
Send(p) ==
  /\ Goto(p, "relay", "relay")
  /\ relay[p].to # <<>>
  /\ LET w == Head(relay[p].to) IN
       /\ wait[w].chan = "open" /\ Len(wait[w].buf) < ChanCap
       /\ wait' = [wait EXCEPT ![w].buf = Append(@, relay[p].n)]
  /\ relay' = [relay EXCEPT ![p].to = Tail(@)]
  /\ UNCHANGED <<pipe, tor, listeners, call, crashed, history>>

\* Sending on a closed channel panics.
SendPanics(p) ==
  /\ Goto(p, "relay", "relay")
  /\ relay[p].to # <<>> /\ wait[Head(relay[p].to)].chan = "closed"
  /\ crashed' = crashed \cup {Head(relay[p].to)}
  /\ UNCHANGED <<pipe, tor, listeners, call, relay, wait, history>>

\* Mutant of EndRelay: HandleNextEvent returns without unlocking.
EndRelayLocked(p) ==
  /\ relay[p].to = <<>>
  /\ Goto(p, "relay", IF p \in Callers THEN "read" ELSE "loop")
  /\ relay' = [relay EXCEPT ![p].n = 0]
  /\ UNCHANGED <<pipe, tor, listeners, call, wait, crashed, history>>

\* SendRequest goes on reading; HandleNextEvent returns and unlocks.
EndRelay(p) ==
  /\ relay[p].to = <<>>
  /\ \/ p \in Callers /\ Goto(p, "relay", "read") /\ UNCHANGED pipe
     \/ p \in Waits /\ Goto(p, "relay", "loop") /\ Unlock
  /\ relay' = [relay EXCEPT ![p].n = 0]
  /\ UNCHANGED <<tor, listeners, call, wait, crashed, history>>

----------------------------------------------------------------------------
(* HandleEvents: the goroutine that loops on HandleNextEvent *)

HandleEvents(w) ==
  /\ Goto(w, "loop", IF wait[w].done THEN "done" ELSE "lock")
  /\ UNCHANGED <<pipe, tor, listeners, call, relay, wait, crashed, history>>

LockForEvent(w) ==
  /\ Goto(w, "lock", "peek")
  /\ Lock(w)
  /\ UNCHANGED <<tor, listeners, call, relay, wait, crashed, history>>

\* Mutant of PeekReply: the handler keeps the lock until it sees an event.
PeekReplyWaits(w) ==
  /\ Goto(w, "peek", "peek")
  /\ Received("reply")
  /\ UNCHANGED <<pipe, tor, listeners, call, relay, wait, crashed, history>>

\* Peek sees a synchronous reply: it is left for its reader.
PeekReply(w) ==
  /\ Goto(w, "peek", "loop")
  /\ Received("reply")
  /\ Unlock
  /\ UNCHANGED <<tor, listeners, call, relay, wait, crashed, history>>

PeekFails(w) ==
  /\ Goto(w, "peek", "done")
  /\ Disconnected
  /\ Unlock
  /\ wait' = [wait EXCEPT ![w].err = TRUE]
  /\ UNCHANGED <<tor, listeners, call, relay, crashed, history>>

----------------------------------------------------------------------------
(* What the calls do once SendRequest returns *)

Returned(p, op) == pc[p] = "return" /\ call[p].op = op

ReturnRequest(p) ==
  /\ Returned(p, "request") /\ Goto(p, "return", "idle")
  /\ call' = [call EXCEPT ![p] = NoCall]
  /\ UNCHANGED <<pipe, tor, listeners, relay, wait, crashed, history>>

\* What was received stays readable as far as it is buffered.
LoseLink ==
  /\ linkUp' = FALSE
  /\ \E n \in 0..Len(inbox) : inbox' = SubSeq(inbox, 1, n)
  /\ UNCHANGED <<wire, subs, log>>

\* Conn.Close closes the socket whatever QUIT returned.
Close(p) ==
  /\ Returned(p, "quit") /\ Goto(p, "return", "idle")
  /\ LoseLink
  /\ broken' = TRUE
  /\ call' = [call EXCEPT ![p] = NoCall]
  /\ UNCHANGED <<nextId, respTurn, readLock, listeners, relay, wait, crashed,
                 history>>

\* Mutant of StartHandler: EventWait selects without a handler.
SelectOnly(p) ==
  /\ Returned(p, "add") /\ call[p].reply = "ok"
  /\ Goto(p, "return", "select")
  /\ call' = [call EXCEPT ![p].reply = "none"]
  /\ UNCHANGED <<pipe, tor, listeners, relay, wait, crashed, history>>

\* AddEventListener succeeded: EventWait starts its handler and selects.
StartHandler(p) ==
  /\ Running
  /\ Returned(p, "add") /\ call[p].reply = "ok"
  /\ pc' = [pc EXCEPT ![p] = "select", ![call[p].on] = "loop"]
  /\ call' = [call EXCEPT ![p].reply = "none"]
  /\ UNCHANGED <<pipe, tor, listeners, relay, wait, crashed, history>>

\* AddEventListener failed: the map is rolled back, Tor is not told.
RollBack(p) ==
  /\ Returned(p, "add") /\ call[p].reply # "ok" /\ Goto(p, "return", "close")
  /\ listeners' = WithoutListener(call[p].on, wait[call[p].on].codes)
  /\ call' = [call EXCEPT ![p].reply = "none"]
  /\ unbarriered' = unbarriered \cup {call[p].on}
  /\ UNCHANGED <<pipe, tor, relay, wait, crashed, seen>>

\* The deferred RemoveEventListener; its error is dropped.
ReturnRemove(p) ==
  /\ Returned(p, "remove") /\ Goto(p, "return", "close")
  /\ call' = [call EXCEPT ![p].reply = "none"]
  /\ UNCHANGED <<pipe, tor, listeners, relay, wait, crashed, history>>

----------------------------------------------------------------------------
(* EventWait's select loop and deferred calls *)

\* The predicate sees the event: it wants more, or it is satisfied or fails
\* and eventCancel is deferred.
SelectEvent(p) ==
  LET w == call[p].on
      v == wait[w] IN
  /\ pc[p] = "select" /\ v.buf # <<>>
  /\ \E end \in BOOLEAN :
       /\ Goto(p, "select", IF end THEN "unmap" ELSE "select")
       /\ wait' = [wait EXCEPT ![w] =
                     [v EXCEPT !.buf = Tail(v.buf), !.done = v.done \/ end,
                               !.taken = Append(v.taken, Head(v.buf))]]
  /\ UNCHANGED <<pipe, tor, listeners, call, relay, crashed, history>>

\* The context is done or HandleEvents failed; eventCancel is deferred.
SelectEnd(p) ==
  LET w == call[p].on IN
  /\ Goto(p, "select", "unmap")
  /\ wait[w].done \/ wait[w].err
  /\ wait' = [wait EXCEPT ![w].done = TRUE]
  /\ UNCHANGED <<pipe, tor, listeners, call, relay, crashed, history>>

\* Mutant of RemoveEventListener: the map is cleaned but no SETEVENTS is sent.
RemoveFromMapOnly(p) ==
  /\ Goto(p, "unmap", "close")
  /\ listeners' = WithoutListener(call[p].on, wait[call[p].on].codes)
  /\ UNCHANGED <<pipe, tor, call, relay, wait, crashed, history>>

\* The deferred RemoveEventListener begins.
RemoveEventListener(p) ==
  /\ Goto(p, "unmap", "compose")
  /\ listeners' = WithoutListener(call[p].on, wait[call[p].on].codes)
  /\ call' = [call EXCEPT ![p].op = "remove"]
  /\ UNCHANGED <<pipe, tor, relay, wait, crashed, history>>

\* The deferred close(eventCh); what the channel held is garbage.
CloseChan(p) ==
  LET w == call[p].on IN
  /\ Goto(p, "close", "idle")
  /\ wait' = [wait EXCEPT ![w] = [NewWait EXCEPT !.chan = "closed",
                                    !.done = wait[w].done, !.err = wait[w].err]]
  /\ call' = [call EXCEPT ![p] = NoCall]
  /\ UNCHANGED <<pipe, tor, listeners, relay, crashed, history>>

----------------------------------------------------------------------------
(* The environment: the user's context and Tor *)

CtxDone(w) ==
  /\ Running
  /\ wait[w].chan = "open" /\ ~wait[w].done
  /\ wait' = [wait EXCEPT ![w].done = TRUE]
  /\ UNCHANGED <<pipe, tor, listeners, pc, call, relay, crashed, history>>

TorRuns ==
  /\ Running /\ linkUp
  /\ UNCHANGED <<pipe, listeners, pc, call, relay, wait, crashed, history>>

\* Tor answers commands in the order they arrive.
Answer(op, status) ==
  /\ TorRuns
  /\ wire # <<>> /\ Head(wire).op = op
  /\ wire' = Tail(wire)
  /\ inbox' = Append(inbox, Reply(Head(wire).id, status))
  /\ UNCHANGED log

AnswerRequest ==
  /\ \E status \in {"ok", "refused"} : Answer("request", status)
  /\ UNCHANGED <<linkUp, subs>>

\* SETEVENTS replaces the subscription, or changes nothing if a key is unknown.
AnswerSetEvents(op) ==
  /\ \/ Answer(op, "ok") /\ Head(wire).arg \subseteq TorKnows
        /\ subs' = Head(wire).arg
     \/ Answer(op, "refused") /\ ~(Head(wire).arg \subseteq TorKnows)
        /\ UNCHANGED subs
  /\ UNCHANGED linkUp

\* QUIT is answered, then Tor closes the connection.
AnswerQuit ==
  /\ Answer("quit", "ok")
  /\ linkUp' = FALSE
  /\ UNCHANGED subs

Emit(code) ==
  /\ TorRuns
  /\ code \in subs /\ Len(log) < MaxEvents
  /\ log' = Append(log, code)
  /\ inbox' = Append(inbox, Event(Len(log) + 1))
  /\ UNCHANGED <<linkUp, wire, subs>>

\* Tor exits or the connection is reset.
TorExits == TorRuns /\ LoseLink

----------------------------------------------------------------------------
(* The specification *)

Call(p) ==
  \/ \E op \in {"request", "quit"} : Request(p, op)
  \/ \E w \in Waits, K \in WaitSets : EventWait(p, w, K)

SendRequest(p) ==
  Cmd(p) \/ CmdFails(p) \/ StartResponse(p) \/ ReadReply(p) \/ ReadFails(p)

Relay(p) == ReadEvent(p) \/ Send(p) \/ SendPanics(p) \/ EndRelay(p)

Return(p) ==
  \/ ReturnRequest(p) \/ Close(p) \/ StartHandler(p) \/ RollBack(p)
  \/ ReturnRemove(p)

Wait(p) ==
  \/ ComposeSetEvents(p) \/ SelectEvent(p) \/ SelectEnd(p)
  \/ RemoveEventListener(p) \/ CloseChan(p)

Handler(w) == HandleEvents(w) \/ PeekReply(w) \/ PeekFails(w)

Tor ==
  AnswerRequest \/ AnswerSetEvents("add") \/ AnswerSetEvents("remove")
  \/ AnswerQuit

\* Every call has returned, or the program has crashed.
Quiescent ==
  /\ ~Running \/ \A p \in Callers : pc[p] = "idle"
  /\ UNCHANGED vars

Next ==
  \/ \E p \in Callers :
       Call(p) \/ SendRequest(p) \/ LockForResponse(p) \/ Return(p) \/ Wait(p)
  \/ \E p \in Procs : Relay(p)
  \/ \E w \in Waits : Handler(w) \/ LockForEvent(w) \/ CtxDone(w)
  \/ Tor \/ (\E code \in Codes : Emit(code)) \/ TorExits
  \/ Quiescent

Spec == Init /\ [][Next]_vars

\* Goroutines run and Tor answers.  A sync.Mutex that is unlocked again and
\* again is granted at last (its starvation mode): strong fairness.
Fairness ==
  /\ \A p \in Callers :
       /\ WF_vars(SendRequest(p)) /\ WF_vars(Return(p)) /\ WF_vars(Wait(p))
       /\ SF_vars(LockForResponse(p))
  /\ \A p \in Procs : WF_vars(Relay(p))
  /\ \A w \in Waits : WF_vars(Handler(w)) /\ SF_vars(LockForEvent(w))
  /\ WF_vars(Tor)

FairSpec == Spec /\ Fairness

----------------------------------------------------------------------------
(* Properties *)

\* The goroutine that is about to read a reply is the one that sent the
\* command it answers: readLock and the response sequencer together keep the
\* pipeline in step (conn.go:59-74), whatever events and handlers come between.
ReplyMatch ==
  \A p \in Callers :
    pc[p] = "read" /\ Received("reply") => Head(inbox).n = call[p].id

Registered(w) == \E k \in Keys : Contains(listeners[k], w)

Matches(w, n) ==
  \/ log[n] \in wait[w].codes
  \/ log[n] \notin Recognized /\ Unrecognized \in wait[w].codes

\* The event read for w that its reader has not sent yet, if there is one.
Unsent(w) ==
  IF \E p \in Procs : Contains(relay[p].to, w)
  THEN <<relay[CHOOSE p \in Procs : Contains(relay[p].to, w)].n>>
  ELSE <<>>

\* What the channel of w was sent, with what is about to be sent to it.
Delivered(w) == wait[w].taken \o wait[w].buf \o Unsent(w)

Increasing(s) == \A i, j \in 1..Len(s) : i < j => s[i] < s[j]

\* A registered channel gets every event of its codes that was read since it
\* was registered, and no other, once and in Tor's order, whichever goroutine
\* read it (conn.go:73, cmd_event.go:190, 288-305).
InOrderDelivery ==
  \A w \in Waits :
    Registered(w) =>
      /\ Increasing(Delivered(w))
      /\ Range(Delivered(w)) = {n \in (wait[w].start + 1)..seen : Matches(w, n)}

\* A closed channel is in no listener list, and no goroutine is about to send
\* on it unless EventWait gave it up without taking readLock after removing it
\* from the map (cmd_event.go:119-127, 301-304).
SafeClose ==
  \A w \in Waits :
    wait[w].chan = "closed" =>
      /\ ~Registered(w)
      /\ w \in unbarriered \/ \A p \in Procs : ~Contains(relay[p].to, w)

\* EventWait reports "an error internally handling the event" to its caller
\* (cmd_event.go:115-117): relaying an event does not bring the program down.
NoPanic == Running

\* While EventWait selects, Tor sends the events it was asked for: "Tor is
\* notified about which events should be listened to" (cmd_event.go:195).
Subscribed ==
  \A p \in Callers :
    pc[p] = "select" /\ linkUp => wait[call[p].on].codes \subseteq subs

\* SendRequest "sends a synchronous request to Tor and awaits the response"
\* (conn.go:51): a command that was written is answered or fails.
RequestReturns ==
  \A p \in Callers : pc[p] = "lock" ~> pc[p] = "return" \/ ~Running

\* EventWait returns once its context completes (cmd_event.go:115-117).
WaitReturns ==
  \A w \in Waits :
    wait[w].chan = "open" /\ wait[w].done ~> wait[w].chan = "closed" \/ ~Running

\* Event n is in the socket for the EventWait of w, which p is selecting in.
Expected(p, w, n) ==
  /\ pc[p] = "select" /\ call[p].on = w
  /\ \E i \in DOMAIN inbox : inbox[i] = Event(n) /\ Matches(w, n)

\* An event that reached the socket gets to the EventWait that selects, unless
\* that call ends first (cmd_event.go:131-144).
EventArrives ==
  \A p \in Callers, w \in Waits, n \in 1..MaxEvents :
    Expected(p, w, n) ~> Contains(wait[w].taken, n) \/ pc[p] # "select"
=============================================================================
