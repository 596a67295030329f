------------------------- MODULE ControlConnProofs -------------------------
(* Machine-checked properties of ControlConn, for any number of callers,    *)
(* EventWait calls, event codes and events.                                 *)
EXTENDS ControlConn, SequenceTheorems, TLAPS

\* w occurs at most once in s.
Once(s, w) == \A i, j \in 1..Len(s) : s[i] = w /\ s[j] = w => i = j

\* removeEventListenerFromMap takes a channel that is listed once out of the
\* list and disturbs no other (cmd_event.go:233-257).
LEMMA RemoveFirstProperties ==
  ASSUME NEW S, NEW s \in Seq(S), NEW e, Once(s, e)
  PROVE  /\ RemoveFirst(s, e) \in Seq(S)
         /\ ~Contains(RemoveFirst(s, e), e)
         /\ \A x : Contains(RemoveFirst(s, e), x) => Contains(s, x)
         /\ \A x : Contains(s, x) /\ x # e => Contains(RemoveFirst(s, e), x)
         /\ \A x : Once(s, x) => Once(RemoveFirst(s, e), x)
<1>1. CASE ~Contains(s, e)
  BY <1>1 DEF RemoveFirst, Contains
<1>2. CASE Contains(s, e)
  <2>1. PICK k \in 1..Len(s) : s[k] = e
    BY <1>2 DEF Contains
  <2>2. {i \in 1..Len(s) : s[i] = e} = {k}
    BY <2>1 DEF Once
  <2>3. Min({k}) = k
    BY DEF Min
  <2>4. SelectInSeq(s, LAMBDA v : v = e) = k
    BY <2>2, <2>3, Zenon DEF SelectInSeq
  <2> DEFINE a == SubSeq(s, 1, k-1)
             b == SubSeq(s, k+1, Len(s))
             r == a \o b
  <2>5. RemoveFirst(s, e) = r
    BY <1>2, <2>4, Zenon DEF RemoveFirst, RemoveAt, Contains
  <2>6. /\ a \in Seq(S) /\ Len(a) = k - 1
        /\ \A i \in 1..(k-1) : a[i] = s[i]
    BY SubSeqProperties
  <2>7. /\ b \in Seq(S) /\ Len(b) = Len(s) - k
        /\ \A i \in 1..(Len(s) - k) : b[i] = s[k + i]
    BY SubSeqProperties
  <2>8. /\ r \in Seq(S) /\ Len(r) = Len(s) - 1
        /\ \A i \in 1..(Len(s) - 1) : r[i] = IF i < k THEN s[i] ELSE s[i+1]
    <3> HIDE DEF a, b
    <3>1. /\ r \in Seq(S) /\ Len(r) = Len(a) + Len(b)
          /\ \A i \in 1..(Len(a) + Len(b)) :
               r[i] = IF i <= Len(a) THEN a[i] ELSE b[i - Len(a)]
      BY <2>6, <2>7, ConcatProperties, Zenon
    <3> HIDE DEF r
    <3>2. ASSUME NEW i \in 1..(Len(s) - 1)
          PROVE  r[i] = IF i < k THEN s[i] ELSE s[i+1]
      <4>1. CASE i < k
        BY <4>1, <3>1, <2>6, <2>7
      <4>2. CASE ~(i < k)
        <5>1. i - (k-1) \in 1..(Len(s) - k) /\ k + (i - (k-1)) = i + 1
          BY <4>2
        <5>2. i \in 1..(Len(a) + Len(b)) /\ ~(i <= Len(a)) /\ Len(a) = k - 1
          BY <4>2, <2>6, <2>7
        <5>3. r[i] = b[i - (k-1)]
          BY <3>1, <5>2
        <5> QED BY <4>2, <5>1, <5>3, <2>7
      <4> QED BY <4>1, <4>2
    <3> QED BY <3>1, <3>2, <2>6, <2>7
  <2> HIDE DEF r
  <2> DEFINE from(i) == IF i < k THEN i ELSE i + 1
  <2>9. \A i \in 1..Len(r) :
          from(i) \in 1..Len(s) /\ from(i) # k /\ r[i] = s[from(i)]
    BY <2>8
  <2>10. \A i, j \in 1..Len(r) : from(i) = from(j) => i = j
    BY <2>8
  <2> HIDE DEF from
  <2>11. ~Contains(r, e)
    BY <2>1, <2>9 DEF Contains, Once
  <2>12. \A x : Contains(r, x) => Contains(s, x)
    BY <2>9 DEF Contains
  <2>13. \A x : Once(s, x) => Once(r, x)
    BY <2>9, <2>10 DEF Once
  <2>14. ASSUME NEW x, Contains(s, x), x # e
         PROVE  Contains(r, x)
    <3>1. PICK i \in 1..Len(s) : s[i] = x /\ i # k
      BY <2>1, <2>14 DEF Contains
    <3>2. \E j \in 1..Len(r) : r[j] = x
      <4>1. CASE i < k
        BY <2>8, <3>1, <4>1
      <4>2. CASE k < i
        <5>1. i - 1 \in 1..Len(r) /\ ~(i - 1 < k) /\ (i - 1) + 1 = i
          BY <2>8, <3>1, <4>2
        <5> QED
          BY <2>8, <3>1, <5>1
      <4> QED
        BY <3>1, <4>1, <4>2
    <3> QED
      BY <3>2 DEF Contains
  <2> QED
    BY <2>5, <2>8, <2>11, <2>12, <2>13, <2>14
<1> QED
  BY <1>1, <1>2

----------------------------------------------------------------------------
(* The inductive invariant: what the goroutines' places say of the shared   *)
(* state                                                                    *)

\* The places in which a goroutine holds readLock.
Holding == {"turn", "read", "peek", "relay"}

\* p's EventWait of w may still have w in the listener map.
Owns(p, w) ==
  call[p].on = w /\ call[p].op = "add" /\ pc[p] # "close"

\* Every EventWait in progress has an open channel of its own, and its handler
\* starts only when AddEventListener has succeeded.
CallInv ==
  /\ \A p \in Callers :
       /\ pc[p] \in CallerPcs
       /\ pc[p] = "idle" <=> call[p].op = "none"
       /\ call[p].on \in Waits <=> call[p].op \in {"add", "remove"}
       /\ pc[p] \in {"compose", "close"} => call[p].on \in Waits
       /\ pc[p] \in {"select", "unmap"} => call[p].op = "add"
       /\ call[p].on \in Waits => wait[call[p].on].chan = "open"
       /\ call[p].op = "add" /\ pc[p] \notin {"select", "unmap", "close"}
            => pc[call[p].on] = "off"
  /\ \A p, q \in Callers :
       p # q /\ call[p].on \in Waits => call[p].on # call[q].on
  /\ \A w \in Waits :
       /\ pc[w] \in HandlerPcs
       /\ wait[w].chan = "new" => pc[w] = "off"

LockInv ==
  \A p \in Procs :
    /\ readLock = p <=> pc[p] \in Holding
    /\ relay[p].to # <<>> => pc[p] = "relay"

\* A channel is listed at most once for an event, only for the events its
\* EventWait asked for, and only while that call may still remove it.
MapInv ==
  \A k \in Keys, w \in Waits :
    /\ Once(listeners[k], w)
    /\ Contains(listeners[k], w) =>
         k \in wait[w].codes /\ \E p \in Callers : Owns(p, w)

LogInv ==
  \A i \in 1..Len(inbox) :
    inbox[i].kind = "event" => inbox[i].n \in 1..Len(log)

Inv == TypeOK /\ CallInv /\ LockInv /\ MapInv /\ LogInv

----------------------------------------------------------------------------
(* Types *)

\* Tor's answers keep the queues of the socket well typed.
LEMMA AnswerType ==
  ASSUME TypeOK, NEW o, NEW status \in Statuses, Answer(o, status)
  PROVE  inbox' \in Seq(Messages) /\ wire' \in Seq(Commands)
<1>1. Head(wire) \in Commands /\ Tail(wire) \in Seq(Commands)
  BY DEF Answer, TypeOK
<1>2. Reply(Head(wire).id, status) \in Messages
  BY <1>1 DEF Reply, Messages, Commands
<1> QED
  BY <1>1, <1>2, AppendProperties DEF Answer, TypeOK

LEMMA TypeStep ==
  ASSUME Inv, [Next]_vars
  PROVE  TypeOK'
<1>1. ASSUME NEW p \in Callers, NEW o \in {"request", "quit"}, Request(p, o)
     PROVE  TypeOK'
  <2>1. call' \in [Callers -> Calls]
    <3>1. call[p] \in Calls
      BY DEF Inv, TypeOK
    <3>2. [call[p] EXCEPT !.op = o] \in Calls
      BY <3>1 DEF Calls, Ops, Statuses
    <3> QED
      BY <1>1, <3>2 DEF Request, Inv, TypeOK
  <2>2. pc' \in [Procs -> Pcs]
    BY <1>1 DEF Request, Inv, TypeOK, Goto, Procs, Pcs, CallerPcs, HandlerPcs
  <2> QED
    BY <1>1, <2>1, <2>2 DEF Request, Inv, TypeOK, pipe, tor, history
<1>2. ASSUME NEW p \in Callers, NEW w \in Waits, NEW K \in WaitSets,
             EventWait(p, w, K)
     PROVE  TypeOK'
  <2>1. call' \in [Callers -> Calls]
    <3>1. [call[p] EXCEPT !.op = "add", !.on = w] \in Calls
      BY DEF Inv, TypeOK, Calls, Ops
    <3> QED
      BY <1>2, <3>1 DEF EventWait, Inv, TypeOK
  <2>2. wait' \in [Waits -> WaitStates]
    <3>1. wait[w] \in WaitStates /\ K \in SUBSET Keys /\ seen \in Nat
      BY CodeAssumption DEF Inv, TypeOK
    <3>2. [wait[w] EXCEPT !.chan = "open", !.codes = K, !.start = seen]
            \in WaitStates
      BY <3>1 DEF WaitStates
    <3> QED
      BY <1>2, <3>2 DEF EventWait, Inv, TypeOK
  <2>3. listeners' \in [Keys -> Seq(Waits)]
    BY <1>2 DEF EventWait, Inv, TypeOK, WithListener
  <2>4. pc' \in [Procs -> Pcs]
    BY <1>2 DEF EventWait, Inv, TypeOK, Goto, Procs, Pcs, CallerPcs, HandlerPcs
  <2> QED
    BY <1>2, <2>1, <2>2, <2>3, <2>4
    DEF EventWait, Inv, TypeOK, pipe, tor, history
<1>3. ASSUME NEW p \in Callers, Cmd(p)
     PROVE  TypeOK'
  <2>1. call' \in [Callers -> Calls]
    <3>1. call[p] \in Calls /\ nextId \in Nat
      BY DEF Inv, TypeOK
    <3>2. [call[p] EXCEPT !.id = nextId, !.arg = {}] \in Calls
      BY <3>1 DEF Calls, Ops, Statuses
    <3> QED
      BY <1>3, <3>2 DEF Cmd, Inv, TypeOK
  <2>2. wire' \in Seq(Commands)
    BY <1>3 DEF Cmd, Inv, TypeOK, Commands, Calls
  <2>3. pc' \in [Procs -> Pcs]
    BY <1>3 DEF Cmd, Inv, TypeOK, Goto, Procs, Pcs, CallerPcs, HandlerPcs
  <2> QED
    BY <1>3, <2>1, <2>2, <2>3 DEF Cmd, Inv, TypeOK, pipe, tor, history
<1>4. ASSUME NEW p \in Callers, CmdFails(p)
     PROVE  TypeOK'
  <2>1. call' \in [Callers -> Calls]
    <3>1. call[p] \in Calls
      BY DEF Inv, TypeOK
    <3>2. [call[p] EXCEPT !.reply = "error", !.arg = {}] \in Calls
      BY <3>1 DEF Calls, Ops, Statuses
    <3> QED
      BY <1>4, <3>2 DEF CmdFails, Inv, TypeOK
  <2>2. unbarriered' \in SUBSET Waits
    BY <1>4 DEF CmdFails, Inv, TypeOK, CallInv
  <2>3. pc' \in [Procs -> Pcs]
    BY <1>4 DEF CmdFails, Inv, TypeOK, Goto, Procs, Pcs, CallerPcs, HandlerPcs
  <2> QED
    BY <1>4, <2>1, <2>2, <2>3 DEF CmdFails, Inv, TypeOK, pipe, tor, history
<1>5. ASSUME NEW p \in Callers, StartResponse(p)
     PROVE  TypeOK'
  <2>1. pc' \in [Procs -> Pcs]
    BY <1>5
    DEF StartResponse, Inv, TypeOK, Goto, Procs, Pcs, CallerPcs, HandlerPcs
  <2> QED
    BY <1>5, <2>1 DEF StartResponse, Inv, TypeOK, pipe, tor, history
<1>6. ASSUME NEW p \in Callers, ReadReply(p)
     PROVE  TypeOK'
  <2>1. call' \in [Callers -> Calls]
    <3>1. Head(inbox).status \in Statuses
      <4>1. Head(inbox) \in Messages
        BY <1>6, HeadTailProperties DEF ReadReply, Received, Inv, TypeOK
      <4> QED
        BY <4>1 DEF Messages
    <3>2. [call[p] EXCEPT !.reply = Head(inbox).status, !.id = 0] \in Calls
      BY <3>1 DEF Inv, TypeOK, Calls
    <3> QED
      BY <1>6, <3>2 DEF ReadReply, FinishResponse, Inv, TypeOK
  <2>2. inbox' \in Seq(Messages)
    BY <1>6 DEF ReadReply, Inv, TypeOK, Messages, Statuses, Received
  <2>3. pc' \in [Procs -> Pcs]
    BY <1>6
    DEF ReadReply, Inv, TypeOK, Goto, Procs, Pcs, CallerPcs, HandlerPcs,
        FinishResponse
  <2> QED
    BY <1>6, <2>1, <2>2, <2>3
    DEF ReadReply, Inv, TypeOK, pipe, tor, history, FinishResponse
<1>7. ASSUME NEW p \in Callers, ReadFails(p)
     PROVE  TypeOK'
  <2>1. call' \in [Callers -> Calls]
    <3>1. call[p] \in Calls
      BY DEF Inv, TypeOK
    <3>2. [call[p] EXCEPT !.reply = "error", !.id = 0] \in Calls
      BY <3>1 DEF Calls, Ops, Statuses
    <3> QED
      BY <1>7, <3>2 DEF ReadFails, Inv, TypeOK, FinishResponse
  <2>2. pc' \in [Procs -> Pcs]
    BY <1>7
    DEF ReadFails, Inv, TypeOK, Goto, Procs, Pcs, CallerPcs, HandlerPcs,
        FinishResponse
  <2> QED
    BY <1>7, <2>1, <2>2
    DEF ReadFails, Inv, TypeOK, pipe, tor, history, FinishResponse
<1>8. ASSUME NEW p \in Callers, LockForResponse(p)
     PROVE  TypeOK'
  <2>1. pc' \in [Procs -> Pcs]
    BY <1>8
    DEF LockForResponse, Inv, TypeOK, Goto, Procs, Pcs, CallerPcs, HandlerPcs
  <2>2. readLock' \in Procs \cup {NoProc}
    BY <1>8 DEF LockForResponse, Inv, TypeOK, Procs, Lock
  <2> QED
    BY <1>8, <2>1, <2>2
    DEF LockForResponse, Inv, TypeOK, pipe, tor, history, Lock
<1>9. ASSUME NEW p \in Callers, ReturnRequest(p)
     PROVE  TypeOK'
  <2>1. call' \in [Callers -> Calls]
    BY <1>9 DEF ReturnRequest, Inv, TypeOK, Calls, Ops, Statuses, NoCall
  <2>2. pc' \in [Procs -> Pcs]
    BY <1>9
    DEF ReturnRequest, Inv, TypeOK, Goto, Procs, Pcs, CallerPcs, HandlerPcs
  <2> QED
    BY <1>9, <2>1, <2>2 DEF ReturnRequest, Inv, TypeOK, pipe, tor, history
<1>10. ASSUME NEW p \in Callers, Close(p)
     PROVE  TypeOK'
  <2>1. call' \in [Callers -> Calls]
    BY <1>10 DEF Close, Inv, TypeOK, Calls, Ops, Statuses, NoCall
  <2>2. inbox' \in Seq(Messages)
    <3>1. PICK n \in 0..Len(inbox) : inbox' = SubSeq(inbox, 1, n)
      BY <1>10 DEF Close, LoseLink
    <3> QED
      BY <3>1, SubSeqProperties DEF Inv, TypeOK
  <2>3. pc' \in [Procs -> Pcs]
    BY <1>10 DEF Close, Inv, TypeOK, Goto, Procs, Pcs, CallerPcs, HandlerPcs
  <2> QED
    BY <1>10, <2>1, <2>2, <2>3
    DEF Close, Inv, TypeOK, pipe, tor, history, LoseLink
<1>11. ASSUME NEW p \in Callers, StartHandler(p)
     PROVE  TypeOK'
  <2>1. call' \in [Callers -> Calls]
    <3>1. call[p] \in Calls
      BY DEF Inv, TypeOK
    <3>2. [call[p] EXCEPT !.reply = "none"] \in Calls
      BY <3>1 DEF Calls, Ops, Statuses
    <3> QED
      BY <1>11, <3>2 DEF StartHandler, Inv, TypeOK
  <2>2. pc' \in [Procs -> Pcs]
    BY <1>11
    DEF StartHandler, Inv, TypeOK, Goto, Procs, Pcs, CallerPcs, HandlerPcs
  <2> QED
    BY <1>11, <2>1, <2>2 DEF StartHandler, Inv, TypeOK, pipe, tor, history
<1>12. ASSUME NEW p \in Callers, RollBack(p)
     PROVE  TypeOK'
  <2>1. call' \in [Callers -> Calls]
    <3>1. call[p] \in Calls
      BY DEF Inv, TypeOK
    <3>2. [call[p] EXCEPT !.reply = "none"] \in Calls
      BY <3>1 DEF Calls, Ops, Statuses
    <3> QED
      BY <1>12, <3>2 DEF RollBack, Inv, TypeOK
  <2>2. listeners' \in [Keys -> Seq(Waits)]
    <3>1. \A k \in Keys : RemoveFirst(listeners[k], call[p].on) \in Seq(Waits)
      <4>1. call[p].on \in Waits
        BY <1>12 DEF RollBack, Returned, Goto, Inv, CallInv
      <4> QED
        BY <4>1, RemoveFirstProperties DEF Inv, MapInv, TypeOK
    <3> QED
      BY <1>12, <3>1 DEF RollBack, WithoutListener, Inv, TypeOK
  <2>3. unbarriered' \in SUBSET Waits
    BY <1>12 DEF RollBack, Inv, TypeOK, CallInv, Returned
  <2>4. pc' \in [Procs -> Pcs]
    BY <1>12 DEF RollBack, Inv, TypeOK, Goto, Procs, Pcs, CallerPcs, HandlerPcs
  <2> QED
    BY <1>12, <2>1, <2>2, <2>3, <2>4
    DEF RollBack, Inv, TypeOK, pipe, tor, history
<1>13. ASSUME NEW p \in Callers, ReturnRemove(p)
     PROVE  TypeOK'
  <2>1. call' \in [Callers -> Calls]
    <3>1. call[p] \in Calls
      BY DEF Inv, TypeOK
    <3>2. [call[p] EXCEPT !.reply = "none"] \in Calls
      BY <3>1 DEF Calls, Ops, Statuses
    <3> QED
      BY <1>13, <3>2 DEF ReturnRemove, Inv, TypeOK
  <2>2. pc' \in [Procs -> Pcs]
    BY <1>13
    DEF ReturnRemove, Inv, TypeOK, Goto, Procs, Pcs, CallerPcs, HandlerPcs
  <2> QED
    BY <1>13, <2>1, <2>2 DEF ReturnRemove, Inv, TypeOK, pipe, tor, history
<1>14. ASSUME NEW p \in Callers, ComposeSetEvents(p)
     PROVE  TypeOK'
  <2>1. call' \in [Callers -> Calls]
    <3>1. call[p] \in Calls
      BY DEF Inv, TypeOK
    <3>2. [call[p] EXCEPT !.arg = MapKeys] \in Calls
      BY <3>1 DEF Calls, Ops, Statuses, MapKeys
    <3> QED
      BY <1>14, <3>2 DEF ComposeSetEvents, Inv, TypeOK
  <2>2. pc' \in [Procs -> Pcs]
    BY <1>14
    DEF ComposeSetEvents, Inv, TypeOK, Goto, Procs, Pcs, CallerPcs, HandlerPcs
  <2> QED
    BY <1>14, <2>1, <2>2 DEF ComposeSetEvents, Inv, TypeOK, pipe, tor, history
<1>15. ASSUME NEW p \in Callers, SelectEvent(p)
     PROVE  TypeOK'
  <2>1. wait' \in [Waits -> WaitStates]
    <3> DEFINE w == call[p].on
               v == wait[w]
    <3>1. PICK end \in BOOLEAN :
            wait' = [wait EXCEPT ![w] =
                       [v EXCEPT !.buf = Tail(v.buf), !.done = v.done \/ end,
                                 !.taken = Append(v.taken, Head(v.buf))]]
      BY <1>15 DEF SelectEvent
    <3>2. w \in Waits /\ v.buf # <<>>
      BY <1>15 DEF SelectEvent, Inv, CallInv, Ops
    <3>3. v \in WaitStates
      BY <3>2 DEF Inv, TypeOK
    <3> HIDE DEF w, v
    <3>4. Tail(v.buf) \in Seq(Nat) /\ Append(v.taken, Head(v.buf)) \in Seq(Nat)
      BY <3>2, <3>3, AppendProperties DEF WaitStates
    <3>5. [v EXCEPT !.buf = Tail(v.buf), !.done = v.done \/ end,
                    !.taken = Append(v.taken, Head(v.buf))] \in WaitStates
      BY <3>3, <3>4 DEF WaitStates
    <3> QED
      BY <3>1, <3>5 DEF Inv, TypeOK
  <2>2. pc' \in [Procs -> Pcs]
    BY <1>15
    DEF SelectEvent, Inv, TypeOK, Goto, Procs, Pcs, CallerPcs, HandlerPcs
  <2> QED
    BY <1>15, <2>1, <2>2 DEF SelectEvent, Inv, TypeOK, pipe, tor, history
<1>16. ASSUME NEW p \in Callers, SelectEnd(p)
     PROVE  TypeOK'
  <2>1. wait' \in [Waits -> WaitStates]
    <3>1. \A v \in WaitStates : [v EXCEPT !.done = TRUE] \in WaitStates
      BY DEF WaitStates
    <3> QED
      BY <1>16, <3>1 DEF SelectEnd, Inv, TypeOK
  <2>2. pc' \in [Procs -> Pcs]
    BY <1>16 DEF SelectEnd, Inv, TypeOK, Goto, Procs, Pcs, CallerPcs, HandlerPcs
  <2> QED
    BY <1>16, <2>1, <2>2 DEF SelectEnd, Inv, TypeOK, pipe, tor, history
<1>17. ASSUME NEW p \in Callers, RemoveEventListener(p)
     PROVE  TypeOK'
  <2>1. call' \in [Callers -> Calls]
    <3>1. call[p] \in Calls
      BY DEF Inv, TypeOK
    <3>2. [call[p] EXCEPT !.op = "remove"] \in Calls
      BY <3>1 DEF Calls, Ops, Statuses
    <3> QED
      BY <1>17, <3>2 DEF RemoveEventListener, Inv, TypeOK
  <2>2. listeners' \in [Keys -> Seq(Waits)]
    <3>1. \A k \in Keys : RemoveFirst(listeners[k], call[p].on) \in Seq(Waits)
      <4>1. call[p].on \in Waits
        BY <1>17 DEF RemoveEventListener, Returned, Goto, Inv, CallInv
      <4> QED
        BY <4>1, RemoveFirstProperties DEF Inv, MapInv, TypeOK
    <3> QED
      BY <1>17, <3>1 DEF RemoveEventListener, WithoutListener, Inv, TypeOK
  <2>3. pc' \in [Procs -> Pcs]
    BY <1>17
    DEF RemoveEventListener, Inv, TypeOK, Goto, Procs, Pcs, CallerPcs,
        HandlerPcs
  <2> QED
    BY <1>17, <2>1, <2>2, <2>3
    DEF RemoveEventListener, Inv, TypeOK, pipe, tor, history
<1>18. ASSUME NEW p \in Callers, CloseChan(p)
     PROVE  TypeOK'
  <2>1. call' \in [Callers -> Calls]
    BY <1>18 DEF CloseChan, Inv, TypeOK, Calls, Ops, Statuses, NoCall
  <2>2. wait' \in [Waits -> WaitStates]
    <3>1. \A v \in WaitStates :
            [NewWait EXCEPT !.chan = "closed", !.done = v.done, !.err = v.err]
              \in WaitStates
      <4>1. NewWait \in WaitStates
        BY DEF NewWait, WaitStates
      <4> QED
        BY <4>1 DEF WaitStates
    <3>2. call[p].on \in Waits
      BY <1>18 DEF CloseChan, Goto, Inv, CallInv
    <3> QED
      BY <1>18, <3>1, <3>2 DEF CloseChan, Inv, TypeOK
  <2>3. pc' \in [Procs -> Pcs]
    BY <1>18 DEF CloseChan, Inv, TypeOK, Goto, Procs, Pcs, CallerPcs, HandlerPcs
  <2> QED
    BY <1>18, <2>1, <2>2, <2>3 DEF CloseChan, Inv, TypeOK, pipe, tor, history
<1>19. ASSUME NEW p \in Procs, ReadEvent(p)
     PROVE  TypeOK'
  <2>1. relay' \in [Procs -> [n : Nat, to : Seq(Waits)]]
    <3>1. Head(inbox).n \in 1..Len(log)
      BY <1>19 DEF ReadEvent, Received, Inv, TypeOK, LogInv
    <3>2. log[Head(inbox).n] \in Keys
      BY <3>1 DEF Inv, TypeOK, Keys
    <3>3. Targets(log[Head(inbox).n]) \in Seq(Waits)
      BY <3>2, ConcatProperties DEF Targets, Inv, TypeOK, Keys
    <3> QED
      BY <1>19, <3>1, <3>3 DEF ReadEvent, Inv, TypeOK
  <2>2. inbox' \in Seq(Messages)
    BY <1>19 DEF ReadEvent, Inv, TypeOK, Messages, Statuses, Received
  <2>3. pc' \in [Procs -> Pcs]
    BY <1>19 DEF ReadEvent, Inv, TypeOK, Goto, Procs, Pcs, CallerPcs, HandlerPcs
  <2> QED
    BY <1>19, <2>1, <2>2, <2>3
    DEF ReadEvent, Inv, TypeOK, pipe, tor, history, Received, Messages
<1>20. ASSUME NEW p \in Procs, Send(p)
     PROVE  TypeOK'
  <2>1. relay' \in [Procs -> [n : Nat, to : Seq(Waits)]]
    <3>1. relay[p].to \in Seq(Waits) /\ relay[p].to # <<>>
      BY <1>20 DEF Send, Inv, TypeOK
    <3>2. [relay[p] EXCEPT !.to = Tail(@)] \in [n : Nat, to : Seq(Waits)]
      <4>1. Tail(relay[p].to) \in Seq(Waits)
        BY <3>1, HeadTailProperties
      <4> QED
        BY <4>1 DEF Inv, TypeOK
    <3> QED
      BY <1>20, <3>2 DEF Send, Inv, TypeOK
  <2>2. wait' \in [Waits -> WaitStates]
    <3> DEFINE w == Head(relay[p].to)
               v == [wait[w] EXCEPT !.buf = Append(@, relay[p].n)]
    <3>1. wait' = [wait EXCEPT ![w] = v]
      BY <1>20, Zenon DEF Send
    <3>2. w \in Waits /\ relay[p].n \in Nat
      BY <1>20 DEF Send, Inv, TypeOK
    <3>3. v \in WaitStates
      <4> HIDE DEF w
      <4>1. Append(wait[w].buf, relay[p].n) \in Seq(Nat)
        BY <3>2, AppendProperties DEF Inv, TypeOK, WaitStates
      <4> QED
        BY <3>2, <4>1 DEF Inv, TypeOK, WaitStates
    <3> HIDE DEF w, v
    <3> QED
      BY <3>1, <3>3 DEF Inv, TypeOK
  <2>3. pc' \in [Procs -> Pcs]
    BY <1>20 DEF Send, Inv, TypeOK, Goto, Procs, Pcs, CallerPcs, HandlerPcs
  <2> QED
    BY <1>20, <2>1, <2>2, <2>3 DEF Send, Inv, TypeOK, pipe, tor, history
<1>21. ASSUME NEW p \in Procs, SendPanics(p)
     PROVE  TypeOK'
  <2>1. crashed' \in SUBSET Waits
    BY <1>21 DEF SendPanics, Inv, TypeOK
  <2>2. pc' \in [Procs -> Pcs]
    BY <1>21
    DEF SendPanics, Inv, TypeOK, Goto, Procs, Pcs, CallerPcs, HandlerPcs
  <2> QED
    BY <1>21, <2>1, <2>2 DEF SendPanics, Inv, TypeOK, pipe, tor, history
<1>22. ASSUME NEW p \in Procs, EndRelay(p)
     PROVE  TypeOK'
  <2>1. relay' \in [Procs -> [n : Nat, to : Seq(Waits)]]
    BY <1>22 DEF EndRelay, Inv, TypeOK
  <2>2. pc' \in [Procs -> Pcs]
    BY <1>22 DEF EndRelay, Inv, TypeOK, Goto, Procs, Pcs, CallerPcs, HandlerPcs
  <2> QED
    BY <1>22, <2>1, <2>2 DEF EndRelay, Inv, TypeOK, pipe, tor, history, Unlock
<1>23. ASSUME NEW w \in Waits, HandleEvents(w)
     PROVE  TypeOK'
  <2>1. pc' \in [Procs -> Pcs]
    BY <1>23
    DEF HandleEvents, Inv, TypeOK, Goto, Procs, Pcs, CallerPcs, HandlerPcs
  <2> QED
    BY <1>23, <2>1 DEF HandleEvents, Inv, TypeOK, pipe, tor, history
<1>24. ASSUME NEW w \in Waits, PeekReply(w)
     PROVE  TypeOK'
  <2>1. pc' \in [Procs -> Pcs]
    BY <1>24 DEF PeekReply, Inv, TypeOK, Goto, Procs, Pcs, CallerPcs, HandlerPcs
  <2> QED
    BY <1>24, <2>1 DEF PeekReply, Inv, TypeOK, pipe, tor, history, Unlock
<1>25. ASSUME NEW w \in Waits, PeekFails(w)
     PROVE  TypeOK'
  <2>1. wait' \in [Waits -> WaitStates]
    <3>1. \A v \in WaitStates : [v EXCEPT !.err = TRUE] \in WaitStates
      BY DEF WaitStates
    <3> QED
      BY <1>25, <3>1 DEF PeekFails, Inv, TypeOK
  <2>2. pc' \in [Procs -> Pcs]
    BY <1>25 DEF PeekFails, Inv, TypeOK, Goto, Procs, Pcs, CallerPcs, HandlerPcs
  <2> QED
    BY <1>25, <2>1, <2>2 DEF PeekFails, Inv, TypeOK, pipe, tor, history, Unlock
<1>26. ASSUME NEW w \in Waits, LockForEvent(w)
     PROVE  TypeOK'
  <2>1. pc' \in [Procs -> Pcs]
    BY <1>26
    DEF LockForEvent, Inv, TypeOK, Goto, Procs, Pcs, CallerPcs, HandlerPcs
  <2>2. readLock' \in Procs \cup {NoProc}
    BY <1>26 DEF LockForEvent, Inv, TypeOK, Procs, Lock
  <2> QED
    BY <1>26, <2>1, <2>2 DEF LockForEvent, Inv, TypeOK, pipe, tor, history, Lock
<1>27. ASSUME NEW w \in Waits, CtxDone(w)
     PROVE  TypeOK'
  <2>1. wait' \in [Waits -> WaitStates]
    <3>1. \A v \in WaitStates : [v EXCEPT !.done = TRUE] \in WaitStates
      BY DEF WaitStates
    <3> QED
      BY <1>27, <3>1 DEF CtxDone, Inv, TypeOK
  <2> QED
    BY <1>27, <2>1 DEF CtxDone, Inv, TypeOK, pipe, tor, history
<1>28. ASSUME AnswerRequest
     PROVE  TypeOK'
  <2>1. inbox' \in Seq(Messages) /\ wire' \in Seq(Commands)
    BY <1>28, AnswerType DEF AnswerRequest, Inv, TypeOK, Statuses
  <2> QED
    BY <1>28, <2>1
    DEF AnswerRequest, Inv, TypeOK, pipe, tor, history, TorRuns, Answer
<1>29. ASSUME NEW o \in {"add", "remove"}, AnswerSetEvents(o)
     PROVE  TypeOK'
  <2>1. inbox' \in Seq(Messages) /\ wire' \in Seq(Commands)
    BY <1>29, AnswerType DEF AnswerSetEvents, Inv, TypeOK, Statuses
  <2>2. subs' \in SUBSET Codes
    BY <1>29, CodeAssumption DEF AnswerSetEvents, Inv, TypeOK, Answer, Commands
  <2> QED
    BY <1>29, <2>1, <2>2
    DEF AnswerSetEvents, Inv, TypeOK, pipe, tor, history, TorRuns, Answer
<1>30. ASSUME AnswerQuit
     PROVE  TypeOK'
  <2>1. inbox' \in Seq(Messages) /\ wire' \in Seq(Commands)
    BY <1>30, AnswerType DEF AnswerQuit, Inv, TypeOK, Statuses
  <2> QED
    BY <1>30, <2>1
    DEF AnswerQuit, Inv, TypeOK, pipe, tor, history, TorRuns, Answer
<1>31. ASSUME NEW c \in Codes, Emit(c)
     PROVE  TypeOK'
  <2>1. log' \in Seq(Codes)
    BY <1>31 DEF Emit, Inv, TypeOK, TorRuns
  <2>2. inbox' \in Seq(Messages)
    BY <1>31 DEF Emit, Inv, TypeOK, Messages, Statuses, TorRuns, Event
  <2> QED
    BY <1>31, <2>1, <2>2 DEF Emit, Inv, TypeOK, pipe, tor, history, TorRuns
<1>32. ASSUME TorExits
     PROVE  TypeOK'
  <2>1. inbox' \in Seq(Messages)
    <3>1. PICK n \in 0..Len(inbox) : inbox' = SubSeq(inbox, 1, n)
      BY <1>32 DEF TorExits, LoseLink
    <3> QED
      BY <3>1, SubSeqProperties DEF Inv, TypeOK
  <2> QED
    BY <1>32, <2>1
    DEF TorExits, Inv, TypeOK, pipe, tor, history, TorRuns, LoseLink
<1>33. CASE UNCHANGED vars
  BY <1>33 DEF Inv, TypeOK, vars, pipe, tor, history
<1> QED
  BY <1>1, <1>2, <1>3, <1>4, <1>5, <1>6, <1>7, <1>8, <1>9, <1>10, <1>11, <1>12,
     <1>13, <1>14, <1>15, <1>16, <1>17, <1>18, <1>19, <1>20, <1>21, <1>22,
     <1>23, <1>24, <1>25, <1>26, <1>27, <1>28, <1>29, <1>30, <1>31, <1>32, <1>33
     DEF Next, Call, SendRequest, Relay, Return, Wait, Handler, Tor, Quiescent,
         Procs

----------------------------------------------------------------------------
(* Calls and handlers *)

LEMMA CallStep ==
  ASSUME Inv, [Next]_vars
  PROVE  CallInv'
<1>1. ASSUME NEW p \in Callers, NEW o \in {"request", "quit"}, Request(p, o)
     PROVE  CallInv'
  <2>1. /\ call[p].op = "none" /\ call'[p].op \in {"request", "quit"}
        /\ call'[p].on = call[p].on
         /\ \A q \in Callers \ {p} : call'[q] = call[q]
    BY <1>1 DEF Request, Inv, TypeOK, Calls, Goto, CallInv
  <2>2. wait' = wait
    BY <1>1 DEF Request, Inv, TypeOK, WaitStates
  <2>3. /\ pc[p] = "idle" /\ pc'[p] = "cmd"
         /\ \A q \in Procs \ {p} : pc'[q] = pc[q]
    BY <1>1, ProcAssumption DEF Request, Goto, Inv, TypeOK, Procs
  <2> QED
    BY <2>1, <2>2, <2>3, ProcAssumption
       DEF Inv, CallInv, Procs, CallerPcs, HandlerPcs
<1>2. ASSUME NEW p \in Callers, NEW w \in Waits, NEW K \in WaitSets,
             EventWait(p, w, K)
     PROVE  CallInv'
  <2>1. /\ call'[p].op = "add" /\ call'[p].on = w
         /\ \A q \in Callers \ {p} : call'[q] = call[q]
    BY <1>2 DEF EventWait, Inv, TypeOK, Calls
  <2>2. /\ wait[w].chan = "new" /\ wait'[w].chan = "open"
         /\ \A v \in Waits \ {w} : wait'[v] = wait[v]
    BY <1>2 DEF EventWait, Inv, TypeOK, WaitStates
  <2>3. /\ pc[p] = "idle" /\ pc'[p] = "compose"
         /\ \A q \in Procs \ {p} : pc'[q] = pc[q]
    BY <1>2, ProcAssumption DEF EventWait, Goto, Inv, TypeOK, Procs
  <2> QED
    BY <2>1, <2>2, <2>3, ProcAssumption
       DEF Inv, CallInv, Procs, CallerPcs, HandlerPcs
<1>3. ASSUME NEW p \in Callers, Cmd(p)
     PROVE  CallInv'
  <2>1. \A q \in Callers : call'[q].op = call[q].op /\ call'[q].on = call[q].on
    BY <1>3 DEF Cmd, Inv, TypeOK, Calls
  <2>2. wait' = wait
    BY <1>3 DEF Cmd, Inv, TypeOK, WaitStates
  <2>3. /\ pc[p] = "cmd" /\ pc'[p] = "lock"
         /\ \A q \in Procs \ {p} : pc'[q] = pc[q]
    BY <1>3, ProcAssumption DEF Cmd, Goto, Inv, TypeOK, Procs
  <2> QED
    BY <2>1, <2>2, <2>3, ProcAssumption
       DEF Inv, CallInv, Procs, CallerPcs, HandlerPcs
<1>4. ASSUME NEW p \in Callers, CmdFails(p)
     PROVE  CallInv'
  <2>1. \A q \in Callers : call'[q].op = call[q].op /\ call'[q].on = call[q].on
    BY <1>4 DEF CmdFails, Inv, TypeOK, Calls
  <2>2. \A v \in Waits : wait'[v].chan = wait[v].chan
    BY <1>4 DEF CmdFails, Inv, TypeOK, WaitStates
  <2>3. /\ pc[p] = "cmd" /\ pc'[p] = "return"
         /\ \A q \in Procs \ {p} : pc'[q] = pc[q]
    BY <1>4, ProcAssumption DEF CmdFails, Goto, Inv, TypeOK, Procs
  <2> QED
    BY <2>1, <2>2, <2>3, ProcAssumption
       DEF Inv, CallInv, Procs, CallerPcs, HandlerPcs
<1>5. ASSUME NEW p \in Callers, StartResponse(p)
     PROVE  CallInv'
  <2>1. UNCHANGED <<call, wait>>
    BY <1>5 DEF StartResponse
  <2>2. /\ pc[p] = "turn" /\ pc'[p] = "read"
         /\ \A q \in Procs \ {p} : pc'[q] = pc[q]
    BY <1>5, ProcAssumption DEF StartResponse, Goto, Inv, TypeOK, Procs
  <2> QED
    BY <2>1, <2>2, ProcAssumption
       DEF Inv, CallInv, Procs, CallerPcs, HandlerPcs
<1>6. ASSUME NEW p \in Callers, ReadReply(p)
     PROVE  CallInv'
  <2>1. \A q \in Callers : call'[q].op = call[q].op /\ call'[q].on = call[q].on
    BY <1>6 DEF ReadReply, FinishResponse, Inv, TypeOK, Calls
  <2>2. wait' = wait
    BY <1>6 DEF ReadReply, FinishResponse, Inv, TypeOK, WaitStates
  <2>3. /\ pc[p] = "read" /\ pc'[p] = "return"
         /\ \A q \in Procs \ {p} : pc'[q] = pc[q]
    BY <1>6, ProcAssumption
    DEF ReadReply, FinishResponse, Goto, Inv, TypeOK, Procs
  <2> QED
    BY <2>1, <2>2, <2>3, ProcAssumption
       DEF Inv, CallInv, Procs, CallerPcs, HandlerPcs
<1>7. ASSUME NEW p \in Callers, ReadFails(p)
     PROVE  CallInv'
  <2>1. \A q \in Callers : call'[q].op = call[q].op /\ call'[q].on = call[q].on
    BY <1>7 DEF ReadFails, FinishResponse, Inv, TypeOK, Calls
  <2>2. \A v \in Waits : wait'[v].chan = wait[v].chan
    BY <1>7 DEF ReadFails, FinishResponse, Inv, TypeOK, WaitStates
  <2>3. /\ pc[p] = "read" /\ pc'[p] = "return"
         /\ \A q \in Procs \ {p} : pc'[q] = pc[q]
    BY <1>7, ProcAssumption
    DEF ReadFails, FinishResponse, Goto, Inv, TypeOK, Procs
  <2> QED
    BY <2>1, <2>2, <2>3, ProcAssumption
       DEF Inv, CallInv, Procs, CallerPcs, HandlerPcs
<1>8. ASSUME NEW p \in Callers, LockForResponse(p)
     PROVE  CallInv'
  <2>1. UNCHANGED <<call, wait>>
    BY <1>8 DEF LockForResponse
  <2>2. /\ pc[p] = "lock" /\ pc'[p] = "turn"
         /\ \A q \in Procs \ {p} : pc'[q] = pc[q]
    BY <1>8, ProcAssumption DEF LockForResponse, Goto, Inv, TypeOK, Procs
  <2> QED
    BY <2>1, <2>2, ProcAssumption
       DEF Inv, CallInv, Procs, CallerPcs, HandlerPcs
<1>9. ASSUME NEW p \in Callers, ReturnRequest(p)
     PROVE  CallInv'
  <2>1. /\ call[p].op \in {"request", "quit"}
         /\ call'[p].op = "none" /\ call'[p].on = NoProc
         /\ \A q \in Callers \ {p} : call'[q] = call[q]
    BY <1>9 DEF ReturnRequest, Returned, NoCall, Inv, TypeOK, Calls
  <2>2. wait' = wait
    BY <1>9 DEF ReturnRequest, Returned, NoCall, Inv, TypeOK, WaitStates
  <2>3. /\ pc[p] = "return" /\ pc'[p] = "idle"
         /\ \A q \in Procs \ {p} : pc'[q] = pc[q]
    BY <1>9, ProcAssumption
    DEF ReturnRequest, Returned, NoCall, Goto, Inv, TypeOK, Procs
  <2> QED
    BY <2>1, <2>2, <2>3, ProcAssumption
       DEF Inv, CallInv, Procs, CallerPcs, HandlerPcs
<1>10. ASSUME NEW p \in Callers, Close(p)
     PROVE  CallInv'
  <2>1. /\ call[p].op \in {"request", "quit"}
         /\ call'[p].op = "none" /\ call'[p].on = NoProc
         /\ \A q \in Callers \ {p} : call'[q] = call[q]
    BY <1>10 DEF Close, Returned, NoCall, Inv, TypeOK, Calls
  <2>2. wait' = wait
    BY <1>10 DEF Close, Returned, NoCall, Inv, TypeOK, WaitStates
  <2>3. /\ pc[p] = "return" /\ pc'[p] = "idle"
         /\ \A q \in Procs \ {p} : pc'[q] = pc[q]
    BY <1>10, ProcAssumption
    DEF Close, Returned, NoCall, Goto, Inv, TypeOK, Procs
  <2> QED
    BY <2>1, <2>2, <2>3, ProcAssumption
       DEF Inv, CallInv, Procs, CallerPcs, HandlerPcs
<1>11. ASSUME NEW p \in Callers, StartHandler(p)
     PROVE  CallInv'
  <2>1. /\ call[p].op = "add"
        /\ \A q \in Callers :
             call'[q].op = call[q].op /\ call'[q].on = call[q].on
    BY <1>11 DEF StartHandler, Returned, Inv, TypeOK, Calls
  <2>2. \A v \in Waits : wait'[v].chan = wait[v].chan
    BY <1>11 DEF StartHandler, Returned, Inv, TypeOK, WaitStates
  <2>3. /\ pc[p] = "return" /\ pc'[p] = "select" /\ pc'[call[p].on] = "loop"
         /\ \A q \in Procs \ {p, call[p].on} : pc'[q] = pc[q]
    BY <1>11, ProcAssumption
    DEF StartHandler, Returned, Goto, Inv, TypeOK, Procs, CallInv, Ops
  <2> QED
    BY <2>1, <2>2, <2>3, ProcAssumption
       DEF Inv, CallInv, Procs, CallerPcs, HandlerPcs
<1>12. ASSUME NEW p \in Callers, RollBack(p)
     PROVE  CallInv'
  <2>1. /\ call[p].op = "add"
        /\ \A q \in Callers :
             call'[q].op = call[q].op /\ call'[q].on = call[q].on
    BY <1>12 DEF RollBack, Returned, Inv, TypeOK, Calls
  <2>2. \A v \in Waits : wait'[v].chan = wait[v].chan
    BY <1>12 DEF RollBack, Returned, Inv, TypeOK, WaitStates
  <2>3. /\ pc[p] = "return" /\ pc'[p] = "close"
         /\ \A q \in Procs \ {p} : pc'[q] = pc[q]
    BY <1>12, ProcAssumption DEF RollBack, Returned, Goto, Inv, TypeOK, Procs
  <2> QED
    BY <2>1, <2>2, <2>3, ProcAssumption
       DEF Inv, CallInv, Procs, CallerPcs, HandlerPcs
<1>13. ASSUME NEW p \in Callers, ReturnRemove(p)
     PROVE  CallInv'
  <2>1. /\ call[p].op = "remove"
        /\ \A q \in Callers :
             call'[q].op = call[q].op /\ call'[q].on = call[q].on
    BY <1>13 DEF ReturnRemove, Returned, Inv, TypeOK, Calls
  <2>2. \A v \in Waits : wait'[v].chan = wait[v].chan
    BY <1>13 DEF ReturnRemove, Returned, Inv, TypeOK, WaitStates
  <2>3. /\ pc[p] = "return" /\ pc'[p] = "close"
         /\ \A q \in Procs \ {p} : pc'[q] = pc[q]
    BY <1>13, ProcAssumption
    DEF ReturnRemove, Returned, Goto, Inv, TypeOK, Procs
  <2> QED
    BY <2>1, <2>2, <2>3, ProcAssumption
       DEF Inv, CallInv, Procs, CallerPcs, HandlerPcs
<1>14. ASSUME NEW p \in Callers, ComposeSetEvents(p)
     PROVE  CallInv'
  <2>1. \A q \in Callers : call'[q].op = call[q].op /\ call'[q].on = call[q].on
    BY <1>14 DEF ComposeSetEvents, Inv, TypeOK, Calls
  <2>2. \A v \in Waits : wait'[v].chan = wait[v].chan
    BY <1>14 DEF ComposeSetEvents, Inv, TypeOK, WaitStates
  <2>3. /\ pc[p] = "compose" /\ pc'[p] = "cmd"
         /\ \A q \in Procs \ {p} : pc'[q] = pc[q]
    BY <1>14, ProcAssumption DEF ComposeSetEvents, Goto, Inv, TypeOK, Procs
  <2> QED
    BY <2>1, <2>2, <2>3, ProcAssumption
       DEF Inv, CallInv, Procs, CallerPcs, HandlerPcs
<1>15. ASSUME NEW p \in Callers, SelectEvent(p)
     PROVE  CallInv'
  <2>1. \A q \in Callers : call'[q].op = call[q].op /\ call'[q].on = call[q].on
    BY <1>15 DEF SelectEvent, Inv, TypeOK, Calls
  <2>2. \A v \in Waits : wait'[v].chan = wait[v].chan
    BY <1>15 DEF SelectEvent, Inv, TypeOK, WaitStates
  <2>3. /\ pc[p] = "select" /\ pc'[p] \in {"unmap", "select"}
         /\ \A q \in Procs \ {p} : pc'[q] = pc[q]
    BY <1>15, ProcAssumption DEF SelectEvent, Goto, Inv, TypeOK, Procs
  <2> QED
    BY <2>1, <2>2, <2>3, ProcAssumption
       DEF Inv, CallInv, Procs, CallerPcs, HandlerPcs
<1>16. ASSUME NEW p \in Callers, SelectEnd(p)
     PROVE  CallInv'
  <2>1. \A q \in Callers : call'[q].op = call[q].op /\ call'[q].on = call[q].on
    BY <1>16 DEF SelectEnd, Inv, TypeOK, Calls
  <2>2. \A v \in Waits : wait'[v].chan = wait[v].chan
    BY <1>16 DEF SelectEnd, Inv, TypeOK, WaitStates
  <2>3. /\ pc[p] = "select" /\ pc'[p] = "unmap"
         /\ \A q \in Procs \ {p} : pc'[q] = pc[q]
    BY <1>16, ProcAssumption DEF SelectEnd, Goto, Inv, TypeOK, Procs
  <2> QED
    BY <2>1, <2>2, <2>3, ProcAssumption
       DEF Inv, CallInv, Procs, CallerPcs, HandlerPcs
<1>17. ASSUME NEW p \in Callers, RemoveEventListener(p)
     PROVE  CallInv'
  <2>1. /\ call'[p].op = "remove" /\ call'[p].on = call[p].on
         /\ \A q \in Callers \ {p} : call'[q] = call[q]
    BY <1>17 DEF RemoveEventListener, Inv, TypeOK, Calls
  <2>2. \A v \in Waits : wait'[v].chan = wait[v].chan
    BY <1>17 DEF RemoveEventListener, Inv, TypeOK, WaitStates
  <2>3. /\ pc[p] = "unmap" /\ pc'[p] = "compose"
         /\ \A q \in Procs \ {p} : pc'[q] = pc[q]
    BY <1>17, ProcAssumption DEF RemoveEventListener, Goto, Inv, TypeOK, Procs
  <2> QED
    BY <2>1, <2>2, <2>3, ProcAssumption
       DEF Inv, CallInv, Procs, CallerPcs, HandlerPcs
<1>18. ASSUME NEW p \in Callers, CloseChan(p)
     PROVE  CallInv'
  <2> DEFINE w == call[p].on
  <2>1. /\ call'[p].op = "none" /\ call'[p].on = NoProc
        /\ \A q \in Callers \ {p} : call'[q] = call[q]
    BY <1>18 DEF CloseChan, NoCall, Inv, TypeOK
  <2>2. pc[p] = "close" /\ w \in Waits
    BY <1>18 DEF CloseChan, Goto, Inv, CallInv
  <2>3. /\ wait'[w].chan = "closed"
        /\ \A v \in Waits \ {w} : wait'[v] = wait[v]
    BY <1>18, <2>2 DEF CloseChan, NewWait, Inv, TypeOK
  <2>4. pc'[p] = "idle" /\ \A q \in Procs \ {p} : pc'[q] = pc[q]
    BY <1>18 DEF CloseChan, Goto, Inv, TypeOK, Procs
  <2> QED
    BY <2>1, <2>2, <2>3, <2>4, ProcAssumption
       DEF Inv, CallInv, Procs, CallerPcs, HandlerPcs
<1>19. ASSUME NEW p \in Procs, ReadEvent(p)
     PROVE  CallInv'
  <2>1. UNCHANGED <<call, wait>>
    BY <1>19 DEF ReadEvent
  <2>2. /\ pc[p] \in {"read", "peek"} /\ pc'[p] = "relay"
         /\ \A q \in Procs \ {p} : pc'[q] = pc[q]
    BY <1>19, ProcAssumption DEF ReadEvent, Goto, Inv, TypeOK, Procs
  <2> QED
    BY <2>1, <2>2, ProcAssumption
       DEF Inv, CallInv, Procs, CallerPcs, HandlerPcs
<1>20. ASSUME NEW p \in Procs, Send(p)
     PROVE  CallInv'
  <2>1. \A q \in Callers : call'[q].op = call[q].op /\ call'[q].on = call[q].on
    BY <1>20 DEF Send, Inv, TypeOK, Calls
  <2>2. \A v \in Waits : wait'[v].chan = wait[v].chan
    BY <1>20 DEF Send, Inv, TypeOK, WaitStates
  <2>3. /\ pc[p] = "relay" /\ pc'[p] = "relay"
         /\ \A q \in Procs \ {p} : pc'[q] = pc[q]
    BY <1>20, ProcAssumption DEF Send, Goto, Inv, TypeOK, Procs
  <2> QED
    BY <2>1, <2>2, <2>3, ProcAssumption
       DEF Inv, CallInv, Procs, CallerPcs, HandlerPcs
<1>21. ASSUME NEW p \in Procs, SendPanics(p)
     PROVE  CallInv'
  <2>1. UNCHANGED <<call, wait>>
    BY <1>21 DEF SendPanics
  <2>2. /\ pc[p] = "relay" /\ pc'[p] = "relay"
         /\ \A q \in Procs \ {p} : pc'[q] = pc[q]
    BY <1>21, ProcAssumption DEF SendPanics, Goto, Inv, TypeOK, Procs
  <2> QED
    BY <2>1, <2>2, ProcAssumption
       DEF Inv, CallInv, Procs, CallerPcs, HandlerPcs
<1>22. ASSUME NEW p \in Procs, EndRelay(p)
     PROVE  CallInv'
  <2>1. \A q \in Callers : call'[q].op = call[q].op /\ call'[q].on = call[q].on
    BY <1>22 DEF EndRelay, Inv, TypeOK, Calls
  <2>2. \A v \in Waits : wait'[v].chan = wait[v].chan
    BY <1>22 DEF EndRelay, Inv, TypeOK, WaitStates
  <2>3. /\ pc[p] = "relay" /\ pc'[p] = (IF p \in Callers THEN "read" ELSE "loop")
         /\ \A q \in Procs \ {p} : pc'[q] = pc[q]
    BY <1>22, ProcAssumption DEF EndRelay, Goto, Inv, TypeOK, Procs
  <2> QED
    BY <2>1, <2>2, <2>3, ProcAssumption
       DEF Inv, CallInv, Procs, CallerPcs, HandlerPcs
<1>23. ASSUME NEW w \in Waits, HandleEvents(w)
     PROVE  CallInv'
  <2>1. UNCHANGED <<call, wait>>
    BY <1>23 DEF HandleEvents
  <2>2. /\ pc[w] = "loop" /\ pc'[w] \in {"done", "lock"}
         /\ \A q \in Procs \ {w} : pc'[q] = pc[q]
    BY <1>23, ProcAssumption DEF HandleEvents, Goto, Inv, TypeOK, Procs
  <2> QED
    BY <2>1, <2>2, ProcAssumption
       DEF Inv, CallInv, Procs, CallerPcs, HandlerPcs
<1>24. ASSUME NEW w \in Waits, PeekReply(w)
     PROVE  CallInv'
  <2>1. UNCHANGED <<call, wait>>
    BY <1>24 DEF PeekReply
  <2>2. /\ pc[w] = "peek" /\ pc'[w] = "loop"
         /\ \A q \in Procs \ {w} : pc'[q] = pc[q]
    BY <1>24, ProcAssumption DEF PeekReply, Goto, Inv, TypeOK, Procs
  <2> QED
    BY <2>1, <2>2, ProcAssumption
       DEF Inv, CallInv, Procs, CallerPcs, HandlerPcs
<1>25. ASSUME NEW w \in Waits, PeekFails(w)
     PROVE  CallInv'
  <2>1. \A q \in Callers : call'[q].op = call[q].op /\ call'[q].on = call[q].on
    BY <1>25 DEF PeekFails, Inv, TypeOK, Calls
  <2>2. \A v \in Waits : wait'[v].chan = wait[v].chan
    BY <1>25 DEF PeekFails, Inv, TypeOK, WaitStates
  <2>3. /\ pc[w] = "peek" /\ pc'[w] = "done"
         /\ \A q \in Procs \ {w} : pc'[q] = pc[q]
    BY <1>25, ProcAssumption DEF PeekFails, Goto, Inv, TypeOK, Procs
  <2> QED
    BY <2>1, <2>2, <2>3, ProcAssumption
       DEF Inv, CallInv, Procs, CallerPcs, HandlerPcs
<1>26. ASSUME NEW w \in Waits, LockForEvent(w)
     PROVE  CallInv'
  <2>1. UNCHANGED <<call, wait>>
    BY <1>26 DEF LockForEvent
  <2>2. /\ pc[w] = "lock" /\ pc'[w] = "peek"
         /\ \A q \in Procs \ {w} : pc'[q] = pc[q]
    BY <1>26, ProcAssumption DEF LockForEvent, Goto, Inv, TypeOK, Procs
  <2> QED
    BY <2>1, <2>2, ProcAssumption
       DEF Inv, CallInv, Procs, CallerPcs, HandlerPcs
<1>27. ASSUME NEW w \in Waits, CtxDone(w)
     PROVE  CallInv'
  <2>1. UNCHANGED <<call, pc>> /\ \A v \in Waits : wait'[v].chan = wait[v].chan
    BY <1>27 DEF CtxDone, Inv, TypeOK, WaitStates
  <2> QED
    BY <2>1 DEF Inv, CallInv
<1>28. ASSUME AnswerRequest
     PROVE  CallInv'
  BY <1>28 DEF AnswerRequest, Answer, TorRuns, Inv, CallInv
<1>29. ASSUME NEW o \in {"add", "remove"}, AnswerSetEvents(o)
     PROVE  CallInv'
  BY <1>29 DEF AnswerSetEvents, Answer, TorRuns, Inv, CallInv
<1>30. ASSUME AnswerQuit
     PROVE  CallInv'
  BY <1>30 DEF AnswerQuit, Answer, TorRuns, Inv, CallInv
<1>31. ASSUME NEW c \in Codes, Emit(c)
     PROVE  CallInv'
  BY <1>31 DEF Emit, TorRuns, Inv, CallInv
<1>32. ASSUME TorExits
     PROVE  CallInv'
  BY <1>32 DEF TorExits, TorRuns, Inv, CallInv
<1>33. CASE UNCHANGED vars
  BY <1>33 DEF Inv, CallInv, vars
<1> QED
  BY <1>1, <1>2, <1>3, <1>4, <1>5, <1>6, <1>7, <1>8, <1>9, <1>10, <1>11, <1>12,
     <1>13, <1>14, <1>15, <1>16, <1>17, <1>18, <1>19, <1>20, <1>21, <1>22,
     <1>23, <1>24, <1>25, <1>26, <1>27, <1>28, <1>29, <1>30, <1>31, <1>32, <1>33
     DEF Next, Call, SendRequest, Relay, Return, Wait, Handler, Tor, Quiescent,
         Procs

----------------------------------------------------------------------------
(* readLock *)

LEMMA LockStep ==
  ASSUME Inv, [Next]_vars
  PROVE  LockInv'
<1>1. ASSUME NEW p \in Callers, NEW o \in {"request", "quit"}, Request(p, o)
     PROVE  LockInv'
  BY <1>1, ProcAssumption
  DEF Request, Inv, TypeOK, LockInv, Goto, Holding, Procs, pipe
<1>2. ASSUME NEW p \in Callers, NEW w \in Waits, NEW K \in WaitSets,
             EventWait(p, w, K)
     PROVE  LockInv'
  BY <1>2, ProcAssumption
  DEF EventWait, Inv, TypeOK, LockInv, Goto, Holding, Procs, pipe
<1>3. ASSUME NEW p \in Callers, Cmd(p)
     PROVE  LockInv'
  BY <1>3, ProcAssumption
  DEF Cmd, Inv, TypeOK, LockInv, Goto, Holding, Procs, pipe
<1>4. ASSUME NEW p \in Callers, CmdFails(p)
     PROVE  LockInv'
  BY <1>4, ProcAssumption
  DEF CmdFails, Inv, TypeOK, LockInv, Goto, Holding, Procs, pipe
<1>5. ASSUME NEW p \in Callers, StartResponse(p)
     PROVE  LockInv'
  BY <1>5, ProcAssumption
  DEF StartResponse, Inv, TypeOK, LockInv, Goto, Holding, Procs, pipe
<1>6. ASSUME NEW p \in Callers, ReadReply(p)
     PROVE  LockInv'
  BY <1>6, ProcAssumption
  DEF ReadReply, Inv, TypeOK, LockInv, Goto, Holding, Procs, pipe,
      FinishResponse, Received, Disconnected
<1>7. ASSUME NEW p \in Callers, ReadFails(p)
     PROVE  LockInv'
  BY <1>7, ProcAssumption
  DEF ReadFails, Inv, TypeOK, LockInv, Goto, Holding, Procs, pipe,
      FinishResponse, Received, Disconnected
<1>8. ASSUME NEW p \in Callers, LockForResponse(p)
     PROVE  LockInv'
  BY <1>8, ProcAssumption
  DEF LockForResponse, Inv, TypeOK, LockInv, Goto, Holding, Procs, pipe, Lock
<1>9. ASSUME NEW p \in Callers, ReturnRequest(p)
     PROVE  LockInv'
  BY <1>9, ProcAssumption
  DEF ReturnRequest, Inv, TypeOK, LockInv, Goto, Holding, Procs, pipe, Returned
<1>10. ASSUME NEW p \in Callers, Close(p)
     PROVE  LockInv'
  BY <1>10, ProcAssumption
  DEF Close, Inv, TypeOK, LockInv, Goto, Holding, Procs, pipe, Returned
<1>11. ASSUME NEW p \in Callers, StartHandler(p)
     PROVE  LockInv'
  BY <1>11, ProcAssumption
  DEF StartHandler, Inv, TypeOK, LockInv, Goto, Holding, Procs, pipe, Returned,
      CallInv, Ops
<1>12. ASSUME NEW p \in Callers, RollBack(p)
     PROVE  LockInv'
  BY <1>12, ProcAssumption
  DEF RollBack, Inv, TypeOK, LockInv, Goto, Holding, Procs, pipe, Returned
<1>13. ASSUME NEW p \in Callers, ReturnRemove(p)
     PROVE  LockInv'
  BY <1>13, ProcAssumption
  DEF ReturnRemove, Inv, TypeOK, LockInv, Goto, Holding, Procs, pipe, Returned
<1>14. ASSUME NEW p \in Callers, ComposeSetEvents(p)
     PROVE  LockInv'
  BY <1>14, ProcAssumption
  DEF ComposeSetEvents, Inv, TypeOK, LockInv, Goto, Holding, Procs, pipe
<1>15. ASSUME NEW p \in Callers, SelectEvent(p)
     PROVE  LockInv'
  BY <1>15, ProcAssumption
  DEF SelectEvent, Inv, TypeOK, LockInv, Goto, Holding, Procs, pipe
<1>16. ASSUME NEW p \in Callers, SelectEnd(p)
     PROVE  LockInv'
  BY <1>16, ProcAssumption
  DEF SelectEnd, Inv, TypeOK, LockInv, Goto, Holding, Procs, pipe
<1>17. ASSUME NEW p \in Callers, RemoveEventListener(p)
     PROVE  LockInv'
  BY <1>17, ProcAssumption
  DEF RemoveEventListener, Inv, TypeOK, LockInv, Goto, Holding, Procs, pipe
<1>18. ASSUME NEW p \in Callers, CloseChan(p)
     PROVE  LockInv'
  BY <1>18, ProcAssumption
  DEF CloseChan, Inv, TypeOK, LockInv, Goto, Holding, Procs, pipe
<1>19. ASSUME NEW p \in Procs, ReadEvent(p)
     PROVE  LockInv'
  BY <1>19, ProcAssumption
  DEF ReadEvent, Inv, TypeOK, LockInv, Goto, Holding, Procs, pipe, Received
<1>20. ASSUME NEW p \in Procs, Send(p)
     PROVE  LockInv'
  BY <1>20, ProcAssumption
  DEF Send, Inv, TypeOK, LockInv, Goto, Holding, Procs, pipe
<1>21. ASSUME NEW p \in Procs, SendPanics(p)
     PROVE  LockInv'
  BY <1>21, ProcAssumption
  DEF SendPanics, Inv, TypeOK, LockInv, Goto, Holding, Procs, pipe
<1>22. ASSUME NEW p \in Procs, EndRelay(p)
     PROVE  LockInv'
  BY <1>22, ProcAssumption
  DEF EndRelay, Inv, TypeOK, LockInv, Goto, Holding, Procs, pipe, Unlock
<1>23. ASSUME NEW w \in Waits, HandleEvents(w)
     PROVE  LockInv'
  BY <1>23, ProcAssumption
  DEF HandleEvents, Inv, TypeOK, LockInv, Goto, Holding, Procs, pipe
<1>24. ASSUME NEW w \in Waits, PeekReply(w)
     PROVE  LockInv'
  BY <1>24, ProcAssumption
  DEF PeekReply, Inv, TypeOK, LockInv, Goto, Holding, Procs, pipe, Unlock
<1>25. ASSUME NEW w \in Waits, PeekFails(w)
     PROVE  LockInv'
  BY <1>25, ProcAssumption
  DEF PeekFails, Inv, TypeOK, LockInv, Goto, Holding, Procs, pipe, Unlock
<1>26. ASSUME NEW w \in Waits, LockForEvent(w)
     PROVE  LockInv'
  BY <1>26, ProcAssumption
  DEF LockForEvent, Inv, TypeOK, LockInv, Goto, Holding, Procs, pipe, Lock
<1>27. ASSUME NEW w \in Waits, CtxDone(w)
     PROVE  LockInv'
  BY <1>27, ProcAssumption
  DEF CtxDone, Inv, TypeOK, LockInv, Goto, Holding, Procs, pipe
<1>28. ASSUME AnswerRequest
     PROVE  LockInv'
  BY <1>28, ProcAssumption
  DEF AnswerRequest, Inv, TypeOK, LockInv, Goto, Holding, Procs, pipe, Answer,
      TorRuns
<1>29. ASSUME NEW o \in {"add", "remove"}, AnswerSetEvents(o)
     PROVE  LockInv'
  BY <1>29, ProcAssumption
  DEF AnswerSetEvents, Inv, TypeOK, LockInv, Goto, Holding, Procs, pipe, Answer,
      TorRuns
<1>30. ASSUME AnswerQuit
     PROVE  LockInv'
  BY <1>30, ProcAssumption
  DEF AnswerQuit, Inv, TypeOK, LockInv, Goto, Holding, Procs, pipe, Answer,
      TorRuns
<1>31. ASSUME NEW c \in Codes, Emit(c)
     PROVE  LockInv'
  BY <1>31, ProcAssumption
  DEF Emit, Inv, TypeOK, LockInv, Goto, Holding, Procs, pipe, TorRuns
<1>32. ASSUME TorExits
     PROVE  LockInv'
  BY <1>32, ProcAssumption
  DEF TorExits, Inv, TypeOK, LockInv, Goto, Holding, Procs, pipe, TorRuns
<1>33. CASE UNCHANGED vars
  BY <1>33 DEF Inv, TypeOK, LockInv, Goto, Holding, Procs, pipe, vars
<1> QED
  BY <1>1, <1>2, <1>3, <1>4, <1>5, <1>6, <1>7, <1>8, <1>9, <1>10, <1>11, <1>12,
     <1>13, <1>14, <1>15, <1>16, <1>17, <1>18, <1>19, <1>20, <1>21, <1>22,
     <1>23, <1>24, <1>25, <1>26, <1>27, <1>28, <1>29, <1>30, <1>31, <1>32, <1>33
     DEF Next, Call, SendRequest, Relay, Return, Wait, Handler, Tor, Quiescent,
         Procs

----------------------------------------------------------------------------
(* The listener map *)

\* A step that adds no listener and ends no ownership keeps MapInv.
LEMMA MapFrame ==
  ASSUME Inv,
         listeners' = listeners,
         \A w \in Waits : wait'[w].codes = wait[w].codes,
         \A p \in Callers, w \in Waits : Owns(p, w) => Owns(p, w)'
  PROVE  MapInv'
BY DEF Inv, MapInv

\* An event's list does not hold a channel nobody owns.
LEMMA OwnedOnly ==
  ASSUME Inv, NEW w \in Waits, \A p \in Callers : ~Owns(p, w)
  PROVE  \A k \in Keys : ~Contains(listeners[k], w)
BY DEF Inv, MapInv

\* removeEventListenerFromMap, called for the channel of an EventWait.
LEMMA MapRemove ==
  ASSUME Inv, NEW p \in Callers, NEW w \in Waits,
         call[p].on = w, listeners' = WithoutListener(w, wait[w].codes),
         \A v \in Waits : wait'[v].codes = wait[v].codes,
         \A q \in Callers \ {p} : call'[q] = call[q] /\ pc'[q] = pc[q]
  PROVE  MapInv'
<1>1. ASSUME NEW k \in Keys
      PROVE  /\ \A v \in Waits : Once(listeners'[k], v)
             /\ \A v \in Waits :
                  Contains(listeners'[k], v) => Contains(listeners[k], v)
             /\ ~Contains(listeners'[k], w)
  <2>1. listeners[k] \in Seq(Waits) /\ Once(listeners[k], w)
    BY DEF Inv, TypeOK, MapInv
  <2>2. \A v \in Waits : Once(listeners[k], v)
    BY DEF Inv, MapInv
  <2>3. CASE k \in wait[w].codes
    <3>1. listeners'[k] = RemoveFirst(listeners[k], w)
      BY <2>3 DEF WithoutListener
    <3> QED
      BY <2>1, <2>2, <3>1, RemoveFirstProperties
  <2>4. CASE k \notin wait[w].codes
    <3>1. listeners'[k] = listeners[k]
      BY <2>4 DEF WithoutListener
    <3>2. ~Contains(listeners[k], w)
      BY <2>4 DEF Inv, MapInv
    <3> QED
      BY <2>2, <3>1, <3>2
  <2> QED
    BY <2>3, <2>4
<1>2. ASSUME NEW v \in Waits, v # w, NEW q \in Callers, Owns(q, v)
      PROVE  Owns(q, v)'
  BY <1>2 DEF Owns
<1>3. ASSUME NEW k \in Keys, NEW v \in Waits, Contains(listeners'[k], v)
      PROVE  /\ k \in wait'[v].codes
             /\ \E q \in Callers : Owns(q, v)'
  <2>1. v # w /\ Contains(listeners[k], v)
    BY <1>1, <1>3
  <2>2. k \in wait[v].codes /\ \E q \in Callers : Owns(q, v)
    BY <2>1 DEF Inv, MapInv
  <2> QED
    BY <2>1, <2>2, <1>2
<1> QED
  BY <1>1, <1>3 DEF MapInv

LEMMA MapStep ==
  ASSUME Inv, [Next]_vars
  PROVE  MapInv'
<1>1. ASSUME NEW p \in Callers, NEW o \in {"request", "quit"}, Request(p, o)
     PROVE  MapInv'
  <2>1. listeners' = listeners
    BY <1>1 DEF Request
  <2>2. \A v \in Waits : wait'[v].codes = wait[v].codes
    BY <1>1 DEF Request, Inv, TypeOK, WaitStates
  <2>3. \A q \in Callers, v \in Waits : Owns(q, v) => Owns(q, v)'
    BY <1>1, ProcAssumption
    DEF Request, Owns, Goto, Inv, TypeOK, Procs, Calls, CallInv
  <2> QED
    BY <2>1, <2>2, <2>3, MapFrame
<1>2. ASSUME NEW p \in Callers, NEW w \in Waits, NEW K \in WaitSets,
             EventWait(p, w, K)
     PROVE  MapInv'
  <2>1. /\ wait[w].chan = "new" /\ wait'[w].codes = K /\ K \subseteq Keys
        /\ \A v \in Waits \ {w} : wait'[v] = wait[v]
    BY <1>2, CodeAssumption DEF EventWait, Inv, TypeOK, WaitStates
  <2>2. /\ Owns(p, w)'
        /\ \A q \in Callers \ {p} : call'[q] = call[q] /\ pc'[q] = pc[q]
        /\ \A v \in Waits : ~Owns(p, v)
    BY <1>2 DEF EventWait, Goto, Owns, Inv, TypeOK, CallInv, Procs, Calls
  <2>3. \A q \in Callers : ~Owns(q, w)
    BY <2>1 DEF Owns, Inv, CallInv
  <2>4. \A k \in Keys : ~Contains(listeners[k], w)
    BY <2>3, OwnedOnly
  <2>5. \A q \in Callers, v \in Waits : Owns(q, v) => Owns(q, v)'
    BY <2>2 DEF Owns
  <2>6. ASSUME NEW k \in Keys, NEW v \in Waits
        PROVE  /\ Once(listeners'[k], v)
               /\ Contains(listeners'[k], v) =>
                    k \in wait'[v].codes /\ \E q \in Callers : Owns(q, v)'
    <3>1. /\ listeners[k] \in Seq(Waits) /\ Once(listeners[k], v)
          /\ Contains(listeners[k], v) =>
               k \in wait[v].codes /\ \E q \in Callers : Owns(q, v)
      BY DEF Inv, TypeOK, MapInv
    <3>2. CASE k \in K
      <4>1. listeners'[k] = Append(listeners[k], w)
        BY <1>2, <3>2 DEF EventWait, WithListener
      <4>2. /\ Len(listeners'[k]) = Len(listeners[k]) + 1
            /\ listeners'[k][Len(listeners[k]) + 1] = w
            /\ \A i \in 1..Len(listeners[k]) : listeners'[k][i] = listeners[k][i]
        BY <3>1, <4>1, AppendProperties
      <4>3. Contains(listeners'[k], v) => v = w \/ Contains(listeners[k], v)
        BY <3>1, <4>2 DEF Contains
      <4>4. Once(listeners'[k], v)
        <5>1. \A i \in 1..Len(listeners[k]) : listeners[k][i] # w
          BY <2>4 DEF Contains
        <5>2. \A i \in 1..Len(listeners[k])+1 :
                i \in 1..Len(listeners[k]) \/ i = Len(listeners[k]) + 1
          BY <3>1
        <5> QED
          BY <3>1, <4>2, <5>1, <5>2 DEF Once
      <4> QED
        BY <2>1, <2>2, <2>4, <2>5, <3>1, <3>2, <4>3, <4>4
    <3>3. CASE k \notin K
      <4>1. listeners'[k] = listeners[k]
        BY <1>2, <3>3 DEF EventWait, WithListener
      <4> QED
        BY <2>1, <2>4, <2>5, <3>1, <4>1
    <3> QED
      BY <3>2, <3>3
  <2> QED
    BY <2>6 DEF MapInv
<1>3. ASSUME NEW p \in Callers, Cmd(p)
     PROVE  MapInv'
  <2>1. listeners' = listeners
    BY <1>3 DEF Cmd
  <2>2. \A v \in Waits : wait'[v].codes = wait[v].codes
    BY <1>3 DEF Cmd, Inv, TypeOK, WaitStates
  <2>3. \A q \in Callers, v \in Waits : Owns(q, v) => Owns(q, v)'
    BY <1>3, ProcAssumption DEF Cmd, Owns, Goto, Inv, TypeOK, Procs, Calls
  <2> QED
    BY <2>1, <2>2, <2>3, MapFrame
<1>4. ASSUME NEW p \in Callers, CmdFails(p)
     PROVE  MapInv'
  <2>1. listeners' = listeners
    BY <1>4 DEF CmdFails
  <2>2. \A v \in Waits : wait'[v].codes = wait[v].codes
    BY <1>4 DEF CmdFails, Inv, TypeOK, WaitStates
  <2>3. \A q \in Callers, v \in Waits : Owns(q, v) => Owns(q, v)'
    BY <1>4, ProcAssumption DEF CmdFails, Owns, Goto, Inv, TypeOK, Procs, Calls
  <2> QED
    BY <2>1, <2>2, <2>3, MapFrame
<1>5. ASSUME NEW p \in Callers, StartResponse(p)
     PROVE  MapInv'
  <2>1. listeners' = listeners
    BY <1>5 DEF StartResponse
  <2>2. \A v \in Waits : wait'[v].codes = wait[v].codes
    BY <1>5 DEF StartResponse, Inv, TypeOK, WaitStates
  <2>3. \A q \in Callers, v \in Waits : Owns(q, v) => Owns(q, v)'
    BY <1>5, ProcAssumption
    DEF StartResponse, Owns, Goto, Inv, TypeOK, Procs, Calls
  <2> QED
    BY <2>1, <2>2, <2>3, MapFrame
<1>6. ASSUME NEW p \in Callers, ReadReply(p)
     PROVE  MapInv'
  <2>1. listeners' = listeners
    BY <1>6 DEF ReadReply, FinishResponse
  <2>2. \A v \in Waits : wait'[v].codes = wait[v].codes
    BY <1>6 DEF ReadReply, FinishResponse, Inv, TypeOK, WaitStates
  <2>3. \A q \in Callers, v \in Waits : Owns(q, v) => Owns(q, v)'
    BY <1>6, ProcAssumption
    DEF ReadReply, FinishResponse, Owns, Goto, Inv, TypeOK, Procs, Calls
  <2> QED
    BY <2>1, <2>2, <2>3, MapFrame
<1>7. ASSUME NEW p \in Callers, ReadFails(p)
     PROVE  MapInv'
  <2>1. listeners' = listeners
    BY <1>7 DEF ReadFails, FinishResponse
  <2>2. \A v \in Waits : wait'[v].codes = wait[v].codes
    BY <1>7 DEF ReadFails, FinishResponse, Inv, TypeOK, WaitStates
  <2>3. \A q \in Callers, v \in Waits : Owns(q, v) => Owns(q, v)'
    BY <1>7, ProcAssumption
    DEF ReadFails, FinishResponse, Owns, Goto, Inv, TypeOK, Procs, Calls
  <2> QED
    BY <2>1, <2>2, <2>3, MapFrame
<1>8. ASSUME NEW p \in Callers, LockForResponse(p)
     PROVE  MapInv'
  <2>1. listeners' = listeners
    BY <1>8 DEF LockForResponse
  <2>2. \A v \in Waits : wait'[v].codes = wait[v].codes
    BY <1>8 DEF LockForResponse, Inv, TypeOK, WaitStates
  <2>3. \A q \in Callers, v \in Waits : Owns(q, v) => Owns(q, v)'
    BY <1>8, ProcAssumption
    DEF LockForResponse, Owns, Goto, Inv, TypeOK, Procs, Calls
  <2> QED
    BY <2>1, <2>2, <2>3, MapFrame
<1>9. ASSUME NEW p \in Callers, ReturnRequest(p)
     PROVE  MapInv'
  <2>1. listeners' = listeners
    BY <1>9 DEF ReturnRequest, Returned
  <2>2. \A v \in Waits : wait'[v].codes = wait[v].codes
    BY <1>9 DEF ReturnRequest, Returned, Inv, TypeOK, WaitStates
  <2>3. \A q \in Callers, v \in Waits : Owns(q, v) => Owns(q, v)'
    BY <1>9, ProcAssumption
    DEF ReturnRequest, Returned, Owns, Goto, Inv, TypeOK, Procs, Calls, CallInv
  <2> QED
    BY <2>1, <2>2, <2>3, MapFrame
<1>10. ASSUME NEW p \in Callers, Close(p)
     PROVE  MapInv'
  <2>1. listeners' = listeners
    BY <1>10 DEF Close, Returned
  <2>2. \A v \in Waits : wait'[v].codes = wait[v].codes
    BY <1>10 DEF Close, Returned, Inv, TypeOK, WaitStates
  <2>3. \A q \in Callers, v \in Waits : Owns(q, v) => Owns(q, v)'
    BY <1>10, ProcAssumption
    DEF Close, Returned, Owns, Goto, Inv, TypeOK, Procs, Calls, CallInv
  <2> QED
    BY <2>1, <2>2, <2>3, MapFrame
<1>11. ASSUME NEW p \in Callers, StartHandler(p)
     PROVE  MapInv'
  <2>1. listeners' = listeners
    BY <1>11 DEF StartHandler, Returned
  <2>2. \A v \in Waits : wait'[v].codes = wait[v].codes
    BY <1>11 DEF StartHandler, Returned, Inv, TypeOK, WaitStates
  <2>3. \A q \in Callers, v \in Waits : Owns(q, v) => Owns(q, v)'
    <3>1. pc[p] = "return" /\ pc'[p] = "select"
      BY <1>11, ProcAssumption
         DEF StartHandler, Returned, Inv, TypeOK, CallInv, Ops, Procs
    <3>2. \A q \in Callers \ {p} : pc'[q] = pc[q]
      BY <1>11, ProcAssumption
         DEF StartHandler, Returned, Inv, TypeOK, CallInv, Ops, Procs
    <3>3. \A q \in Callers :
            call'[q].op = call[q].op /\ call'[q].on = call[q].on
      BY <1>11 DEF StartHandler, Inv, TypeOK, Calls
    <3> QED
      BY <3>1, <3>2, <3>3 DEF Owns
  <2> QED
    BY <2>1, <2>2, <2>3, MapFrame
<1>12. ASSUME NEW p \in Callers, RollBack(p)
     PROVE  MapInv'
  <2> DEFINE w == call[p].on
  <2>1. w \in Waits
    BY <1>12 DEF RollBack, Returned, Goto, Inv, CallInv
  <2>2. listeners' = WithoutListener(w, wait[w].codes)
    BY <1>12 DEF RollBack
  <2>3. \A v \in Waits : wait'[v].codes = wait[v].codes
    BY <1>12 DEF RollBack
  <2>4. \A q \in Callers \ {p} : call'[q] = call[q] /\ pc'[q] = pc[q]
    BY <1>12 DEF RollBack, Goto, Inv, TypeOK, Procs
  <2> QED
    BY <2>1, <2>2, <2>3, <2>4, MapRemove
<1>13. ASSUME NEW p \in Callers, ReturnRemove(p)
     PROVE  MapInv'
  <2>1. listeners' = listeners
    BY <1>13 DEF ReturnRemove, Returned
  <2>2. \A v \in Waits : wait'[v].codes = wait[v].codes
    BY <1>13 DEF ReturnRemove, Returned, Inv, TypeOK, WaitStates
  <2>3. \A q \in Callers, v \in Waits : Owns(q, v) => Owns(q, v)'
    BY <1>13, ProcAssumption
    DEF ReturnRemove, Returned, Owns, Goto, Inv, TypeOK, Procs, Calls, CallInv
  <2> QED
    BY <2>1, <2>2, <2>3, MapFrame
<1>14. ASSUME NEW p \in Callers, ComposeSetEvents(p)
     PROVE  MapInv'
  <2>1. listeners' = listeners
    BY <1>14 DEF ComposeSetEvents
  <2>2. \A v \in Waits : wait'[v].codes = wait[v].codes
    BY <1>14 DEF ComposeSetEvents, Inv, TypeOK, WaitStates
  <2>3. \A q \in Callers, v \in Waits : Owns(q, v) => Owns(q, v)'
    BY <1>14, ProcAssumption
    DEF ComposeSetEvents, Owns, Goto, Inv, TypeOK, Procs, Calls
  <2> QED
    BY <2>1, <2>2, <2>3, MapFrame
<1>15. ASSUME NEW p \in Callers, SelectEvent(p)
     PROVE  MapInv'
  <2>1. listeners' = listeners
    BY <1>15 DEF SelectEvent
  <2>2. \A v \in Waits : wait'[v].codes = wait[v].codes
    BY <1>15 DEF SelectEvent, Inv, TypeOK, WaitStates
  <2>3. \A q \in Callers, v \in Waits : Owns(q, v) => Owns(q, v)'
    BY <1>15, ProcAssumption
    DEF SelectEvent, Owns, Goto, Inv, TypeOK, Procs, Calls
  <2> QED
    BY <2>1, <2>2, <2>3, MapFrame
<1>16. ASSUME NEW p \in Callers, SelectEnd(p)
     PROVE  MapInv'
  <2>1. listeners' = listeners
    BY <1>16 DEF SelectEnd
  <2>2. \A v \in Waits : wait'[v].codes = wait[v].codes
    BY <1>16 DEF SelectEnd, Inv, TypeOK, WaitStates
  <2>3. \A q \in Callers, v \in Waits : Owns(q, v) => Owns(q, v)'
    BY <1>16, ProcAssumption
    DEF SelectEnd, Owns, Goto, Inv, TypeOK, Procs, Calls
  <2> QED
    BY <2>1, <2>2, <2>3, MapFrame
<1>17. ASSUME NEW p \in Callers, RemoveEventListener(p)
     PROVE  MapInv'
  <2> DEFINE w == call[p].on
  <2>1. w \in Waits
    BY <1>17 DEF RemoveEventListener, Goto, Inv, CallInv
  <2>2. listeners' = WithoutListener(w, wait[w].codes)
    BY <1>17 DEF RemoveEventListener
  <2>3. \A v \in Waits : wait'[v].codes = wait[v].codes
    BY <1>17 DEF RemoveEventListener
  <2>4. \A q \in Callers \ {p} : call'[q] = call[q] /\ pc'[q] = pc[q]
    BY <1>17 DEF RemoveEventListener, Goto, Inv, TypeOK, Procs
  <2> QED
    BY <2>1, <2>2, <2>3, <2>4, MapRemove
<1>18. ASSUME NEW p \in Callers, CloseChan(p)
     PROVE  MapInv'
  <2> DEFINE w == call[p].on
  <2>1. w \in Waits /\ pc[p] = "close"
    BY <1>18 DEF CloseChan, Goto, Inv, CallInv
  <2>2. listeners' = listeners /\ \A v \in Waits \ {w} : wait'[v] = wait[v]
    BY <1>18 DEF CloseChan, Inv, TypeOK
  <2>3. \A q \in Callers \ {p} : call'[q] = call[q] /\ pc'[q] = pc[q]
    BY <1>18 DEF CloseChan, Goto, Inv, TypeOK, Procs
  <2>4. \A q \in Callers : ~Owns(q, w)
    BY <2>1 DEF Owns, Inv, CallInv
  <2>5. \A k \in Keys : ~Contains(listeners[k], w)
    BY <2>1, <2>4, OwnedOnly
  <2>6. \A q \in Callers, v \in Waits \ {w} : Owns(q, v) => Owns(q, v)'
    BY <2>3 DEF Owns
  <2> QED
    BY <2>1, <2>2, <2>5, <2>6 DEF Inv, MapInv
<1>19. ASSUME NEW p \in Procs, ReadEvent(p)
     PROVE  MapInv'
  <2>1. listeners' = listeners
    BY <1>19 DEF ReadEvent
  <2>2. \A v \in Waits : wait'[v].codes = wait[v].codes
    BY <1>19 DEF ReadEvent, Inv, TypeOK, WaitStates
  <2>3. \A q \in Callers, v \in Waits : Owns(q, v) => Owns(q, v)'
    BY <1>19, ProcAssumption
    DEF ReadEvent, Owns, Goto, Inv, TypeOK, Procs, Calls
  <2> QED
    BY <2>1, <2>2, <2>3, MapFrame
<1>20. ASSUME NEW p \in Procs, Send(p)
     PROVE  MapInv'
  <2>1. listeners' = listeners
    BY <1>20 DEF Send
  <2>2. \A v \in Waits : wait'[v].codes = wait[v].codes
    BY <1>20 DEF Send, Inv, TypeOK, WaitStates
  <2>3. \A q \in Callers, v \in Waits : Owns(q, v) => Owns(q, v)'
    BY <1>20, ProcAssumption DEF Send, Owns, Goto, Inv, TypeOK, Procs, Calls
  <2> QED
    BY <2>1, <2>2, <2>3, MapFrame
<1>21. ASSUME NEW p \in Procs, SendPanics(p)
     PROVE  MapInv'
  <2>1. listeners' = listeners
    BY <1>21 DEF SendPanics
  <2>2. \A v \in Waits : wait'[v].codes = wait[v].codes
    BY <1>21 DEF SendPanics, Inv, TypeOK, WaitStates
  <2>3. \A q \in Callers, v \in Waits : Owns(q, v) => Owns(q, v)'
    BY <1>21, ProcAssumption
    DEF SendPanics, Owns, Goto, Inv, TypeOK, Procs, Calls
  <2> QED
    BY <2>1, <2>2, <2>3, MapFrame
<1>22. ASSUME NEW p \in Procs, EndRelay(p)
     PROVE  MapInv'
  <2>1. listeners' = listeners
    BY <1>22 DEF EndRelay
  <2>2. \A v \in Waits : wait'[v].codes = wait[v].codes
    BY <1>22 DEF EndRelay, Inv, TypeOK, WaitStates
  <2>3. \A q \in Callers, v \in Waits : Owns(q, v) => Owns(q, v)'
    BY <1>22, ProcAssumption DEF EndRelay, Owns, Goto, Inv, TypeOK, Procs, Calls
  <2> QED
    BY <2>1, <2>2, <2>3, MapFrame
<1>23. ASSUME NEW w \in Waits, HandleEvents(w)
     PROVE  MapInv'
  <2>1. listeners' = listeners
    BY <1>23 DEF HandleEvents
  <2>2. \A v \in Waits : wait'[v].codes = wait[v].codes
    BY <1>23 DEF HandleEvents, Inv, TypeOK, WaitStates
  <2>3. \A q \in Callers, v \in Waits : Owns(q, v) => Owns(q, v)'
    BY <1>23, ProcAssumption
    DEF HandleEvents, Owns, Goto, Inv, TypeOK, Procs, Calls
  <2> QED
    BY <2>1, <2>2, <2>3, MapFrame
<1>24. ASSUME NEW w \in Waits, PeekReply(w)
     PROVE  MapInv'
  <2>1. listeners' = listeners
    BY <1>24 DEF PeekReply
  <2>2. \A v \in Waits : wait'[v].codes = wait[v].codes
    BY <1>24 DEF PeekReply, Inv, TypeOK, WaitStates
  <2>3. \A q \in Callers, v \in Waits : Owns(q, v) => Owns(q, v)'
    BY <1>24, ProcAssumption
    DEF PeekReply, Owns, Goto, Inv, TypeOK, Procs, Calls
  <2> QED
    BY <2>1, <2>2, <2>3, MapFrame
<1>25. ASSUME NEW w \in Waits, PeekFails(w)
     PROVE  MapInv'
  <2>1. listeners' = listeners
    BY <1>25 DEF PeekFails
  <2>2. \A v \in Waits : wait'[v].codes = wait[v].codes
    BY <1>25 DEF PeekFails, Inv, TypeOK, WaitStates
  <2>3. \A q \in Callers, v \in Waits : Owns(q, v) => Owns(q, v)'
    BY <1>25, ProcAssumption
    DEF PeekFails, Owns, Goto, Inv, TypeOK, Procs, Calls
  <2> QED
    BY <2>1, <2>2, <2>3, MapFrame
<1>26. ASSUME NEW w \in Waits, LockForEvent(w)
     PROVE  MapInv'
  <2>1. listeners' = listeners
    BY <1>26 DEF LockForEvent
  <2>2. \A v \in Waits : wait'[v].codes = wait[v].codes
    BY <1>26 DEF LockForEvent, Inv, TypeOK, WaitStates
  <2>3. \A q \in Callers, v \in Waits : Owns(q, v) => Owns(q, v)'
    BY <1>26, ProcAssumption
    DEF LockForEvent, Owns, Goto, Inv, TypeOK, Procs, Calls
  <2> QED
    BY <2>1, <2>2, <2>3, MapFrame
<1>27. ASSUME NEW w \in Waits, CtxDone(w)
     PROVE  MapInv'
  <2>1. listeners' = listeners
    BY <1>27 DEF CtxDone
  <2>2. \A v \in Waits : wait'[v].codes = wait[v].codes
    BY <1>27 DEF CtxDone, Inv, TypeOK, WaitStates
  <2>3. \A q \in Callers, v \in Waits : Owns(q, v) => Owns(q, v)'
    BY <1>27, ProcAssumption DEF CtxDone, Owns, Goto, Inv, TypeOK, Procs, Calls
  <2> QED
    BY <2>1, <2>2, <2>3, MapFrame
<1>28. ASSUME AnswerRequest
     PROVE  MapInv'
  <2>1. listeners' = listeners
    BY <1>28 DEF AnswerRequest, Answer, TorRuns
  <2>2. \A v \in Waits : wait'[v].codes = wait[v].codes
    BY <1>28 DEF AnswerRequest, Answer, TorRuns, Inv, TypeOK, WaitStates
  <2>3. \A q \in Callers, v \in Waits : Owns(q, v) => Owns(q, v)'
    BY <1>28, ProcAssumption
    DEF AnswerRequest, Answer, TorRuns, Owns, Goto, Inv, TypeOK, Procs, Calls
  <2> QED
    BY <2>1, <2>2, <2>3, MapFrame
<1>29. ASSUME NEW o \in {"add", "remove"}, AnswerSetEvents(o)
     PROVE  MapInv'
  <2>1. listeners' = listeners
    BY <1>29 DEF AnswerSetEvents, Answer, TorRuns
  <2>2. \A v \in Waits : wait'[v].codes = wait[v].codes
    BY <1>29 DEF AnswerSetEvents, Answer, TorRuns, Inv, TypeOK, WaitStates
  <2>3. \A q \in Callers, v \in Waits : Owns(q, v) => Owns(q, v)'
    BY <1>29, ProcAssumption
    DEF AnswerSetEvents, Answer, TorRuns, Owns, Goto, Inv, TypeOK, Procs, Calls
  <2> QED
    BY <2>1, <2>2, <2>3, MapFrame
<1>30. ASSUME AnswerQuit
     PROVE  MapInv'
  <2>1. listeners' = listeners
    BY <1>30 DEF AnswerQuit, Answer, TorRuns
  <2>2. \A v \in Waits : wait'[v].codes = wait[v].codes
    BY <1>30 DEF AnswerQuit, Answer, TorRuns, Inv, TypeOK, WaitStates
  <2>3. \A q \in Callers, v \in Waits : Owns(q, v) => Owns(q, v)'
    BY <1>30, ProcAssumption
    DEF AnswerQuit, Answer, TorRuns, Owns, Goto, Inv, TypeOK, Procs, Calls
  <2> QED
    BY <2>1, <2>2, <2>3, MapFrame
<1>31. ASSUME NEW c \in Codes, Emit(c)
     PROVE  MapInv'
  <2>1. listeners' = listeners
    BY <1>31 DEF Emit, TorRuns
  <2>2. \A v \in Waits : wait'[v].codes = wait[v].codes
    BY <1>31 DEF Emit, TorRuns, Inv, TypeOK, WaitStates
  <2>3. \A q \in Callers, v \in Waits : Owns(q, v) => Owns(q, v)'
    BY <1>31, ProcAssumption
    DEF Emit, TorRuns, Owns, Goto, Inv, TypeOK, Procs, Calls
  <2> QED
    BY <2>1, <2>2, <2>3, MapFrame
<1>32. ASSUME TorExits
     PROVE  MapInv'
  <2>1. listeners' = listeners
    BY <1>32 DEF TorExits, TorRuns
  <2>2. \A v \in Waits : wait'[v].codes = wait[v].codes
    BY <1>32 DEF TorExits, TorRuns, Inv, TypeOK, WaitStates
  <2>3. \A q \in Callers, v \in Waits : Owns(q, v) => Owns(q, v)'
    BY <1>32, ProcAssumption
    DEF TorExits, TorRuns, Owns, Goto, Inv, TypeOK, Procs, Calls
  <2> QED
    BY <2>1, <2>2, <2>3, MapFrame
<1>33. CASE UNCHANGED vars
  BY <1>33 DEF MapInv, Owns, pipe, tor, history, Inv, vars
<1> QED
  BY <1>1, <1>2, <1>3, <1>4, <1>5, <1>6, <1>7, <1>8, <1>9, <1>10, <1>11, <1>12,
     <1>13, <1>14, <1>15, <1>16, <1>17, <1>18, <1>19, <1>20, <1>21, <1>22,
     <1>23, <1>24, <1>25, <1>26, <1>27, <1>28, <1>29, <1>30, <1>31, <1>32, <1>33
     DEF Next, Call, SendRequest, Relay, Return, Wait, Handler, Tor, Quiescent,
         Procs

----------------------------------------------------------------------------
(* Events *)

LEMMA AnswerLog ==
  ASSUME Inv, NEW o, NEW status, Answer(o, status)
  PROVE  LogInv'
<1> DEFINE m == Reply(Head(wire).id, status)
<1>1. inbox' = Append(inbox, m) /\ log' = log
  BY DEF Answer
<1>2. m.kind = "reply"
  BY DEF Reply
<1> HIDE DEF m
<1>3. inbox \in Seq(Messages) /\ Len(inbox) \in Nat
  BY DEF Inv, TypeOK
<1>4. Len(inbox') = Len(inbox) + 1 /\ inbox'[Len(inbox) + 1] = m
  BY <1>1, <1>3
<1>5. \A i \in 1..Len(inbox) : inbox'[i] = inbox[i]
  BY <1>1, <1>3
<1> QED
  BY <1>1, <1>2, <1>3, <1>4, <1>5 DEF Inv, LogInv

LEMMA ReadLog ==
  ASSUME Inv, inbox # <<>>, inbox' = Tail(inbox), log' = log
  PROVE  LogInv'
<1>1. inbox \in Seq(Messages) /\ Len(inbox) \in Nat
  BY DEF Inv, TypeOK
<1>2. /\ Len(inbox') = Len(inbox) - 1
      /\ \A i \in 1..Len(inbox') : inbox'[i] = inbox[i+1]
  BY <1>1, HeadTailProperties
<1> QED
  BY <1>1, <1>2 DEF Inv, LogInv

LEMMA LoseLinkLog ==
  ASSUME Inv, LoseLink
  PROVE  LogInv'
<1>1. PICK n \in 0..Len(inbox) : inbox' = SubSeq(inbox, 1, n)
  BY DEF LoseLink
<1>2. inbox \in Seq(Messages) /\ Len(inbox) \in Nat
  BY DEF Inv, TypeOK
<1>3. Len(inbox') = n /\ \A i \in 1..n : inbox'[i] = inbox[i]
  BY <1>1, <1>2, SubSeqProperties
<1> QED
  BY <1>2, <1>3 DEF LoseLink, Inv, LogInv

LEMMA LogStep ==
  ASSUME Inv, [Next]_vars
  PROVE  LogInv'
<1>1. ASSUME NEW p \in Callers, NEW o \in {"request", "quit"}, Request(p, o)
     PROVE  LogInv'
  BY <1>1 DEF Request, LogInv, Inv, tor
<1>2. ASSUME NEW p \in Callers, NEW w \in Waits, NEW K \in WaitSets,
             EventWait(p, w, K)
     PROVE  LogInv'
  BY <1>2 DEF EventWait, LogInv, Inv, tor
<1>3. ASSUME NEW p \in Callers, Cmd(p)
     PROVE  LogInv'
  BY <1>3 DEF Cmd, LogInv, Inv, tor
<1>4. ASSUME NEW p \in Callers, CmdFails(p)
     PROVE  LogInv'
  BY <1>4 DEF CmdFails, LogInv, Inv, tor
<1>5. ASSUME NEW p \in Callers, StartResponse(p)
     PROVE  LogInv'
  BY <1>5 DEF StartResponse, LogInv, Inv, tor
<1>6. ASSUME NEW p \in Callers, ReadReply(p)
     PROVE  LogInv'
  BY <1>6, ReadLog DEF ReadReply, Received
<1>7. ASSUME NEW p \in Callers, ReadFails(p)
     PROVE  LogInv'
  BY <1>7 DEF ReadFails, LogInv, Inv, tor
<1>8. ASSUME NEW p \in Callers, LockForResponse(p)
     PROVE  LogInv'
  BY <1>8 DEF LockForResponse, LogInv, Inv, tor
<1>9. ASSUME NEW p \in Callers, ReturnRequest(p)
     PROVE  LogInv'
  BY <1>9 DEF ReturnRequest, LogInv, Inv, tor
<1>10. ASSUME NEW p \in Callers, Close(p)
     PROVE  LogInv'
  BY <1>10, LoseLinkLog DEF Close
<1>11. ASSUME NEW p \in Callers, StartHandler(p)
     PROVE  LogInv'
  BY <1>11 DEF StartHandler, LogInv, Inv, tor
<1>12. ASSUME NEW p \in Callers, RollBack(p)
     PROVE  LogInv'
  BY <1>12 DEF RollBack, LogInv, Inv, tor
<1>13. ASSUME NEW p \in Callers, ReturnRemove(p)
     PROVE  LogInv'
  BY <1>13 DEF ReturnRemove, LogInv, Inv, tor
<1>14. ASSUME NEW p \in Callers, ComposeSetEvents(p)
     PROVE  LogInv'
  BY <1>14 DEF ComposeSetEvents, LogInv, Inv, tor
<1>15. ASSUME NEW p \in Callers, SelectEvent(p)
     PROVE  LogInv'
  BY <1>15 DEF SelectEvent, LogInv, Inv, tor
<1>16. ASSUME NEW p \in Callers, SelectEnd(p)
     PROVE  LogInv'
  BY <1>16 DEF SelectEnd, LogInv, Inv, tor
<1>17. ASSUME NEW p \in Callers, RemoveEventListener(p)
     PROVE  LogInv'
  BY <1>17 DEF RemoveEventListener, LogInv, Inv, tor
<1>18. ASSUME NEW p \in Callers, CloseChan(p)
     PROVE  LogInv'
  BY <1>18 DEF CloseChan, LogInv, Inv, tor
<1>19. ASSUME NEW p \in Procs, ReadEvent(p)
     PROVE  LogInv'
  BY <1>19, ReadLog DEF ReadEvent, Received
<1>20. ASSUME NEW p \in Procs, Send(p)
     PROVE  LogInv'
  BY <1>20 DEF Send, LogInv, Inv, tor
<1>21. ASSUME NEW p \in Procs, SendPanics(p)
     PROVE  LogInv'
  BY <1>21 DEF SendPanics, LogInv, Inv, tor
<1>22. ASSUME NEW p \in Procs, EndRelay(p)
     PROVE  LogInv'
  BY <1>22 DEF EndRelay, LogInv, Inv, tor
<1>23. ASSUME NEW w \in Waits, HandleEvents(w)
     PROVE  LogInv'
  BY <1>23 DEF HandleEvents, LogInv, Inv, tor
<1>24. ASSUME NEW w \in Waits, PeekReply(w)
     PROVE  LogInv'
  BY <1>24 DEF PeekReply, LogInv, Inv, tor
<1>25. ASSUME NEW w \in Waits, PeekFails(w)
     PROVE  LogInv'
  BY <1>25 DEF PeekFails, LogInv, Inv, tor
<1>26. ASSUME NEW w \in Waits, LockForEvent(w)
     PROVE  LogInv'
  BY <1>26 DEF LockForEvent, LogInv, Inv, tor
<1>27. ASSUME NEW w \in Waits, CtxDone(w)
     PROVE  LogInv'
  BY <1>27 DEF CtxDone, LogInv, Inv, tor
<1>28. ASSUME AnswerRequest
     PROVE  LogInv'
  BY <1>28, AnswerLog DEF AnswerRequest
<1>29. ASSUME NEW o \in {"add", "remove"}, AnswerSetEvents(o)
     PROVE  LogInv'
  BY <1>29, AnswerLog DEF AnswerSetEvents
<1>30. ASSUME AnswerQuit
     PROVE  LogInv'
  BY <1>30, AnswerLog DEF AnswerQuit
<1>31. ASSUME NEW c \in Codes, Emit(c)
     PROVE  LogInv'
  <2>1. inbox' = Append(inbox, Event(Len(log) + 1)) /\ log' = Append(log, c)
    BY <1>31 DEF Emit
  <2>2. inbox \in Seq(Messages) /\ log \in Seq(Codes)
    BY DEF Inv, TypeOK
  <2>3. /\ Len(inbox') = Len(inbox) + 1 /\ Len(log') = Len(log) + 1
        /\ inbox'[Len(inbox) + 1] = Event(Len(log) + 1)
        /\ \A i \in 1..Len(inbox) : inbox'[i] = inbox[i]
    BY <2>1, <2>2, AppendProperties
  <2> QED
    BY <2>2, <2>3 DEF Inv, LogInv, Event
<1>32. ASSUME TorExits
     PROVE  LogInv'
  BY <1>32, LoseLinkLog DEF TorExits
<1>33. CASE UNCHANGED vars
  BY <1>33 DEF LogInv, Inv, tor, vars
<1> QED
  BY <1>1, <1>2, <1>3, <1>4, <1>5, <1>6, <1>7, <1>8, <1>9, <1>10, <1>11, <1>12,
     <1>13, <1>14, <1>15, <1>16, <1>17, <1>18, <1>19, <1>20, <1>21, <1>22,
     <1>23, <1>24, <1>25, <1>26, <1>27, <1>28, <1>29, <1>30, <1>31, <1>32, <1>33
     DEF Next, Call, SendRequest, Relay, Return, Wait, Handler, Tor, Quiescent,
         Procs

----------------------------------------------------------------------------
(* The invariant holds *)

LEMMA InitInv ==
  ASSUME Init
  PROVE  Inv
<1>1. TypeOK
  <2>1. listeners \in [Keys -> Seq(Waits)] /\ wire \in Seq(Commands)
        /\ inbox \in Seq(Messages) /\ log \in Seq(Codes)
    BY DEF Init
  <2>2. pc \in [Procs -> Pcs] /\ relay \in [Procs -> [n : Nat, to : Seq(Waits)]]
    BY DEF Init, Pcs, CallerPcs, HandlerPcs
  <2>3. call \in [Callers -> Calls] /\ wait \in [Waits -> WaitStates]
    BY DEF Init, NoCall, Calls, Ops, Statuses, NewWait, WaitStates
  <2> QED
    BY <2>1, <2>2, <2>3 DEF Init, TypeOK
<1>2. CallInv
  BY ProcAssumption
     DEF Init, CallInv, Procs, NoCall, NewWait, CallerPcs, HandlerPcs
<1>3. LockInv
  BY ProcAssumption DEF Init, LockInv, Procs, Holding
<1>4. MapInv
  BY DEF Init, MapInv, Once, Contains
<1>5. LogInv
  BY DEF Init, LogInv
<1> QED
  BY <1>1, <1>2, <1>3, <1>4, <1>5 DEF Inv

LEMMA InvStep ==
  ASSUME Inv, [Next]_vars
  PROVE  Inv'
BY TypeStep, CallStep, LockStep, MapStep, LogStep DEF Inv

\* In every reachable state each EventWait in progress has an open channel of
\* its own, readLock is held exactly by the goroutine that is reading, and a
\* channel is listed only while its EventWait may still remove it
\* (conn.go:51-78, cmd_event.go:104-128).
THEOREM InvHolds == Spec => []Inv
<1>1. Init => Inv
  BY InitInv
<1>2. Inv /\ [Next]_vars => Inv'
  BY InvStep
<1> QED
  BY <1>1, <1>2, PTL DEF Spec

\* Every variable of the connection keeps its type; with it, no goroutine is at
\* a place of another kind of goroutine and every event that is relayed is one
\* Tor emitted.
THEOREM TypeCorrect == Spec => []TypeOK
<1>1. Inv => TypeOK
  BY DEF Inv
<1> QED
  BY <1>1, InvHolds, PTL

=============================================================================
