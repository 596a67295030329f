-------------------------- MODULE TorNetworkProofs --------------------------
(***************************************************************************)
(* What the calls of package tor promise, for any number of calls, upload  *)
(* directories and uploads.                                                *)
(***************************************************************************)
EXTENDS TorNetwork, FiniteSetTheorems, TLAPS

USE DEF onion, wait, dialing, tor, history, Goto

----------------------------------------------------------------------------
(* Types *)

Events == BootEvents \cup DescEvents
UploadType == [Calls -> [Dirs -> {"idle", "trying", "done"}]]

LEMMA EmitTyped ==
  ASSUME events \in [Calls -> Seq(Events)], NEW kind, NEW event \in Events,
         Emit(kind, event)
  PROVE  events' \in [Calls -> Seq(Events)]
<1>1. \A c \in Calls : (IF link /\ waiting[c] = kind THEN Append(events[c], event)
                         ELSE events[c]) \in Seq(Events)
  OBVIOUS
<1>. QED
  BY <1>1 DEF Emit

LEMMA UploadsTyped ==
  ASSUME TypeOK, NEW c \in Calls, NEW d \in Dirs, NEW from,
         NEW to \in {"idle", "trying", "done"}, NEW what \in {"UPLOAD", "FAILED", "UPLOADED"},
         Uploads(c, d, from, to, what), tries' \in [Calls -> Nat],
         published' \in [Calls -> BOOLEAN]
  PROVE  TypeOK'
<1>1. [what |-> what, call |-> c, dir |-> d] \in Events
  BY DEF Events, DescEvents
<1>2. events' \in [Calls -> Seq(Events)]
  BY <1>1, EmitTyped DEF TypeOK, Uploads, Events
<1>3. upload' \in [Calls -> [Dirs -> {"idle", "trying", "done"}]]
  <2>1. upload' = [upload EXCEPT ![c] = [upload[c] EXCEPT ![d] = to]]
    BY DEF Uploads
  <2>2. upload[c] \in [Dirs -> {"idle", "trying", "done"}]
    BY DEF TypeOK
  <2>3. [upload[c] EXCEPT ![d] = to] \in [Dirs -> {"idle", "trying", "done"}]
    BY <2>2
  <2>. QED
    BY <2>1, <2>3 DEF TypeOK
<1>. QED
  BY <1>2, <1>3 DEF TypeOK, Uploads, Events

LEMMA TypeStep == TypeOK /\ [Next]_vars => TypeOK'
<1>. SUFFICES ASSUME TypeOK, [Next]_vars PROVE TypeOK'
  OBVIOUS
<1>. USE DEF TypeOK, Busy, NetPcs, OnionPcs, Ended
<1>1. ASSUME NEW c \in Calls, Listen(c) PROVE TypeOK'
  BY <1>1 DEF Listen
<1>2. ASSUME NEW c \in Calls, Forward(c) PROVE TypeOK'
  BY <1>2 DEF Forward
<1>3. ASSUME NEW c \in Calls, AddOnion(c) PROVE TypeOK'
  BY <1>3 DEF AddOnion, AfterAdd
<1>4. ASSUME NEW c \in Calls, AddOnionFails(c) PROVE TypeOK'
  BY <1>4 DEF AddOnionFails
<1>5. ASSUME NEW c \in Calls, StartNetwork(c) PROVE TypeOK'
  BY <1>5 DEF StartNetwork
<1>6. ASSUME NEW c \in Calls, GetConf(c) PROVE TypeOK'
  BY <1>6 DEF GetConf, AfterNetwork, OnError
<1>7. ASSUME NEW c \in Calls, SetConf(c) PROVE TypeOK'
  BY <1>7 DEF SetConf
<1>8. ASSUME NEW c \in Calls, SetConfFails(c) PROVE TypeOK'
  BY <1>8 DEF SetConfFails, AfterNetwork
<1>9. ASSUME NEW c \in Calls, SubscribeBoot(c) PROVE TypeOK'
  BY <1>9 DEF SubscribeBoot, Subscribe
<1>10. ASSUME NEW c \in Calls, SubscribeDesc(c) PROVE TypeOK'
  BY <1>10 DEF SubscribeDesc, Subscribe
<1>11. ASSUME NEW c \in Calls, SubscribeFails(c) PROVE TypeOK'
  BY <1>11 DEF SubscribeFails, OnError
<1>12. ASSUME NEW c \in Calls, BootEvent(c) PROVE TypeOK'
  BY <1>12 DEF BootEvent, AfterNetwork, OnError, Unsubscribed
<1>13. ASSUME NEW c \in Calls, SkipOther(c) PROVE TypeOK'
  BY <1>13 DEF SkipOther, Others, Heard
<1>14. ASSUME NEW c \in Calls, SeeSuccess(c) PROVE TypeOK'
  BY <1>14 DEF SeeSuccess, NextIs, Heard, Unsubscribed
<1>15. ASSUME NEW c \in Calls, GetInfo(c) PROVE TypeOK'
  BY <1>15 DEF GetInfo
<1>16. ASSUME NEW c \in Calls, SelectDial(c) PROVE TypeOK'
  BY <1>16 DEF SelectDial
<1>17. ASSUME NEW c \in Calls, NilControl(c) \/ NilClose(c) PROVE TypeOK'
  BY <1>17 DEF NilControl, NilClose, Panic
<1>18. ASSUME NEW c \in Calls, DialContext(c) PROVE TypeOK'
  BY <1>18 DEF DialContext
<1>19. ASSUME NEW c \in Calls, DialEnds(c) PROVE TypeOK'
  BY <1>19 DEF DialEnds
<1>20. ASSUME NEW c \in Calls, CheckCtx(c) PROVE TypeOK'
  BY <1>20 DEF CheckCtx
<1>21. ASSUME NEW c \in Calls, HandOver(c) PROVE TypeOK'
  BY <1>21 DEF HandOver
<1>22. ASSUME NEW c \in Calls, CtxDone(c) PROVE TypeOK'
  BY <1>22 DEF CtxDone
<1>23. ASSUME NEW c \in Calls, AddOnionLost(c) PROVE TypeOK'
  <2>1. service' \in [Calls -> BOOLEAN]
    <3>1. conf[c].detach \in BOOLEAN
      BY ConfAssumption DEF ConfType
    <3>2. Detached \in [Calls -> BOOLEAN]
      BY DEF Detached
    <3>. QED
      BY <1>23, <3>1, <3>2 DEF AddOnionLost
  <2>2. upload' \in UploadType
    <3>1. CASE UNCHANGED upload
      BY <3>1 DEF UploadType
    <3>2. CASE upload' = [b \in Calls |-> IF service'[b] THEN upload[b] ELSE NoUpload]
      BY <3>2 DEF UploadType, NoUpload
    <3>. QED
      BY <1>23, <3>1, <3>2 DEF AddOnionLost
  <2>. QED
    BY <1>23, <2>1, <2>2 DEF AddOnionLost, UploadType
<1>24. ASSUME NEW c \in Calls, NEW from, NEW to \in {"failed", "closed"},
              CloseService(c, from, to)
       PROVE  TypeOK'
  <2>1. /\ service' \in [Calls -> BOOLEAN] /\ closeErr' \in [Calls -> BOOLEAN]
        /\ upload' \in UploadType
    <3>1. upload \in UploadType /\ [upload EXCEPT ![c] = NoUpload] \in UploadType
      BY DEF NoUpload, UploadType
    <3>2. service' \in [Calls -> BOOLEAN] /\ closeErr' \in [Calls -> BOOLEAN]
      BY <1>24 DEF CloseService, DelOnion
    <3>3. upload' = upload \/ upload' = [upload EXCEPT ![c] = NoUpload]
      BY <1>24 DEF CloseService, DelOnion
    <3>. QED
      BY <3>1, <3>2, <3>3
  <2>2. local' \in [Calls -> {"none", "open", "closed"}]
    BY <1>24 DEF CloseService
  <2>. QED
    BY <1>24, <2>1, <2>2 DEF CloseService, UploadType
<1>25. ASSUME NEW c \in Calls, WaitFails(c) PROVE TypeOK'
  <2>1. /\ pc' \in [Calls -> Busy \cup Ended]
        /\ waiting' \in [Calls -> {"none", "boot", "desc"}]
    BY <1>25 DEF WaitFails, OnError, Unsubscribed
  <2>2. events' \in [Calls -> Seq(BootEvents \cup DescEvents)]
    BY <1>25 DEF WaitFails, Unsubscribed
  <2>. QED
    BY <1>25, <2>1, <2>2 DEF WaitFails
<1>26. ASSUME NEW c \in Calls, SeeUpload(c) PROVE TypeOK'
  <2>1. Head(events[c]) \in Events /\ Tail(events[c]) \in Seq(Events)
    BY <1>26 DEF SeeUpload, NextIs, Heard, Events
  <2>2. Head(events[c]) \in DescEvents
    BY <1>26, <2>1 DEF SeeUpload, NextIs, Events, BootEvents
  <2>3. events' \in [Calls -> Seq(BootEvents \cup DescEvents)]
    BY <1>26, <2>1 DEF SeeUpload, Events
  <2>4. open' \in [Calls -> SUBSET Dirs]
    BY <1>26, <2>2 DEF SeeUpload, DescEvents
  <2>. QED
    BY <1>26, <2>3, <2>4 DEF SeeUpload
<1>27. ASSUME NEW c \in Calls, SeeFailure(c) PROVE TypeOK'
  <2>1. Tail(events[c]) \in Seq(BootEvents \cup DescEvents)
    BY <1>27 DEF SeeFailure, NextIs, Heard
  <2>2. /\ events' \in [Calls -> Seq(BootEvents \cup DescEvents)]
        /\ pc' \in [Calls -> Busy \cup Ended]
        /\ waiting' \in [Calls -> {"none", "boot", "desc"}]
    <3>1. CASE AllFailed(c)
      <4>1. /\ pc' = [pc EXCEPT ![c] = "undo"] /\ waiting' = [waiting EXCEPT ![c] = "none"]
            /\ events' = [events EXCEPT ![c] = <<>>]
        BY <1>27, <3>1 DEF SeeFailure, Unsubscribed
      <4>2. <<>> \in Seq(BootEvents \cup DescEvents)
        OBVIOUS
      <4>. QED
        BY <4>1, <4>2
    <3>2. CASE ~AllFailed(c)
      BY <1>27, <2>1, <3>2 DEF SeeFailure
    <3>. QED
      BY <3>1, <3>2
  <2>3. open' \in [Calls -> SUBSET Dirs]
    BY <1>27 DEF SeeFailure
  <2>. QED
    BY <1>27, <2>2, <2>3 DEF SeeFailure
<1>28. ASSUME NEW left \in [Calls -> BOOLEAN], LinkEnds(left), control' \in BOOLEAN
       PROVE  TypeOK'
  BY <1>28 DEF LinkEnds, NoUpload
<1>29. LinkLost \/ TorExits \/ CloseTor => TypeOK'
  <2>1. Detached \in [Calls -> BOOLEAN] /\ [c \in Calls |-> FALSE] \in [Calls -> BOOLEAN]
    BY DEF Detached, ConfType
  <2>. QED
    BY <1>28, <2>1 DEF LinkLost, TorExits, CloseTor
<1>30. ASSUME Bootstrap PROVE TypeOK'
  <2>1. [what |-> "ERR"] \in Events /\ [what |-> "100"] \in Events
    BY DEF Events, BootEvents
  <2>2. events' \in [Calls -> Seq(Events)]
    BY <1>30, <2>1, EmitTyped DEF Bootstrap, Events
  <2>. QED
    BY <1>30, <2>2 DEF Bootstrap, Events
<1>31. ASSUME NEW c \in Calls, NEW d \in Dirs,
              StartUpload(c, d) \/ UploadFails(c, d) \/ UploadDone(c, d)
       PROVE  TypeOK'
  <2>1. tries' \in [Calls -> Nat] /\ published' \in [Calls -> BOOLEAN]
    <3>1. CASE StartUpload(c, d)
      BY <3>1 DEF StartUpload
    <3>2. CASE UploadFails(c, d)
      BY <3>2 DEF UploadFails
    <3>3. CASE UploadDone(c, d)
      BY <3>3 DEF UploadDone
    <3>. QED
      BY <1>31, <3>1, <3>2, <3>3
  <2>. HIDE DEF TypeOK
  <2>. QED
    BY <1>31, <2>1, UploadsTyped DEF StartUpload, UploadFails, UploadDone
<1>32. CASE UNCHANGED vars
  BY <1>32 DEF vars
<1>. QED
  <2>. HIDE DEF TypeOK
  <2>. QED
    BY <1>1, <1>2, <1>3, <1>4, <1>5, <1>6, <1>7, <1>8, <1>9, <1>10, <1>11, <1>12, <1>13,
       <1>14, <1>15, <1>16, <1>17, <1>18, <1>19, <1>20, <1>21, <1>22, <1>23, <1>24, <1>25,
       <1>26, <1>27, <1>29, <1>30, <1>31, <1>32
    DEF Next, Step, Dialing, Tor, Undo, Close

LEMMA TypeInit == Init => TypeOK
<1>. SUFFICES ASSUME Init PROVE TypeOK
  OBVIOUS
<1>1. <<>> \in Seq(BootEvents \cup DescEvents)
  OBVIOUS
<1>2. events \in [Calls -> Seq(BootEvents \cup DescEvents)]
  BY <1>1 DEF Init
<1>3. upload \in [Calls -> [Dirs -> {"idle", "trying", "done"}]]
  BY DEF Init, NoUpload
<1>4. open \in [Calls -> SUBSET Dirs]
  BY DEF Init
<1>. QED
  BY <1>2, <1>3, <1>4 DEF Init, TypeOK, Busy, Ended

\* Every variable keeps its type.
THEOREM TypeCorrect == Spec => []TypeOK
  BY TypeInit, TypeStep, PTL DEF Spec

----------------------------------------------------------------------------
(* The inductive invariant, a part for each promise *)

\* A call stays on the way of its kind.
OfKind(c) ==
  /\ pc[c] \in OnionPcs \cup {"closed"} => IsOnion(c)
  /\ pc[c] \in {"getinfo", "select", "dialed"} => conf[c].kind = "dial"

\* The program has the ID of a service, or has a reason not to have it.
ServiceKnown(c) ==
  /\ service[c] => id[c] \/ lost[c] \/ closeErr[c]
  /\ id[c] => IsOnion(c) /\ pc[c] \notin {"start", "add", "failed", "closed"}

\* Only Listen makes a local listener, and it is closed in time.
LocalClosed(c) ==
  /\ local[c] # "none" => conf[c].kind = "listen" /\ pc[c] # "start"
  /\ pc[c] \in {"failed", "closed"} /\ ~conf[c].given => local[c] # "open"
  /\ conf[c].given \/ pc[c] \notin {"failed", "closed"} => local[c] # "closed"

\* The call has not sent its SETCONF, or Tor is ready once it has waited.
NetworkOn(c) ==
  /\ enabled[c] => pc[c] \notin {"start", "add", "getconf", "setconf"}
  /\ /\ enabled[c] /\ conf[c].wait
     /\ pc[c] \in {"descsub", "descwait", "getinfo", "done", "select", "dialed"}
     => boot = "done"

\* The connection and the goroutine that makes it.
Dialed(c) ==
  /\ dial[c] # "none" => pc[c] \in {"select", "dialed"}
  /\ dial[c] \in {"opened", "checked", "sent"} <=> conn[c] = "open"
  /\ dial[c] = "dropped" => ctxDone[c]
  /\ held[c] => dial[c] = "sent"
  /\ pc[c] = "dialed" => held[c] \/ ctxDone[c] \/ dial[c] = "error"

\* The service has been published if the call was to wait for that.
PublishedBy(c) == IsOnion(c) /\ conf[c].wait /\ pc[c] = "done" => published[c]

\* What is in a channel is true.
EventTrue(event) ==
  /\ event.what = "UPLOADED" => published[event.call]
  /\ event.what = "100" => boot = "done"

EventsTrue(c) == \A i \in 1..Len(events[c]) : EventTrue(events[c][i])

CallInv(c) ==
  /\ OfKind(c) /\ ServiceKnown(c) /\ LocalClosed(c) /\ NetworkOn(c) /\ Dialed(c)
  /\ PublishedBy(c)

Inv ==
  /\ TypeOK
  /\ \A c \in Calls : CallInv(c)
  /\ \A c \in Calls : EventsTrue(c)

----------------------------------------------------------------------------
(* What a step leaves alone *)

\* A step of another actor: b's own state stays, a service may go, Tor gets on.
Frame(b) ==
  /\ conf' = conf
  /\ pc'[b] = pc[b] /\ id'[b] = id[b] /\ local'[b] = local[b]
  /\ lost'[b] = lost[b] /\ closeErr'[b] = closeErr[b] /\ enabled'[b] = enabled[b]
  /\ dial'[b] = dial[b] /\ conn'[b] = conn[b] /\ held'[b] = held[b]
  /\ ctxDone'[b] = ctxDone[b]
  /\ service'[b] => service[b]
  /\ published[b] => published'[b]
  /\ boot = "done" => boot' = "done"

LEMMA FrameKept ==
  ASSUME NEW b \in Calls, CallInv(b), Frame(b)
  PROVE  CallInv(b)'
  BY DEF CallInv, Frame, OfKind, ServiceKnown, LocalClosed, NetworkOn, Dialed, PublishedBy,
     IsOnion

LEMMA EnvironmentFrame ==
  ASSUME TypeOK, Tor \/ CloseTor, NEW b \in Calls
  PROVE  Frame(b)
<1>. USE DEF Frame
<1>1. CASE LinkLost \/ TorExits \/ CloseTor
  BY <1>1 DEF LinkLost, TorExits, CloseTor, LinkEnds, Detached
<1>2. CASE Bootstrap
  BY <1>2 DEF Bootstrap
<1>3. ASSUME NEW c \in Calls, NEW d \in Dirs,
             StartUpload(c, d) \/ UploadFails(c, d) \/ UploadDone(c, d)
      PROVE  Frame(b)
  <2>1. published[b] => published'[b]
    BY <1>3 DEF StartUpload, UploadFails, UploadDone, TypeOK
  <2>. QED
    BY <1>3, <2>1 DEF StartUpload, UploadFails, UploadDone, Uploads
<1>. QED
  BY <1>1, <1>2, <1>3 DEF Tor

\* The other calls, when c takes a step.
LEMMA CallFrame ==
  ASSUME TypeOK, NEW c \in Calls, NEW b \in Calls, b # c,
         Step(c) \/ Close(c) \/ DialContext(c) \/ Dialing(c) \/ CtxDone(c)
  PROVE  Frame(b)
<1>0. /\ pc \in [Calls -> Busy \cup Ended] /\ id \in [Calls -> BOOLEAN]
      /\ local \in [Calls -> {"none", "open", "closed"}]
      /\ dial \in [Calls -> {"none", "dialing", "opened", "checked", "sent", "error", "dropped"}]
      /\ conn \in [Calls -> {"none", "open", "closed"}]
      /\ held \in [Calls -> BOOLEAN] /\ ctxDone \in [Calls -> BOOLEAN]
      /\ service \in [Calls -> BOOLEAN] /\ lost \in [Calls -> BOOLEAN]
      /\ closeErr \in [Calls -> BOOLEAN] /\ enabled \in [Calls -> BOOLEAN]
  BY DEF TypeOK
<1>. USE DEF Frame
<1>1. CASE Listen(c) \/ Forward(c) \/ StartNetwork(c) \/ GetConf(c) \/ SetConf(c) \/ SetConfFails(c)
  BY <1>0, <1>1 DEF Listen, Forward, StartNetwork, GetConf, SetConf, SetConfFails
<1>2. CASE AddOnion(c) \/ AddOnionLost(c) \/ AddOnionFails(c)
  BY <1>0, <1>2 DEF AddOnion, AddOnionLost, AddOnionFails, Detached
<1>3. CASE Undo(c) \/ Close(c)
  BY <1>0, <1>3 DEF Undo, Close, NilClose, Panic, CloseService, DelOnion
<1>4. CASE SubscribeBoot(c) \/ SubscribeDesc(c) \/ SubscribeFails(c) \/ WaitFails(c) \/ BootEvent(c)
  BY <1>0, <1>4 DEF SubscribeBoot, SubscribeDesc, Subscribe, SubscribeFails, WaitFails, BootEvent
<1>5. CASE SkipOther(c) \/ SeeUpload(c) \/ SeeFailure(c) \/ SeeSuccess(c)
  BY <1>0, <1>5 DEF SkipOther, SeeUpload, SeeFailure, SeeSuccess
<1>6. CASE GetInfo(c) \/ SelectDial(c) \/ NilControl(c) \/ DialContext(c) \/ CtxDone(c)
  BY <1>0, <1>6 DEF GetInfo, SelectDial, NilControl, Panic, DialContext, CtxDone
<1>7. CASE Dialing(c)
  BY <1>0, <1>7 DEF Dialing, DialEnds, CheckCtx, HandOver
<1>. QED
  BY <1>1, <1>2, <1>3, <1>4, <1>5, <1>6, <1>7 DEF Step

----------------------------------------------------------------------------
(* The steps of the call itself *)

LEMMA OwnStep ==
  ASSUME TypeOK, NEW c \in Calls, CallInv(c), EventsTrue(c),
         Step(c) \/ Close(c) \/ DialContext(c) \/ Dialing(c) \/ CtxDone(c)
  PROVE  CallInv(c)'
<1>0. /\ pc \in [Calls -> Busy \cup Ended] /\ id \in [Calls -> BOOLEAN]
      /\ local \in [Calls -> {"none", "open", "closed"}]
      /\ dial \in [Calls -> {"none", "dialing", "opened", "checked", "sent", "error", "dropped"}]
      /\ conn \in [Calls -> {"none", "open", "closed"}]
      /\ held \in [Calls -> BOOLEAN] /\ ctxDone \in [Calls -> BOOLEAN]
      /\ service \in [Calls -> BOOLEAN] /\ lost \in [Calls -> BOOLEAN]
      /\ closeErr \in [Calls -> BOOLEAN] /\ enabled \in [Calls -> BOOLEAN]
  BY DEF TypeOK
<1>. USE DEF CallInv, OfKind, ServiceKnown, LocalClosed, NetworkOn, Dialed, PublishedBy,
             IsOnion, OnionPcs
<1>1. CASE Listen(c) \/ Forward(c)
  BY <1>0, <1>1 DEF Listen, Forward
<1>2. CASE AddOnion(c)
  BY <1>0, <1>2 DEF AddOnion, AfterAdd
<1>3. CASE AddOnionLost(c) \/ AddOnionFails(c)
  BY <1>0, <1>3 DEF AddOnionLost, AddOnionFails
<1>4. ASSUME CloseService(c, "undo", "failed") \/ CloseService(c, "done", "closed")
               \/ CloseService(c, "closed", "closed")
      PROVE  CallInv(c)'
  BY <1>0, <1>4 DEF CloseService, DelOnion
<1>5. CASE StartNetwork(c)
  BY <1>0, <1>5 DEF StartNetwork
<1>6. CASE GetConf(c)
  BY <1>0, <1>6 DEF GetConf, AfterNetwork, OnError
<1>7. CASE SetConf(c)
  BY <1>0, <1>7 DEF SetConf
<1>8. CASE SetConfFails(c)
  BY <1>0, <1>8 DEF SetConfFails, AfterNetwork
<1>9. CASE SubscribeBoot(c) \/ SubscribeDesc(c)
  BY <1>0, <1>9 DEF SubscribeBoot, SubscribeDesc, Subscribe
<1>10. CASE SubscribeFails(c)
  BY <1>0, <1>10 DEF SubscribeFails, OnError
<1>11. CASE WaitFails(c)
  BY <1>0, <1>11 DEF WaitFails, OnError
<1>12. CASE BootEvent(c)
  <2>1. EventTrue(Head(events[c]))
    BY <1>12 DEF BootEvent, EventsTrue, TypeOK
  <2>. QED
    BY <1>0, <1>12, <2>1 DEF BootEvent, AfterNetwork, OnError, EventTrue
<1>13. CASE SkipOther(c) \/ SeeUpload(c)
  BY <1>0, <1>13 DEF SkipOther, SeeUpload
<1>14. CASE SeeFailure(c)
  BY <1>0, <1>14 DEF SeeFailure, NextIs, Heard
<1>15. CASE SeeSuccess(c)
  <2>1. EventTrue(Head(events[c])) /\ Head(events[c]).call = c
    BY <1>15 DEF SeeSuccess, NextIs, Heard, EventsTrue, TypeOK
  <2>2. published[c]
    BY <1>15, <2>1 DEF EventTrue, SeeSuccess, NextIs
  <2>. QED
    BY <1>0, <1>15, <2>2 DEF SeeSuccess
<1>16. CASE GetInfo(c)
  BY <1>0, <1>16 DEF GetInfo
<1>17. CASE SelectDial(c)
  BY <1>0, <1>17 DEF SelectDial
<1>18. CASE NilControl(c) \/ NilClose(c)
  BY <1>0, <1>18 DEF NilControl, NilClose, Panic
<1>19. CASE DialContext(c)
  BY <1>0, <1>19 DEF DialContext
<1>20. CASE DialEnds(c) \/ CheckCtx(c) \/ HandOver(c)
  BY <1>0, <1>20 DEF DialEnds, CheckCtx, HandOver
<1>21. CASE CtxDone(c)
  BY <1>0, <1>21 DEF CtxDone
<1>. QED
  BY <1>1, <1>2, <1>3, <1>4, <1>5, <1>6, <1>7, <1>8, <1>9, <1>10, <1>11, <1>12, <1>13, <1>14,
     <1>15, <1>16, <1>17, <1>18, <1>19, <1>20, <1>21
  DEF Step, Close, Undo, Dialing

----------------------------------------------------------------------------
(* What is in the channels stays true *)

LEMMA GettingOn ==
  ASSUME TypeOK, [Next]_vars
  PROVE  /\ \A c \in Calls : published[c] => published'[c]
         /\ boot = "done" => boot' = "done"
<1>1. CASE Tor \/ CloseTor
  <2>1. \A c \in Calls : published[c] => published'[c]
    BY <1>1, EnvironmentFrame DEF Frame
  <2>2. boot = "done" => boot' = "done"
    BY <1>1 DEF Tor, CloseTor, LinkLost, TorExits, LinkEnds, Bootstrap, StartUpload,
       UploadFails, UploadDone, Uploads
  <2>. QED
    BY <2>1, <2>2
<1>2. ASSUME NEW c \in Calls, Step(c) \/ Close(c) \/ DialContext(c) \/ Dialing(c) \/ CtxDone(c)
      PROVE  published' = published /\ (boot = "done" => boot' = "done")
  <2>1. CASE Listen(c) \/ Forward(c) \/ StartNetwork(c) \/ GetConf(c) \/ SetConf(c)
               \/ SetConfFails(c)
    BY <2>1 DEF Listen, Forward, StartNetwork, GetConf, SetConf, SetConfFails
  <2>2. CASE AddOnion(c) \/ AddOnionLost(c) \/ AddOnionFails(c) \/ Undo(c) \/ Close(c)
    BY <2>2 DEF AddOnion, AddOnionLost, AddOnionFails, Undo, Close, NilClose, Panic, CloseService
  <2>3. CASE SubscribeBoot(c) \/ SubscribeDesc(c) \/ SubscribeFails(c) \/ WaitFails(c)
               \/ BootEvent(c)
    BY <2>3 DEF SubscribeBoot, SubscribeDesc, Subscribe, SubscribeFails, WaitFails, BootEvent
  <2>4. CASE SkipOther(c) \/ SeeUpload(c) \/ SeeFailure(c) \/ SeeSuccess(c)
    BY <2>4 DEF SkipOther, SeeUpload, SeeFailure, SeeSuccess
  <2>5. CASE GetInfo(c) \/ SelectDial(c) \/ NilControl(c) \/ DialContext(c) \/ Dialing(c)
               \/ CtxDone(c)
    BY <2>5 DEF GetInfo, SelectDial, NilControl, Panic, DialContext, Dialing, DialEnds, CheckCtx,
       HandOver, CtxDone
  <2>. QED
    BY <1>2, <2>1, <2>2, <2>3, <2>4, <2>5 DEF Step
<1>3. CASE UNCHANGED vars
  BY <1>3 DEF vars
<1>. QED
  BY <1>1, <1>2, <1>3 DEF Next

LEMMA EventsStep ==
  ASSUME TypeOK, NEW b \in Calls, EventsTrue(b), [Next]_vars,
         \A c \in Calls : published[c] => published'[c],
         boot = "done" => boot' = "done"
  PROVE  EventsTrue(b)'
<1>0. events[b] \in Seq(Events) /\ events \in [Calls -> Seq(Events)]
  BY DEF TypeOK, Events
<1>1. \A e \in Events : EventTrue(e) => EventTrue(e)'
  BY DEF EventTrue, Events, BootEvents, DescEvents
<1>2. CASE events'[b] = events[b]
  BY <1>0, <1>1, <1>2 DEF EventsTrue
<1>3. CASE events'[b] = Tail(events[b]) /\ events[b] # <<>>
  BY <1>0, <1>1, <1>3 DEF EventsTrue
<1>4. CASE events'[b] = <<>>
  BY <1>4 DEF EventsTrue
<1>5. ASSUME NEW e \in Events, events'[b] = Append(events[b], e), EventTrue(e)'
      PROVE  EventsTrue(b)'
  BY <1>0, <1>1, <1>5 DEF EventsTrue
<1>6. ASSUME NEW kind, NEW e \in Events, Emit(kind, e), EventTrue(e)'
      PROVE  EventsTrue(b)'
  <2>1. events'[b] = events[b] \/ events'[b] = Append(events[b], e)
    BY <1>6 DEF Emit
  <2>. QED
    BY <1>2, <1>5, <1>6, <2>1
<1>7. ASSUME NEW c \in Calls, Step(c) \/ Close(c) \/ DialContext(c) \/ Dialing(c) \/ CtxDone(c)
      PROVE  EventsTrue(b)'
  <2>1. CASE UNCHANGED events
    BY <1>2, <2>1
  <2>2. CASE events' = [events EXCEPT ![c] = Tail(events[c])] /\ events[c] # <<>>
    BY <1>0, <1>2, <1>3, <2>2
  <2>3. CASE events' = [events EXCEPT ![c] = <<>>]
    BY <1>0, <1>2, <1>4, <2>3
  <2>4. CASE Listen(c) \/ Forward(c) \/ AddOnion(c) \/ AddOnionLost(c) \/ AddOnionFails(c)
               \/ Undo(c) \/ Close(c)
    BY <2>1, <2>4 DEF Listen, Forward, AddOnion, AddOnionLost, AddOnionFails, Undo, Close,
       NilClose, Panic, CloseService
  <2>5. CASE StartNetwork(c) \/ GetConf(c) \/ SetConf(c) \/ SetConfFails(c) \/ SubscribeBoot(c)
               \/ SubscribeDesc(c) \/ SubscribeFails(c)
    BY <2>1, <2>5 DEF StartNetwork, GetConf, SetConf, SetConfFails, SubscribeBoot,
       SubscribeDesc, Subscribe, SubscribeFails
  <2>6. CASE WaitFails(c) \/ BootEvent(c) \/ SeeSuccess(c)
    BY <2>3, <2>6 DEF WaitFails, BootEvent, SeeSuccess, Unsubscribed
  <2>7. CASE SkipOther(c) \/ SeeUpload(c)
    BY <2>2, <2>7 DEF SkipOther, SeeUpload, Others, NextIs, Heard
  <2>8. CASE SeeFailure(c)
    BY <2>2, <2>3, <2>8 DEF SeeFailure, NextIs, Heard, Unsubscribed
  <2>9. CASE GetInfo(c) \/ SelectDial(c) \/ NilControl(c) \/ DialContext(c) \/ Dialing(c)
               \/ CtxDone(c)
    BY <2>1, <2>9 DEF GetInfo, SelectDial, NilControl, Panic, DialContext, Dialing, DialEnds,
       CheckCtx, HandOver, CtxDone
  <2>. QED
    BY <1>7, <2>4, <2>5, <2>6, <2>7, <2>8, <2>9 DEF Step
<1>8. CASE LinkLost \/ TorExits \/ CloseTor
  BY <1>2, <1>8 DEF LinkLost, TorExits, CloseTor, LinkEnds
<1>9. CASE Bootstrap
  <2>1. PICK e \in {[what |-> "ERR"], [what |-> "100"]} :
          Emit("boot", e) /\ (e.what = "100" => boot' = "done")
    BY <1>9 DEF Bootstrap
  <2>2. e \in Events /\ EventTrue(e)'
    BY <2>1 DEF Events, BootEvents, EventTrue
  <2>. QED
    BY <1>6, <2>1, <2>2
<1>10. ASSUME NEW c \in Calls, NEW d \in Dirs,
              StartUpload(c, d) \/ UploadFails(c, d) \/ UploadDone(c, d)
       PROVE  EventsTrue(b)'
  <2>1. PICK what \in {"UPLOAD", "FAILED", "UPLOADED"} :
          /\ Emit("desc", [what |-> what, call |-> c, dir |-> d])
          /\ what = "UPLOADED" => published'[c]
    BY <1>10 DEF StartUpload, UploadFails, UploadDone, Uploads, TypeOK
  <2>2. [what |-> what, call |-> c, dir |-> d] \in Events
    BY DEF Events, DescEvents
  <2>3. EventTrue([what |-> what, call |-> c, dir |-> d])'
    BY <2>1 DEF EventTrue
  <2>. QED
    BY <1>6, <2>1, <2>2, <2>3
<1>11. CASE UNCHANGED vars
  BY <1>2, <1>11 DEF vars
<1>. QED
  BY <1>7, <1>8, <1>9, <1>10, <1>11 DEF Next, Tor

----------------------------------------------------------------------------
(* The theorems *)

LEMMA InvInit == Init => Inv
<1>. SUFFICES ASSUME Init PROVE Inv
  OBVIOUS
<1>1. ASSUME NEW c \in Calls PROVE CallInv(c) /\ EventsTrue(c)
  BY DEF Init, CallInv, OfKind, ServiceKnown, LocalClosed, NetworkOn, Dialed, PublishedBy,
     OnionPcs, EventsTrue
<1>. QED
  BY <1>1, TypeInit DEF Inv

LEMMA InvStep == Inv /\ [Next]_vars => Inv'
<1>. SUFFICES ASSUME Inv, [Next]_vars PROVE Inv'
  OBVIOUS
<1>0. TypeOK /\ TypeOK'
  BY TypeStep DEF Inv
<1>1. ASSUME NEW c \in Calls, Step(c) \/ Close(c) \/ DialContext(c) \/ Dialing(c) \/ CtxDone(c)
      PROVE  \A b \in Calls : CallInv(b)'
  BY <1>0, <1>1, CallFrame, FrameKept, OwnStep DEF Inv
<1>2. ASSUME Tor \/ CloseTor
      PROVE  \A b \in Calls : CallInv(b)'
  BY <1>0, <1>2, EnvironmentFrame, FrameKept DEF Inv
<1>3. ASSUME UNCHANGED vars
      PROVE  \A b \in Calls : CallInv(b)'
  <2>1. \A b \in Calls : Frame(b)
    BY <1>3 DEF vars, Frame
  <2>. QED
    BY <2>1, FrameKept DEF Inv
<1>4. \A b \in Calls : CallInv(b)'
  BY <1>1, <1>2, <1>3 DEF Next
<1>5. /\ \A c \in Calls : published[c] => published'[c]
      /\ boot = "done" => boot' = "done"
  BY <1>0, GettingOn
<1>. QED
  BY <1>0, <1>4, <1>5, EventsStep DEF Inv

LEMMA InvHolds == Spec => []Inv
  BY InvInit, InvStep, PTL DEF Spec

\* A service is not left behind unseen, whatever a Close, an undo, a lost
\* answer or the end of the connection does (listen.go:233, 259-286).
THEOREM NoServiceOrphaned == Spec => []NoOrphan
<1>1. Inv => NoOrphan
  BY DEF Inv, CallInv, ServiceKnown, NoOrphan
<1>. QED
  BY <1>1, InvHolds, PTL

\* The local listener is closed by who made it, and only then (listen.go:272).
THEOREM ListenersReleased == Spec => []ListenerReleased
<1>1. Inv => ListenerReleased
  BY DEF Inv, CallInv, LocalClosed, ListenerReleased
<1>. QED
  BY <1>1, InvHolds, PTL

\* A wait for publication that succeeds has seen an upload of its own service
\* succeed, be there any number of services (listen.go:196-205).
THEOREM PublishedTruly == Spec => []Published
<1>1. Inv => Published
  BY DEF Inv, CallInv, PublishedBy, Published
<1>. QED
  BY <1>1, InvHolds, PTL

\* A call that turned the network on and waited has a bootstrapped Tor
\* (tor.go:380-413).
THEOREM NetworkReadyTruly == Spec => []NetworkReady
<1>1. Inv => NetworkReady
  BY DEF Inv, CallInv, NetworkOn, NetworkReady
<1>. QED
  BY <1>1, InvHolds, PTL

\* DialContext hands over a connection that is open, closes it, or its context
\* has ended (dialer.go:92-111).
THEOREM DialSound == Spec => []DialOutcome
<1>1. Inv => DialOutcome
  BY DEF Inv, CallInv, Dialed, DialOutcome
<1>. QED
  BY <1>1, InvHolds, PTL

----------------------------------------------------------------------------
(* The uploads a channel reports *)

\* The uploads of c under way after event e, when before they were s.
After(c, s, e) ==
  IF e.call # c THEN s
  ELSE IF e.what = "UPLOAD" THEN s \cup {e.dir} ELSE s \ {e.dir}

\* An upload starts where none is under way, and ends where one is.
Legal(c, s, e) == e.call = c => (e.what = "UPLOAD" <=> e.dir \notin s)

\* s holds the uploads under way before and after each event of q.
Replays(c, q, from, s) ==
  /\ s \in [0..Len(q) -> SUBSET Dirs]
  /\ s[0] = from
  /\ \A i \in 1..Len(q) :
       Legal(c, s[i - 1], q[i]) /\ s[i] = After(c, s[i - 1], q[i])

LEMMA AfterTyped ==
  ASSUME NEW c \in Calls, NEW s \in SUBSET Dirs, NEW e \in DescEvents
  PROVE  After(c, s, e) \in SUBSET Dirs
  BY DEF After, DescEvents

LEMMA ReplayAppend ==
  ASSUME NEW c \in Calls, NEW q \in Seq(DescEvents), NEW from, NEW s,
         Replays(c, q, from, s), NEW e \in DescEvents, Legal(c, s[Len(q)], e)
  PROVE  \E t : /\ Replays(c, Append(q, e), from, t)
                /\ t[Len(q) + 1] = After(c, s[Len(q)], e)
<1>. DEFINE n == Len(q)
            t == [i \in 0..(n + 1) |-> IF i = n + 1 THEN After(c, s[n], e) ELSE s[i]]
<1>1. n \in Nat /\ Len(Append(q, e)) = n + 1 /\ Append(q, e)[n + 1] = e
      /\ \A i \in 1..n : Append(q, e)[i] = q[i]
  OBVIOUS
<1>2. s \in [0..n -> SUBSET Dirs] /\ s[n] \in SUBSET Dirs
  BY <1>1 DEF Replays
<1>3. After(c, s[n], e) \in SUBSET Dirs
  BY <1>2, AfterTyped
<1>. HIDE DEF n
<1>4. /\ t \in [0..(n + 1) -> SUBSET Dirs]
      /\ t[n + 1] = After(c, s[n], e)
      /\ \A i \in 0..n : t[i] = s[i]
  BY <1>1, <1>2, <1>3
<1>5. t[0] = from
  BY <1>1, <1>4 DEF Replays, n
<1>. HIDE DEF t
<1>6. ASSUME NEW i \in 1..(n + 1)
      PROVE  /\ Legal(c, t[i - 1], Append(q, e)[i])
             /\ t[i] = After(c, t[i - 1], Append(q, e)[i])
  <2>1. CASE i = n + 1
    BY <1>1, <1>4, <2>1 DEF n
  <2>2. CASE i \in 1..n
    <3>1. i - 1 \in 0..n /\ i \in 0..n
      BY <1>1, <2>2
    <3>2. Legal(c, s[i - 1], q[i]) /\ s[i] = After(c, s[i - 1], q[i])
      BY <2>2 DEF Replays, n
    <3>. QED
      BY <1>1, <1>4, <2>2, <3>1, <3>2
  <2>. QED
    BY <1>1, <2>1, <2>2
<1>7. Replays(c, Append(q, e), from, t)
  BY <1>1, <1>4, <1>5, <1>6 DEF Replays
<1>. QED
  BY <1>4, <1>7 DEF n

LEMMA ReplayTail ==
  ASSUME NEW c \in Calls, NEW q \in Seq(DescEvents), q # <<>>, NEW from, NEW s,
         Replays(c, q, from, s)
  PROVE  /\ Legal(c, from, Head(q))
         /\ \E t : /\ Replays(c, Tail(q), After(c, from, Head(q)), t)
                   /\ t[Len(Tail(q))] = s[Len(q)]
<1>. DEFINE n == Len(q)
            t == [i \in 0..(n - 1) |-> s[i + 1]]
<1>1. /\ n \in Nat \ {0} /\ Len(Tail(q)) = n - 1 /\ Head(q) = q[1]
      /\ \A i \in 1..(n - 1) : Tail(q)[i] = q[i + 1]
  OBVIOUS
<1>2. s \in [0..n -> SUBSET Dirs]
      /\ \A i \in 1..n : Legal(c, s[i - 1], q[i]) /\ s[i] = After(c, s[i - 1], q[i])
  BY DEF Replays
<1>. HIDE DEF n
<1>3. s[0] = from /\ 1 \in 1..n /\ 1 - 1 = 0
  BY <1>1 DEF Replays
<1>4. Legal(c, from, Head(q)) /\ s[1] = After(c, from, Head(q))
  BY <1>1, <1>2, <1>3
<1>5. /\ t \in [0..(n - 1) -> SUBSET Dirs]
      /\ \A i \in 0..(n - 1) : t[i] = s[i + 1]
  BY <1>1, <1>2
<1>. HIDE DEF t
<1>6. t[0] = s[1] /\ t[n - 1] = s[n]
  BY <1>1, <1>5
<1>7. ASSUME NEW i \in 1..(n - 1)
      PROVE  /\ Legal(c, t[i - 1], Tail(q)[i])
             /\ t[i] = After(c, t[i - 1], Tail(q)[i])
  <2>1. i - 1 \in 0..(n - 1) /\ i \in 0..(n - 1) /\ i + 1 \in 1..n
        /\ (i - 1) + 1 = i /\ (i + 1) - 1 = i
    BY <1>1
  <2>2. t[i - 1] = s[i] /\ t[i] = s[i + 1] /\ Tail(q)[i] = q[i + 1]
    BY <1>1, <1>5, <2>1
  <2>. QED
    BY <1>2, <2>1, <2>2
<1>8. Replays(c, Tail(q), After(c, from, Head(q)), t)
  BY <1>1, <1>4, <1>5, <1>6, <1>7 DEF Replays
<1>. QED
  BY <1>1, <1>4, <1>6, <1>8 DEF n

----------------------------------------------------------------------------
(* The inductive invariant of the uploads *)

Trying(c) == {d \in Dirs : upload[c][d] = "trying"}

\* What c has still to hear leads from the uploads it has seen to those under
\* way, for as long as the control connection lasts.
Followed(c) ==
  \E s : /\ Replays(c, events[c], open[c], s)
         /\ link => s[Len(events[c])] = Trying(c)

\* The wait counts the uploads that it has seen, and not yet their end.
Counted(c) ==
  /\ IsFiniteSet(open[c])
  /\ attempted[c] = failures[c] + Cardinality(open[c])
  /\ attempted[c] > 0 => open[c] # {}

BeforeWait == {"start", "add", "descsub"} \cup NetPcs

WaitInv(c) ==
  /\ waiting[c] = "desc" <=> pc[c] = "descwait"
  /\ waiting[c] = "boot" <=> pc[c] = "bootwait"
  /\ waiting[c] = "none" => events[c] = <<>>
  /\ pc[c] \in BeforeWait => attempted[c] = 0 /\ failures[c] = 0 /\ open[c] = {}
  /\ pc[c] = "descwait" => events[c] \in Seq(DescEvents)
  /\ pc[c] = "descwait" /\ ~missed[c] => Counted(c) /\ Followed(c)

----------------------------------------------------------------------------
(* Steps that leave the wait of b alone *)

\* The call of b stays where it is, and hears nothing.
Quiet(b) ==
  /\ pc'[b] = pc[b] /\ waiting'[b] = waiting[b] /\ events'[b] = events[b]
  /\ attempted'[b] = attempted[b] /\ failures'[b] = failures[b]
  /\ open'[b] = open[b] /\ missed'[b] = missed[b]
  /\ pc[b] = "descwait" /\ link' => link /\ upload'[b] = upload[b]

LEMMA QuietKept ==
  ASSUME NEW b \in Calls, WaitInv(b), Quiet(b)
  PROVE  WaitInv(b)'
<1>1. Counted(b) => Counted(b)'
  BY DEF Counted, Quiet
<1>2. pc[b] = "descwait" /\ Followed(b) => Followed(b)'
  <2>. SUFFICES ASSUME pc[b] = "descwait", Followed(b) PROVE Followed(b)'
    OBVIOUS
  <2>1. PICK s : /\ Replays(b, events[b], open[b], s)
                 /\ link => s[Len(events[b])] = Trying(b)
    BY DEF Followed
  <2>2. Replays(b, events'[b], open'[b], s)
    BY <2>1 DEF Quiet
  <2>3. link' => s[Len(events'[b])] = Trying(b)'
    BY <2>1 DEF Quiet, Trying
  <2>. QED
    BY <2>2, <2>3 DEF Followed, Replays, Legal, After
<1>. QED
  BY <1>1, <1>2 DEF WaitInv, Quiet

\* c goes on, and does not begin or end a wait, nor hear of an upload.
LEMMA StrollKept ==
  ASSUME TypeOK, NEW c \in Calls, WaitInv(c), UNCHANGED wait,
         pc[c] # "descwait", pc'[c] # "descwait", pc[c] # "bootwait", pc'[c] # "bootwait",
         pc'[c] \in BeforeWait => pc[c] \in BeforeWait
  PROVE  WaitInv(c)'
  BY DEF WaitInv

----------------------------------------------------------------------------
(* Tor reports an upload *)

LEMMA UploadsKept ==
  ASSUME TypeOK, NEW b \in Calls, WaitInv(b), NEW c \in Calls, NEW d \in Dirs,
         NEW from, NEW to, NEW what \in {"UPLOAD", "FAILED", "UPLOADED"},
         Uploads(c, d, from, to, what),
         what = "UPLOAD" <=> to = "trying",
         from = "trying" <=> to # "trying"
  PROVE  WaitInv(b)'
<1>. DEFINE e == [what |-> what, call |-> c, dir |-> d]
<1>1. /\ pc' = pc /\ waiting' = waiting /\ attempted' = attempted
      /\ failures' = failures /\ open' = open /\ missed' = missed /\ link' = link
  BY DEF Uploads
<1>2. CASE pc[b] # "descwait" \/ ~link
  <2>1. events'[b] = events[b]
    BY <1>2 DEF Uploads, Emit, WaitInv
  <2>2. Counted(b) => Counted(b)'
    BY <1>1 DEF Counted
  <2>3. pc[b] = "descwait" /\ Followed(b) => Followed(b)'
    <3>. SUFFICES ASSUME pc[b] = "descwait", Followed(b) PROVE Followed(b)'
      OBVIOUS
    <3>1. PICK s : Replays(b, events[b], open[b], s)
      BY DEF Followed
    <3>2. Replays(b, events'[b], open'[b], s) /\ ~link'
      BY <1>1, <1>2, <2>1, <3>1
    <3>. QED
      BY <3>2 DEF Followed, Replays, Legal, After
  <2>. QED
    BY <1>1, <2>1, <2>2, <2>3 DEF WaitInv
<1>3. CASE pc[b] = "descwait" /\ link
  <2>1. e \in DescEvents /\ e.what = what /\ e.call = c /\ e.dir = d
    BY DEF DescEvents
  <2>2. events[b] \in Seq(DescEvents) /\ events'[b] = Append(events[b], e)
    BY <1>3 DEF WaitInv, Uploads, Emit
  <2>3. events'[b] \in Seq(DescEvents) /\ Len(events'[b]) = Len(events[b]) + 1
    BY <2>1, <2>2
  <2>4. upload[c][d] = from /\ upload' = [upload EXCEPT ![c][d] = to]
        /\ upload \in [Calls -> [Dirs -> {"idle", "trying", "done"}]]
    BY DEF Uploads, TypeOK
  <2>5. ASSUME Followed(b) PROVE Followed(b)'
    <3>1. PICK s : Replays(b, events[b], open[b], s) /\ s[Len(events[b])] = Trying(b)
      BY <1>3, <2>5 DEF Followed
    <3>2. Legal(b, Trying(b), e)
      BY <2>1, <2>4 DEF Legal, Trying
    <3>3. After(b, Trying(b), e) = Trying(b)'
      BY <2>1, <2>4 DEF After, Trying
    <3>4. PICK t : /\ Replays(b, Append(events[b], e), open[b], t)
                   /\ t[Len(events[b]) + 1] = After(b, s[Len(events[b])], e)
      BY <2>1, <2>2, <3>1, <3>2, ReplayAppend
    <3>5. Replays(b, events'[b], open'[b], t) /\ t[Len(events'[b])] = Trying(b)'
      BY <1>1, <2>2, <2>3, <3>1, <3>3, <3>4
    <3>. QED
      BY <3>5 DEF Followed, Replays, Legal, After
  <2>6. Counted(b) => Counted(b)'
    BY <1>1 DEF Counted
  <2>. HIDE DEF e
  <2>. QED
    BY <1>1, <1>3, <2>3, <2>5, <2>6 DEF WaitInv
<1>. QED
  BY <1>2, <1>3

----------------------------------------------------------------------------
(* The steps of others *)

LEMMA EnvironmentKept ==
  ASSUME TypeOK, NEW b \in Calls, WaitInv(b), Tor \/ CloseTor
  PROVE  WaitInv(b)'
<1>1. CASE LinkLost \/ TorExits \/ CloseTor
  <2>1. Quiet(b)
    BY <1>1 DEF LinkLost, TorExits, CloseTor, LinkEnds, Quiet
  <2>. QED
    BY <2>1, QuietKept
<1>2. CASE Bootstrap
  <2>1. /\ pc' = pc /\ waiting' = waiting /\ attempted' = attempted
        /\ failures' = failures /\ open' = open /\ missed' = missed
        /\ link' = link /\ upload' = upload
    BY <1>2 DEF Bootstrap
  <2>2. waiting[b] # "boot" => events'[b] = events[b]
    BY <1>2 DEF Bootstrap, Emit
  <2>3. CASE pc[b] = "bootwait"
    BY <2>1, <2>3 DEF WaitInv, BeforeWait
  <2>4. CASE pc[b] # "bootwait"
    <3>1. Quiet(b)
      BY <2>1, <2>2, <2>4 DEF Quiet, WaitInv
    <3>. QED
      BY <3>1, QuietKept
  <2>. QED
    BY <2>3, <2>4
<1>3. ASSUME NEW c \in Calls, NEW d \in Dirs,
             StartUpload(c, d) \/ UploadFails(c, d) \/ UploadDone(c, d)
      PROVE  WaitInv(b)'
  BY <1>3, UploadsKept DEF StartUpload, UploadFails, UploadDone
<1>. QED
  BY <1>1, <1>2, <1>3 DEF Tor

LEMMA OthersKept ==
  ASSUME TypeOK, NEW c \in Calls, NEW b \in Calls, b # c, WaitInv(b),
         Step(c) \/ Close(c) \/ DialContext(c) \/ Dialing(c) \/ CtxDone(c)
  PROVE  WaitInv(b)'
<1>0. /\ pc \in [Calls -> Busy \cup Ended]
      /\ waiting \in [Calls -> {"none", "boot", "desc"}]
      /\ events \in [Calls -> Seq(BootEvents \cup DescEvents)]
      /\ attempted \in [Calls -> Nat] /\ failures \in [Calls -> Nat]
      /\ open \in [Calls -> SUBSET Dirs] /\ missed \in [Calls -> BOOLEAN]
      /\ upload \in [Calls -> [Dirs -> {"idle", "trying", "done"}]]
  BY DEF TypeOK
<1>. USE DEF Quiet
<1>1. CASE Listen(c) \/ Forward(c) \/ StartNetwork(c) \/ GetConf(c) \/ SetConf(c)
             \/ SetConfFails(c)
  <2>1. Quiet(b)
    BY <1>0, <1>1 DEF Listen, Forward, StartNetwork, GetConf, SetConf, SetConfFails
  <2>. QED
    BY <2>1, QuietKept
<1>2. CASE AddOnion(c) \/ AddOnionLost(c) \/ AddOnionFails(c) \/ Undo(c) \/ Close(c)
  <2>1. Quiet(b)
    BY <1>0, <1>2 DEF AddOnion, AddOnionLost, AddOnionFails, Undo, Close,
       NilClose, Panic, CloseService, DelOnion
  <2>. QED
    BY <2>1, QuietKept
<1>3. CASE SubscribeBoot(c) \/ SubscribeDesc(c) \/ SubscribeFails(c) \/ WaitFails(c)
             \/ BootEvent(c)
  <2>1. Quiet(b)
    BY <1>0, <1>3 DEF SubscribeBoot, SubscribeDesc, Subscribe, SubscribeFails, WaitFails,
       BootEvent, Unsubscribed
  <2>. QED
    BY <2>1, QuietKept
<1>4. CASE SkipOther(c) \/ SeeUpload(c) \/ SeeFailure(c) \/ SeeSuccess(c)
  <2>1. Quiet(b)
    BY <1>0, <1>4 DEF SkipOther, SeeUpload, SeeFailure, SeeSuccess, Unsubscribed
  <2>. QED
    BY <2>1, QuietKept
<1>5. CASE GetInfo(c) \/ SelectDial(c) \/ NilControl(c) \/ DialContext(c) \/ Dialing(c)
             \/ CtxDone(c)
  <2>1. Quiet(b)
    BY <1>0, <1>5 DEF GetInfo, SelectDial, NilControl, Panic, DialContext, Dialing, DialEnds,
       CheckCtx, HandOver, CtxDone
  <2>. QED
    BY <2>1, QuietKept
<1>. QED
  BY <1>1, <1>2, <1>3, <1>4, <1>5 DEF Step

----------------------------------------------------------------------------
(* The steps of the call, and its uploads *)

LEMMA BegunKept ==
  ASSUME TypeOK, NEW c \in Calls, WaitInv(c), SubscribeBoot(c) \/ SubscribeDesc(c)
  PROVE  WaitInv(c)'
<1>1. CASE SubscribeBoot(c)
  BY <1>1 DEF SubscribeBoot, Subscribe, WaitInv, BeforeWait, NetPcs, TypeOK
<1>2. CASE SubscribeDesc(c)
  <2>1. /\ pc[c] = "descsub" /\ pc'[c] = "descwait" /\ waiting'[c] = "desc"
        /\ events' = events /\ attempted' = attempted /\ failures' = failures
        /\ open' = open /\ link' = link /\ upload' = upload
        /\ missed'[c] = \E d \in Dirs : upload[c][d] = "trying"
    BY <1>2 DEF SubscribeDesc, Subscribe, TypeOK
  <2>2. attempted[c] = 0 /\ failures[c] = 0 /\ open[c] = {} /\ events[c] = <<>>
    BY <2>1 DEF WaitInv, BeforeWait, TypeOK
  <2>3. Counted(c)'
    BY <2>1, <2>2, FS_EmptySet DEF Counted
  <2>4. ASSUME ~missed'[c] PROVE Followed(c)'
    <3>. DEFINE s == [i \in 0..0 |-> {}]
    <3>1. Trying(c)' = {}
      BY <2>1, <2>4 DEF Trying
    <3>2. Len(events'[c]) = 0 /\ open'[c] = {}
      BY <2>1, <2>2
    <3>3. s \in [0..0 -> SUBSET Dirs] /\ s[0] = {}
      OBVIOUS
    <3>. HIDE DEF s
    <3>4. Replays(c, events'[c], open'[c], s)
      BY <3>2, <3>3 DEF Replays
    <3>. QED
      BY <3>1, <3>2, <3>3, <3>4 DEF Followed, Replays, Legal, After
  <2>5. events'[c] \in Seq(DescEvents)
    BY <2>1, <2>2
  <2>. QED
    BY <2>1, <2>3, <2>4, <2>5 DEF WaitInv, BeforeWait, NetPcs
<1>. QED
  BY <1>1, <1>2

\* The event at hand is one that can happen to the uploads seen.
LEMMA LegalNext ==
  ASSUME NEW c \in Calls, Followed(c), events[c] \in Seq(DescEvents), events[c] # <<>>
  PROVE  Legal(c, open[c], Head(events[c]))
  BY ReplayTail DEF Followed

\* It is taken from the channel, and the uploads seen follow it.
LEMMA FollowedOn ==
  ASSUME NEW c \in Calls, Followed(c), events[c] \in Seq(DescEvents),
         events[c] # <<>>, events'[c] = Tail(events[c]),
         open'[c] = After(c, open[c], Head(events[c])),
         UNCHANGED <<link, upload>>
  PROVE  Followed(c)'
<1>1. PICK s : /\ Replays(c, events[c], open[c], s)
               /\ link => s[Len(events[c])] = Trying(c)
  BY DEF Followed
<1>2. PICK t : /\ Replays(c, Tail(events[c]), After(c, open[c], Head(events[c])), t)
               /\ t[Len(Tail(events[c]))] = s[Len(events[c])]
  BY <1>1, ReplayTail
<1>3. /\ Replays(c, events'[c], open'[c], t)
      /\ link' => t[Len(events'[c])] = Trying(c)'
  BY <1>1, <1>2 DEF Trying
<1>. QED
  BY <1>3 DEF Followed, Replays, Legal, After

LEMMA HeardKept ==
  ASSUME TypeOK, NEW c \in Calls, WaitInv(c),
         SkipOther(c) \/ SeeUpload(c) \/ (SeeFailure(c) /\ ~AllFailed(c))
  PROVE  WaitInv(c)'
<1>. DEFINE e == Head(events[c])
<1>1. /\ pc[c] = "descwait" /\ pc'[c] = "descwait" /\ waiting' = waiting
      /\ missed' = missed /\ link' = link /\ upload' = upload
      /\ events[c] # <<>> /\ events'[c] = Tail(events[c])
  BY DEF SkipOther, SeeUpload, SeeFailure, Others, NextIs, Heard, TypeOK
<1>2. events[c] \in Seq(DescEvents)
  BY <1>1 DEF WaitInv
<1>3. events'[c] \in Seq(DescEvents) /\ e \in DescEvents
  BY <1>1, <1>2
<1>4. open'[c] = After(c, open[c], e)
  BY <1>3 DEF SkipOther, SeeUpload, SeeFailure, Others, NextIs, After, DescEvents, TypeOK
<1>5. ASSUME ~missed[c] PROVE Counted(c)' /\ Followed(c)'
  <2>1. Counted(c) /\ Followed(c)
    BY <1>1, <1>5 DEF WaitInv
  <2>2. Legal(c, open[c], e) /\ Followed(c)'
    BY <1>1, <1>2, <1>4, <2>1, LegalNext, FollowedOn
  <2>3. IsFiniteSet(open[c]) /\ Cardinality(open[c]) \in Nat
        /\ attempted[c] \in Nat /\ failures[c] \in Nat
        /\ attempted[c] = failures[c] + Cardinality(open[c])
    BY <2>1, FS_CardinalityType DEF Counted, TypeOK
  <2>4. CASE SkipOther(c)
    <3>1. open' = open /\ attempted' = attempted /\ failures' = failures
      BY <2>4 DEF SkipOther
    <3>. QED
      BY <2>1, <2>2, <3>1 DEF Counted
  <2>5. CASE SeeUpload(c)
    <3>1. /\ e.dir \notin open[c] /\ open'[c] = open[c] \cup {e.dir}
          /\ attempted'[c] = attempted[c] + 1 /\ failures' = failures
      BY <2>2, <2>5 DEF SeeUpload, NextIs, Legal, TypeOK
    <3>. HIDE DEF e
    <3>2. IsFiniteSet(open'[c]) /\ Cardinality(open'[c]) = Cardinality(open[c]) + 1
      BY <2>3, <3>1, FS_AddElement
    <3>3. attempted'[c] = failures'[c] + Cardinality(open'[c]) /\ open'[c] # {}
      BY <2>3, <3>1, <3>2
    <3>. QED
      BY <2>2, <3>2, <3>3 DEF Counted
  <2>6. CASE SeeFailure(c) /\ ~AllFailed(c)
    <3>1. /\ e.dir \in open[c] /\ open'[c] = open[c] \ {e.dir}
          /\ attempted' = attempted /\ failures'[c] = failures[c] + 1
          /\ failures[c] + 1 # attempted[c]
      BY <2>2, <2>6 DEF SeeFailure, NextIs, Legal, AllFailed, TypeOK
    <3>. HIDE DEF e
    <3>2. IsFiniteSet(open'[c]) /\ Cardinality(open'[c]) = Cardinality(open[c]) - 1
      BY <2>3, <3>1, FS_RemoveElement
    <3>3. Cardinality(open'[c]) # 0 /\ attempted'[c] = failures'[c] + Cardinality(open'[c])
      BY <2>3, <3>1, <3>2
    <3>4. open'[c] # {}
      BY <3>3, FS_EmptySet
    <3>. QED
      BY <2>2, <3>2, <3>3, <3>4 DEF Counted
  <2>. QED
    BY <2>4, <2>5, <2>6
<1>. HIDE DEF e
<1>. QED
  BY <1>1, <1>3, <1>5 DEF WaitInv, BeforeWait, NetPcs

\* The wait ends.
LEMMA EndedKept ==
  ASSUME TypeOK, NEW c \in Calls, WaitInv(c),
         \/ WaitFails(c) \/ BootEvent(c) \/ SeeSuccess(c)
         \/ (SeeFailure(c) /\ AllFailed(c))
  PROVE  WaitInv(c)'
<1>0. /\ pc \in [Calls -> Busy \cup Ended]
      /\ waiting \in [Calls -> {"none", "boot", "desc"}]
      /\ events \in [Calls -> Seq(BootEvents \cup DescEvents)]
  BY DEF TypeOK
<1>1. waiting'[c] = "none" /\ events'[c] = <<>>
  BY <1>0 DEF WaitFails, BootEvent, SeeSuccess, SeeFailure, Unsubscribed
<1>2. pc'[c] \notin {"descwait", "bootwait"}
  BY <1>0 DEF WaitFails, BootEvent, SeeSuccess, SeeFailure, OnError, AfterNetwork
<1>3. pc'[c] \in BeforeWait => attempted'[c] = 0 /\ failures'[c] = 0 /\ open'[c] = {}
  <2>1. CASE BootEvent(c)
    BY <2>1 DEF BootEvent, WaitInv, BeforeWait, NetPcs
  <2>2. CASE ~BootEvent(c)
    BY <1>0, <2>2 DEF WaitFails, SeeSuccess, SeeFailure, OnError, BeforeWait, NetPcs
  <2>. QED
    BY <2>1, <2>2
<1>. QED
  BY <1>1, <1>2, <1>3 DEF WaitInv

LEMMA OwnKept ==
  ASSUME TypeOK, NEW c \in Calls, WaitInv(c),
         Step(c) \/ Close(c) \/ DialContext(c) \/ Dialing(c) \/ CtxDone(c)
  PROVE  WaitInv(c)'
<1>0. pc \in [Calls -> Busy \cup Ended]
  BY DEF TypeOK
<1>1. CASE Listen(c) \/ Forward(c) \/ StartNetwork(c) \/ GetConf(c) \/ SetConf(c)
             \/ SetConfFails(c)
  <2>1. /\ UNCHANGED wait
        /\ {pc[c], pc'[c]} \cap {"descwait", "bootwait"} = {}
        /\ pc[c] \in BeforeWait
    BY <1>0, <1>1 DEF Listen, Forward, StartNetwork, GetConf, SetConf, SetConfFails,
       AfterNetwork, OnError, BeforeWait, NetPcs
  <2>. QED
    BY <2>1, StrollKept
<1>2. CASE AddOnion(c) \/ AddOnionLost(c) \/ AddOnionFails(c) \/ Undo(c) \/ Close(c)
  <2>1. /\ UNCHANGED wait
        /\ {pc[c], pc'[c]} \cap {"descwait", "bootwait"} = {}
        /\ pc'[c] \in BeforeWait => pc[c] \in BeforeWait
    BY <1>0, <1>2 DEF AddOnion, AddOnionLost, AddOnionFails, AfterAdd, Undo, Close,
       NilClose, Panic, CloseService, BeforeWait, NetPcs
  <2>. QED
    BY <2>1, StrollKept
<1>3. CASE SubscribeFails(c) \/ GetInfo(c) \/ SelectDial(c) \/ DialContext(c)
  <2>1. /\ UNCHANGED wait
        /\ {pc[c], pc'[c]} \cap {"descwait", "bootwait"} = {}
        /\ pc'[c] \notin BeforeWait
    BY <1>0, <1>3 DEF SubscribeFails, GetInfo, SelectDial, DialContext, OnError,
       BeforeWait, NetPcs
  <2>. QED
    BY <2>1, StrollKept
<1>4. CASE NilControl(c) \/ Dialing(c) \/ CtxDone(c)
  <2>1. Quiet(c)
    BY <1>4 DEF NilControl, Panic, Dialing, DialEnds, CheckCtx, HandOver, CtxDone, Quiet
  <2>. QED
    BY <2>1, QuietKept
<1>. QED
  BY <1>1, <1>2, <1>3, <1>4, BegunKept, HeardKept, EndedKept DEF Step

----------------------------------------------------------------------------
(* The theorems about uploads *)

CountInv == TypeOK /\ \A c \in Calls : WaitInv(c)

LEMMA CountInit == Init => CountInv
<1>. SUFFICES ASSUME Init PROVE CountInv
  OBVIOUS
<1>1. ASSUME NEW c \in Calls PROVE WaitInv(c)
  BY DEF Init, WaitInv
<1>. QED
  BY <1>1, TypeInit DEF CountInv

LEMMA CountStep == CountInv /\ [Next]_vars => CountInv'
<1>. SUFFICES ASSUME CountInv, [Next]_vars PROVE CountInv'
  OBVIOUS
<1>1. TypeOK /\ TypeOK'
  BY TypeStep DEF CountInv
<1>2. ASSUME NEW b \in Calls PROVE WaitInv(b)'
  <2>1. CASE UNCHANGED vars
    <3>1. Quiet(b)
      BY <2>1 DEF vars, Quiet
    <3>. QED
      BY <3>1, QuietKept DEF CountInv
  <2>2. CASE Tor \/ CloseTor
    BY <1>1, <2>2, EnvironmentKept DEF CountInv
  <2>3. ASSUME NEW c \in Calls,
               Step(c) \/ Close(c) \/ DialContext(c) \/ Dialing(c) \/ CtxDone(c)
        PROVE  WaitInv(b)'
    BY <1>1, <2>3, OthersKept, OwnKept DEF CountInv
  <2>. QED
    BY <2>1, <2>2, <2>3 DEF Next
<1>. QED
  BY <1>1, <1>2 DEF CountInv

LEMMA CountHolds == Spec => []CountInv
  BY CountInit, CountStep, PTL DEF Spec

\* Listen and Forward wait on only while some upload that they have seen start
\* has not been seen to end, when none was under way as they subscribed
\* (listen.go:205-228).
THEOREM WaitsForUpload == Spec => []WaitHasUpload
<1>1. CountInv => WaitHasUpload
  BY DEF CountInv, WaitInv, Counted, WaitHasUpload
<1>. QED
  BY <1>1, CountHolds, PTL

\* The step in which the failures of c change is its own.
LEMMA FailureSeen ==
  ASSUME TypeOK, Next, NEW c \in Calls, failures'[c] # failures[c]
  PROVE  SeeFailure(c)
<1>1. ~(Tor \/ CloseTor)
  BY DEF Tor, CloseTor, LinkLost, TorExits, LinkEnds, Bootstrap, StartUpload, UploadFails,
     UploadDone, Uploads
<1>2. PICK b \in Calls : Step(b) \/ Close(b) \/ DialContext(b) \/ Dialing(b) \/ CtxDone(b)
  BY <1>1 DEF Next
<1>3. SeeFailure(b)
  <2>1. ~(Listen(b) \/ Forward(b) \/ StartNetwork(b) \/ GetConf(b) \/ SetConf(b)
            \/ SetConfFails(b))
    BY DEF Listen, Forward, StartNetwork, GetConf, SetConf, SetConfFails
  <2>2. ~(AddOnion(b) \/ AddOnionLost(b) \/ AddOnionFails(b) \/ Undo(b) \/ Close(b))
    BY DEF AddOnion, AddOnionLost, AddOnionFails, Undo, Close, NilClose, Panic, CloseService
  <2>3. ~(SubscribeBoot(b) \/ SubscribeDesc(b) \/ SubscribeFails(b) \/ WaitFails(b)
            \/ BootEvent(b))
    BY DEF SubscribeBoot, SubscribeDesc, Subscribe, SubscribeFails, WaitFails, BootEvent
  <2>4. ~(SkipOther(b) \/ SeeUpload(b) \/ SeeSuccess(b))
    BY DEF SkipOther, SeeUpload, SeeSuccess
  <2>5. ~(GetInfo(b) \/ SelectDial(b) \/ NilControl(b) \/ DialContext(b) \/ Dialing(b)
            \/ CtxDone(b))
    BY DEF GetInfo, SelectDial, NilControl, Panic, DialContext, Dialing, DialEnds, CheckCtx,
       HandOver, CtxDone
  <2>. QED
    BY <1>2, <2>1, <2>2, <2>3, <2>4, <2>5 DEF Step
<1>. QED
  BY <1>3 DEF SeeFailure, TypeOK

\* What makes them give up is the end of the last upload under way: the equality
\* of two counters (listen.go:220) stands for an empty set of uploads.
THEOREM VerdictSoundTruly == Spec => VerdictSound
<1>1. ASSUME CountInv, Next, NEW c \in Calls,
             failures'[c] # failures[c], pc'[c] # pc[c], ~missed[c]
      PROVE  open'[c] = {}
  <2>. DEFINE e == Head(events[c])
  <2>1. SeeFailure(c)
    BY <1>1, FailureSeen DEF CountInv
  <2>2. pc[c] = "descwait" /\ events[c] # <<>> /\ AllFailed(c)
    BY <1>1, <2>1 DEF SeeFailure, NextIs, Heard, CountInv, TypeOK
  <2>3. events[c] \in Seq(DescEvents) /\ Counted(c) /\ Followed(c)
    BY <1>1, <2>2 DEF CountInv, WaitInv
  <2>4. Legal(c, open[c], e)
    BY <2>2, <2>3, LegalNext
  <2>5. e.dir \in open[c] /\ open'[c] = open[c] \ {e.dir}
    BY <1>1, <2>1, <2>4 DEF SeeFailure, NextIs, Legal, CountInv, TypeOK
  <2>6. Cardinality(open[c]) = 1
    BY <1>1, <2>2, <2>3, FS_CardinalityType DEF AllFailed, Counted, CountInv, TypeOK
  <2>. HIDE DEF e
  <2>7. IsFiniteSet(open'[c]) /\ Cardinality(open'[c]) = 0
    BY <2>3, <2>5, <2>6, FS_RemoveElement DEF Counted
  <2>. QED
    BY <2>7, FS_EmptySet
<1>2. CountInv /\ [Next]_vars
        => [\A c \in Calls :
              failures'[c] # failures[c] /\ pc'[c] # pc[c] /\ ~missed[c]
                => open'[c] = {}]_vars
  BY <1>1
<1>. QED
  BY <1>2, CountHolds, PTL DEF Spec, VerdictSound
=============================================================================
