----------------------------- MODULE TorNetwork -----------------------------
(***************************************************************************)
(* The calls of package tor that use a running Tor: EnableNetwork (tor.go),*)
(* Listen, Forward and the Close of what they return (listen.go,           *)
(* forward.go), Dialer and DialContext (dialer.go), made by goroutines     *)
(* that share one Tor value.                                               *)
(*                                                                         *)
(* c in Calls names one call, the service or dialer it makes, and the      *)
(* goroutine that makes it.  An exchange on the control connection is one  *)
(* step; it is answered, refused or broken.  An EventWait gets the events  *)
(* emitted from its SETEVENTS on, in order, as ControlConn has it.  Tor,   *)
(* the proxy and the context are external.                                 *)
(***************************************************************************)
EXTENDS Integers, Sequences, FiniteSets

CONSTANTS
  Calls,
  Confs,      \* the arguments the calls of a behaviour may have
  Dirs,       \* the directories a descriptor is uploaded to
  MaxTries    \* bound: uploads of the descriptor of each call's service

(* The arguments that differ for the model.                                *)
(*   wait   ~NoWait, ~SkipEnableNetwork, or EnableNetwork's parameter      *)
(*   given  LocalListener or ProxyAddress is set                           *)
(*   valid  the key has a known type and the ports can be derived          *)
Kinds == {"listen", "forward", "dial", "enable"}
ConfType == [kind : Kinds, wait : BOOLEAN, given : BOOLEAN, valid : BOOLEAN,
             detach : BOOLEAN]

ASSUME ConfAssumption == Confs \subseteq [Calls -> ConfType]
ASSUME BoundAssumption == MaxTries \in [Calls -> Nat]

VARIABLES
  conf, pc,
  id,           \* the ID of OnionService or OnionForward is set
  local,        \* the local listener
  waiting,      \* what the EventWait of the call listens for
  events,       \* its channel
  attempted,    \* uploadsAttempted
  failures,     \* len(failures)
  dial,         \* the goroutine of DialContext
  conn,         \* the connection it made
  held,         \* DialContext has returned it
  ctxDone,
  \* the program
  control,      \* Tor.Control is set
  crashed,
  \* the environment
  link,         \* the control connection is usable
  netOff,       \* DisableNetwork is 1
  boot,         \* the bootstrap of Tor
  service,      \* the onion services Tor has
  upload,       \* the upload of its descriptor to each directory
  tries,        \* the uploads so far
  \* history
  lost,         \* Tor made a service whose ID did not reach the program
  closeErr,     \* a Close of the service returned an error
  published,    \* some upload of the descriptor was accepted
  enabled,      \* the call's own SETCONF was accepted
  open,         \* uploads whose start the call saw, and not yet their end
  missed        \* an upload was under way when the call subscribed

wait == <<waiting, events, attempted, failures, open, missed>>
onion == <<id, local>>
dialing == <<dial, conn, held>>
tor == <<netOff, boot, service, upload, tries, published>>
history == <<lost, closeErr, enabled>>
vars == <<conf, pc, onion, wait, dialing, ctxDone, control, crashed, link, tor,
          history>>

NetPcs == {"getconf", "setconf", "bootsub", "bootwait"}
OnionPcs == {"add", "descsub", "descwait", "undo"}
Busy == NetPcs \cup OnionPcs \cup {"start", "getinfo", "select"}
Ended == {"done", "failed", "closed", "dialed"}

\* STATUS_CLIENT BOOTSTRAP: PROGRESS=100, or severity ERR; HS_DESC.
BootEvents == [what : {"100", "ERR"}]
DescEvents == [what : {"UPLOAD", "FAILED", "UPLOADED"}, call : Calls, dir : Dirs]

TypeOK ==
  /\ conf \in Confs
  /\ pc \in [Calls -> Busy \cup Ended]
  /\ id \in [Calls -> BOOLEAN]
  /\ local \in [Calls -> {"none", "open", "closed"}]
  /\ waiting \in [Calls -> {"none", "boot", "desc"}]
  /\ events \in [Calls -> Seq(BootEvents \cup DescEvents)]
  /\ attempted \in [Calls -> Nat] /\ failures \in [Calls -> Nat]
  /\ dial \in [Calls -> {"none", "dialing", "opened", "checked", "sent",
                         "error", "dropped"}]
  /\ conn \in [Calls -> {"none", "open", "closed"}]
  /\ held \in [Calls -> BOOLEAN] /\ ctxDone \in [Calls -> BOOLEAN]
  /\ control \in BOOLEAN /\ crashed \in BOOLEAN
  /\ link \in BOOLEAN /\ netOff \in BOOLEAN
  /\ boot \in {"off", "going", "warned", "done"}
  /\ service \in [Calls -> BOOLEAN]
  /\ upload \in [Calls -> [Dirs -> {"idle", "trying", "done"}]]
  /\ tries \in [Calls -> Nat]
  /\ lost \in [Calls -> BOOLEAN] /\ closeErr \in [Calls -> BOOLEAN]
  /\ published \in [Calls -> BOOLEAN] /\ enabled \in [Calls -> BOOLEAN]
  /\ open \in [Calls -> SUBSET Dirs] /\ missed \in [Calls -> BOOLEAN]

NoUpload == [d \in Dirs |-> "idle"]

\* Tor was started with DisableNetwork set, or has its network already.
Init ==
  /\ conf \in Confs /\ pc = [c \in Calls |-> "start"]
  /\ id = [c \in Calls |-> FALSE] /\ local = [c \in Calls |-> "none"]
  /\ waiting = [c \in Calls |-> "none"] /\ events = [c \in Calls |-> <<>>]
  /\ attempted = [c \in Calls |-> 0] /\ failures = [c \in Calls |-> 0]
  /\ dial = [c \in Calls |-> "none"] /\ conn = [c \in Calls |-> "none"]
  /\ held = [c \in Calls |-> FALSE] /\ ctxDone = [c \in Calls |-> FALSE]
  /\ control = TRUE /\ crashed = FALSE /\ link = TRUE
  /\ \/ netOff = TRUE /\ boot = "off"
     \/ netOff = FALSE /\ boot = "done"
  /\ service = [c \in Calls |-> FALSE]
  /\ upload = [c \in Calls |-> NoUpload] /\ tries = [c \in Calls |-> 0]
  /\ lost = [c \in Calls |-> FALSE] /\ closeErr = [c \in Calls |-> FALSE]
  /\ published = [c \in Calls |-> FALSE] /\ enabled = [c \in Calls |-> FALSE]
  /\ open = [c \in Calls |-> {}] /\ missed = [c \in Calls |-> FALSE]

Goto(c, from, to) ==
  /\ ~crashed
  /\ pc[c] = from
  /\ pc' = [pc EXCEPT ![c] = to]

IsOnion(c) == conf[c].kind \in {"listen", "forward"}

\* Where a call goes on an error: Listen and Forward close what they made.
OnError(c) == IF IsOnion(c) THEN "undo" ELSE "failed"

\* What the caller of EnableNetwork does next.
AfterNetwork(c) == IF IsOnion(c) THEN "descsub"
                   ELSE IF conf[c].kind = "dial" THEN "getinfo" ELSE "done"

\* A command on the Control that Tor.Close has unset panics.
Panic ==
  /\ ~crashed /\ ~control
  /\ crashed' = TRUE
  /\ UNCHANGED <<conf, pc, onion, wait, dialing, ctxDone, control, link, tor,
                 history>>

NilControl(c) ==
  /\ \/ pc[c] \in {"add", "getconf", "setconf", "bootsub", "descsub"}
     \/ pc[c] = "undo" /\ id[c]
     \/ pc[c] = "getinfo" /\ ~conf[c].given
  /\ Panic

----------------------------------------------------------------------------
(* Listen and Forward *)

\* Mutant of Listen: an error found before ADD_ONION returns at once.
ListenUnclosed(c) ==
  /\ conf[c].kind = "listen"
  /\ \/ /\ Goto(c, "start", IF conf[c].valid THEN "add" ELSE "failed")
        /\ local' = [local EXCEPT ![c] = "open"]
     \/ /\ ~conf[c].given
        /\ Goto(c, "start", "failed")
        /\ UNCHANGED local
  /\ UNCHANGED <<conf, id, wait, dialing, ctxDone, control, crashed, link, tor,
                 history>>

\* The local listener is made first, or was given; key and ports come next.
Listen(c) ==
  /\ conf[c].kind = "listen"
  /\ \/ /\ Goto(c, "start", IF conf[c].valid THEN "add" ELSE "undo")
        /\ local' = [local EXCEPT ![c] = "open"]
     \/ /\ ~conf[c].given
        /\ Goto(c, "start", "failed")
        /\ UNCHANGED local
  /\ UNCHANGED <<conf, id, wait, dialing, ctxDone, control, crashed, link, tor,
                 history>>

Forward(c) ==
  /\ conf[c].kind = "forward"
  /\ Goto(c, "start", IF conf[c].valid THEN "add" ELSE "undo")
  /\ UNCHANGED <<conf, onion, wait, dialing, ctxDone, control, crashed, link,
                 tor, history>>

AfterAdd(c) == IF conf[c].wait THEN "getconf" ELSE "done"

\* ADD_ONION succeeds; the program reads the ID, and perhaps an unknown key.
AddOnion(c) ==
  /\ control /\ link
  /\ Goto(c, "add", AfterAdd(c)) \/ Goto(c, "add", "undo")
  /\ service' = [service EXCEPT ![c] = TRUE]
  /\ id' = [id EXCEPT ![c] = TRUE]
  /\ UNCHANGED <<conf, local, wait, dialing, ctxDone, control, crashed, link,
                 netOff, boot, upload, tries, published, history>>

\* The services that outlive the control connection.
Detached == [c \in Calls |-> service[c] /\ conf[c].detach]

\* ADD_ONION succeeds, but its answer is lost with the connection, or holds a
\* key that cannot be decoded: AddOnion returns nil.
AddOnionLost(c) ==
  /\ control /\ link
  /\ Goto(c, "add", "undo")
  /\ lost' = [lost EXCEPT ![c] = TRUE]
  /\ \/ /\ service' = [service EXCEPT ![c] = TRUE]
        /\ UNCHANGED <<link, upload>>
     \/ /\ service' = [Detached EXCEPT ![c] = conf[c].detach]
        /\ link' = FALSE
        /\ upload' = [b \in Calls |-> IF service'[b] THEN upload[b] ELSE NoUpload]
  /\ UNCHANGED <<conf, onion, wait, dialing, ctxDone, control, crashed, netOff,
                 boot, tries, published, closeErr, enabled>>

\* ADD_ONION is refused, or the connection breaks (or was closed by Tor.Close
\* once the call had taken it): so below with every command that fails.
AddOnionFails(c) ==
  /\ Goto(c, "add", "undo")
  /\ UNCHANGED <<conf, onion, wait, dialing, ctxDone, control, crashed, link,
                 tor, history>>

\* DEL_ONION is accepted, or refused, or the program has no ID to send; the
\* result of Close.  Without Control there is no result (NilControl, NilClose).
DelOnion(c) ==
  \/ /\ id[c] /\ control /\ link
     /\ service' = [service EXCEPT ![c] = FALSE]
     /\ upload' = [upload EXCEPT ![c] = NoUpload]
     /\ UNCHANGED closeErr
  \/ /\ id[c] /\ control
     /\ closeErr' = [closeErr EXCEPT ![c] = TRUE]
     /\ UNCHANGED <<service, upload>>
  \/ /\ ~id[c]
     /\ UNCHANGED <<service, upload, closeErr>>

\* Mutant of CloseService: the error of DEL_ONION is not returned.
CloseServiceSilent(c, from, to) ==
  /\ IsOnion(c)
  /\ Goto(c, from, to)
  /\ \/ /\ id[c] /\ control /\ link
        /\ service' = [service EXCEPT ![c] = FALSE]
        /\ upload' = [upload EXCEPT ![c] = NoUpload]
     \/ (id[c] => control) /\ UNCHANGED <<service, upload>>
  /\ id' = [id EXCEPT ![c] = FALSE]
  /\ local' = [local EXCEPT ![c] = IF @ = "open" /\ ~conf[c].given
                                     THEN "closed" ELSE @]
  /\ UNCHANGED <<conf, wait, dialing, ctxDone, control, crashed, link, netOff,
                 boot, tries, published, history>>

\* Close of OnionService and OnionForward: the ID is forgotten whatever
\* DEL_ONION returned, a listener that Listen made is closed.
CloseService(c, from, to) ==
  /\ IsOnion(c)
  /\ Goto(c, from, to)
  /\ DelOnion(c)
  /\ id' = [id EXCEPT ![c] = FALSE]
  /\ local' = [local EXCEPT ![c] = IF @ = "open" /\ ~conf[c].given
                                     THEN "closed" ELSE @]
  /\ UNCHANGED <<conf, wait, dialing, ctxDone, control, crashed, link, netOff,
                 boot, tries, published, lost, enabled>>

\* After an error Listen and Forward close the service and return nil.
Undo(c) == CloseService(c, "undo", "failed")

\* The user closes a service that has its ID after Tor.Close.
NilClose(c) == IsOnion(c) /\ pc[c] = "done" /\ id[c] /\ Panic

\* The user closes the service, once or again.
Close(c) ==
  \/ CloseService(c, "done", "closed") \/ CloseService(c, "closed", "closed")
  \/ NilClose(c)

----------------------------------------------------------------------------
(* EnableNetwork *)

\* Dialer and EnableNetwork itself start here.
StartNetwork(c) ==
  /\ ~IsOnion(c)
  /\ \/ conf[c].kind = "enable" /\ Goto(c, "start", "getconf")
     \/ /\ conf[c].kind = "dial"
        /\ Goto(c, "start", IF conf[c].wait THEN "getconf" ELSE "getinfo")
  /\ UNCHANGED <<conf, onion, wait, dialing, ctxDone, control, crashed, link,
                 tor, history>>

\* The network is on: nothing to do, and nothing to wait for.  It is taken to
\* be on when the connection ends before the 1 in DisableNetwork=1 (response.go:58).
GetConf(c) ==
  /\ \/ control /\ link /\ Goto(c, "getconf", IF netOff THEN "setconf" ELSE AfterNetwork(c))
     \/ ~link /\ Goto(c, "getconf", AfterNetwork(c))
     \/ Goto(c, "getconf", OnError(c))
  /\ UNCHANGED <<conf, onion, wait, dialing, ctxDone, control, crashed, link,
                 tor, history>>

SetConf(c) ==
  /\ control /\ link
  /\ Goto(c, "setconf", IF conf[c].kind # "enable" \/ conf[c].wait
                          THEN "bootsub" ELSE "done")
  /\ netOff' = FALSE
  /\ boot' = IF boot = "off" THEN "going" ELSE boot
  /\ enabled' = [enabled EXCEPT ![c] = TRUE]
  /\ UNCHANGED <<conf, onion, wait, dialing, ctxDone, control, crashed, link,
                 service, upload, tries, published, lost, closeErr>>

\* SETCONF fails and EnableNetwork returns nil.
SetConfFails(c) ==
  /\ Goto(c, "setconf", AfterNetwork(c))
  /\ UNCHANGED <<conf, onion, wait, dialing, ctxDone, control, crashed, link,
                 tor, history>>

\* EventWait registers its channel and SETEVENTS is accepted.
Subscribe(c, what, from, to) ==
  /\ control /\ link
  /\ Goto(c, from, to)
  /\ waiting' = [waiting EXCEPT ![c] = what]
  /\ missed' = [missed EXCEPT ![c] =
                  \E d \in Dirs : upload[c][d] = "trying"]
  /\ UNCHANGED <<conf, onion, events, attempted, failures, open, dialing,
                 ctxDone, control, crashed, link, tor, history>>

SubscribeBoot(c) == Subscribe(c, "boot", "bootsub", "bootwait")
SubscribeDesc(c) == Subscribe(c, "desc", "descsub", "descwait")

SubscribeFails(c) ==
  /\ Goto(c, "bootsub", OnError(c)) \/ Goto(c, "descsub", OnError(c))
  /\ UNCHANGED <<conf, onion, wait, dialing, ctxDone, control, crashed, link,
                 tor, history>>

\* EventWait ends: its channel is out of reach.
Unsubscribed(c) ==
  /\ waiting' = [waiting EXCEPT ![c] = "none"]
  /\ events' = [events EXCEPT ![c] = <<>>]


\* EventWait ends because its context or the connection does.
WaitFails(c) ==
  /\ ctxDone[c] \/ ~link
  /\ Goto(c, "bootwait", OnError(c)) \/ Goto(c, "descwait", OnError(c))
  /\ Unsubscribed(c)
  /\ UNCHANGED <<conf, onion, attempted, failures, open, missed, dialing,
                 ctxDone, control, crashed, link, tor, history>>

\* Mutant of BootEvent: any progress counts as the last.
BootEventAny(c) ==
  /\ pc[c] = "bootwait" /\ events[c] # <<>>
  /\ Goto(c, "bootwait", AfterNetwork(c))
  /\ Unsubscribed(c)
  /\ UNCHANGED <<conf, onion, attempted, failures, open, missed, dialing,
                 ctxDone, control, crashed, link, tor, history>>

\* The predicate of EnableNetwork: progress 100 ends the wait, ERR fails it.
BootEvent(c) ==
  /\ pc[c] = "bootwait" /\ events[c] # <<>>
  /\ Goto(c, "bootwait", IF Head(events[c]).what = "100"
                           THEN AfterNetwork(c) ELSE OnError(c))
  /\ Unsubscribed(c)
  /\ UNCHANGED <<conf, onion, attempted, failures, open, missed, dialing,
                 ctxDone, control, crashed, link, tor, history>>

----------------------------------------------------------------------------
(* The wait for publication *)

\* The event at the head of the channel, for this service and for another.
Heard(c) == pc[c] = "descwait" /\ events[c] # <<>>
Others(c) == Heard(c) /\ Head(events[c]).call # c
NextIs(c, what) ==
  Heard(c) /\ Head(events[c]).call = c /\ Head(events[c]).what = what

SkipOther(c) ==
  /\ Others(c) /\ Goto(c, "descwait", "descwait")
  /\ events' = [events EXCEPT ![c] = Tail(@)]
  /\ UNCHANGED <<conf, onion, waiting, attempted, failures, open, missed,
                 dialing, ctxDone, control, crashed, link, tor, history>>

\* Mutant of SeeUpload: the count goes down.
SeeUploadDown(c) ==
  /\ NextIs(c, "UPLOAD") /\ Goto(c, "descwait", "descwait")
  /\ events' = [events EXCEPT ![c] = Tail(@)]
  /\ attempted' = [attempted EXCEPT ![c] = @ - 1]
  /\ open' = [open EXCEPT ![c] = @ \cup {Head(events[c]).dir}]
  /\ UNCHANGED <<conf, onion, waiting, failures, missed, dialing, ctxDone,
                 control, crashed, link, tor, history>>

SeeUpload(c) ==
  /\ NextIs(c, "UPLOAD") /\ Goto(c, "descwait", "descwait")
  /\ events' = [events EXCEPT ![c] = Tail(@)]
  /\ attempted' = [attempted EXCEPT ![c] = @ + 1]
  /\ open' = [open EXCEPT ![c] = @ \cup {Head(events[c]).dir}]
  /\ UNCHANGED <<conf, onion, waiting, failures, missed, dialing, ctxDone,
                 control, crashed, link, tor, history>>

\* Mutant of AllFailed: the failure at hand is counted twice.
AllFailedTwice(c) == failures[c] + 2 = attempted[c]

\* Mutant of AllFailed: the count is compared before it is raised.
AllFailedLate(c) == failures[c] = attempted[c]

\* As many failures as uploads end the wait.
AllFailed(c) == failures[c] + 1 = attempted[c]

SeeFailure(c) ==
  /\ NextIs(c, "FAILED")
  /\ failures' = [failures EXCEPT ![c] = @ + 1]
  /\ open' = [open EXCEPT ![c] = @ \ {Head(events[c]).dir}]
  /\ IF AllFailed(c)
     THEN Goto(c, "descwait", "undo") /\ Unsubscribed(c)
     ELSE /\ Goto(c, "descwait", "descwait")
          /\ events' = [events EXCEPT ![c] = Tail(@)]
          /\ UNCHANGED waiting
  /\ UNCHANGED <<conf, onion, attempted, missed, dialing, ctxDone, control,
                 crashed, link, tor, history>>

\* Mutant of SeeSuccess: an upload of any service counts.
SeeSuccessAny(c) ==
  /\ Heard(c) /\ Head(events[c]).what = "UPLOADED"
  /\ Goto(c, "descwait", "done")
  /\ Unsubscribed(c)
  /\ UNCHANGED <<conf, onion, attempted, failures, open, missed, dialing,
                 ctxDone, control, crashed, link, tor, history>>

SeeSuccess(c) ==
  /\ NextIs(c, "UPLOADED")
  /\ Goto(c, "descwait", "done")
  /\ Unsubscribed(c)
  /\ UNCHANGED <<conf, onion, attempted, failures, open, missed, dialing,
                 ctxDone, control, crashed, link, tor, history>>

----------------------------------------------------------------------------
(* Dialer and DialContext *)

\* The proxy's address is given, or asked of Tor, which may have none or many.
GetInfo(c) ==
  /\ \/ Goto(c, "getinfo", "done") /\ (conf[c].given \/ (control /\ link))
     \/ Goto(c, "getinfo", "failed") /\ ~conf[c].given
  /\ UNCHANGED <<conf, onion, wait, dialing, ctxDone, control, crashed, link,
                 tor, history>>

DialContext(c) ==
  /\ conf[c].kind = "dial" /\ Goto(c, "done", "select")
  /\ dial' = [dial EXCEPT ![c] = "dialing"]
  /\ UNCHANGED <<conf, onion, wait, conn, held, ctxDone, control, crashed, link,
                 tor, history>>

\* The goroutine: Dial has returned a connection or an error.
DialEnds(c) ==
  /\ ~crashed /\ dial[c] = "dialing"
  /\ \/ /\ dial' = [dial EXCEPT ![c] = "opened"]
        /\ conn' = [conn EXCEPT ![c] = "open"]
     \/ dial' = [dial EXCEPT ![c] = "error"] /\ UNCHANGED conn
  /\ UNCHANGED <<conf, pc, onion, wait, held, ctxDone, control, crashed, link,
                 tor, history>>

\* It looks at the context before it hands the connection over.
CheckCtx(c) ==
  /\ ~crashed /\ dial[c] = "opened"
  /\ dial' = [dial EXCEPT ![c] = IF ctxDone[c] THEN "dropped" ELSE "checked"]
  /\ conn' = [conn EXCEPT ![c] = IF ctxDone[c] THEN "closed" ELSE @]
  /\ UNCHANGED <<conf, pc, onion, wait, held, ctxDone, control, crashed, link,
                 tor, history>>

\* Mutant of HandOver: the channel has no buffer.
HandOverUnbuffered(c) ==
  /\ ~crashed /\ dial[c] = "checked" /\ pc[c] = "select"
  /\ dial' = [dial EXCEPT ![c] = "sent"]
  /\ UNCHANGED <<conf, pc, onion, wait, conn, held, ctxDone, control, crashed,
                 link, tor, history>>

\* connCh has room for it, be someone there to take it or not.
HandOver(c) ==
  /\ ~crashed /\ dial[c] = "checked"
  /\ dial' = [dial EXCEPT ![c] = "sent"]
  /\ UNCHANGED <<conf, pc, onion, wait, conn, held, ctxDone, control, crashed,
                 link, tor, history>>

\* Mutant of SelectDial: the select also ends without a reason.
SelectDialEarly(c) ==
  /\ Goto(c, "select", "dialed")
  /\ held' = [held EXCEPT ![c] = dial[c] = "sent"]
  /\ UNCHANGED <<conf, onion, wait, dial, conn, ctxDone, control, crashed, link,
                 tor, history>>

\* The select: a connection, an error, or the context, whichever is ready.
SelectDial(c) ==
  /\ Goto(c, "select", "dialed")
  /\ \/ dial[c] = "sent" /\ held' = [held EXCEPT ![c] = TRUE]
     \/ (dial[c] = "error" \/ ctxDone[c]) /\ UNCHANGED held
  /\ UNCHANGED <<conf, onion, wait, dial, conn, ctxDone, control, crashed, link,
                 tor, history>>

----------------------------------------------------------------------------
(* The context, Tor.Close, and Tor *)

\* A call that does not wait never looks at it, nor does one that has ended.
CtxDone(c) ==
  /\ ~crashed /\ ~ctxDone[c]
  /\ conf[c].kind = "dial" \/ (conf[c].wait /\ pc[c] \in Busy)
  /\ ctxDone' = [ctxDone EXCEPT ![c] = TRUE]
  /\ UNCHANGED <<conf, pc, onion, wait, dialing, control, crashed, link, tor,
                 history>>

\* The connection ends, and with it the services bound to it, or all of them
\* when Tor ends.
LinkEnds(left) ==
  /\ ~crashed
  /\ link' = FALSE
  /\ service' = left
  /\ upload' = [c \in Calls |-> IF left[c] THEN upload[c] ELSE NoUpload]
  /\ UNCHANGED <<conf, pc, onion, wait, dialing, ctxDone, crashed, netOff, boot,
                 tries, published, history>>

LinkLost == link /\ LinkEnds(Detached) /\ UNCHANGED control
TorExits == LinkEnds([c \in Calls |-> FALSE]) /\ link /\ UNCHANGED control

\* Tor.Close closes the controller and sets Control to nil.
CloseTor ==
  /\ control
  /\ control' = FALSE
  /\ LinkEnds(Detached)

\* Tor emits an event: to the waits that listen for its kind.
Emit(kind, event) ==
  events' = [c \in Calls |-> IF link /\ waiting[c] = kind
                              THEN Append(events[c], event) ELSE events[c]]

\* Tor bootstraps, perhaps with a status of severity ERR on the way.
Bootstrap ==
  /\ ~crashed
  /\ \/ boot = "going" /\ boot' = "warned" /\ Emit("boot", [what |-> "ERR"])
     \/ boot \in {"going", "warned"} /\ boot' = "done" /\ Emit("boot", [what |-> "100"])
  /\ UNCHANGED <<conf, pc, onion, waiting, attempted, failures, open, missed,
                 dialing, ctxDone, control, crashed, link, netOff, service,
                 upload, tries, published, history>>

\* The upload of c's descriptor to d goes from one state to another.
Uploads(c, d, from, to, what) ==
  /\ ~crashed /\ boot = "done" /\ service[c]
  /\ upload[c][d] = from
  /\ upload' = [upload EXCEPT ![c][d] = to]
  /\ Emit("desc", [what |-> what, call |-> c, dir |-> d])
  /\ UNCHANGED <<conf, pc, onion, waiting, attempted, failures, open, missed,
                 dialing, ctxDone, control, crashed, link, netOff, boot, service,
                 history>>

StartUpload(c, d) ==
  /\ tries[c] < MaxTries[c]
  /\ tries' = [tries EXCEPT ![c] = @ + 1]
  /\ Uploads(c, d, "idle", "trying", "UPLOAD")
  /\ UNCHANGED published

UploadFails(c, d) ==
  Uploads(c, d, "trying", "idle", "FAILED") /\ UNCHANGED <<tries, published>>

UploadDone(c, d) ==
  /\ Uploads(c, d, "trying", "done", "UPLOADED")
  /\ published' = [published EXCEPT ![c] = TRUE]
  /\ UNCHANGED tries

----------------------------------------------------------------------------

\* What the goroutine of c does to come to an end, once the call is made.
Step(c) ==
  \/ Listen(c) \/ Forward(c) \/ AddOnion(c) \/ AddOnionLost(c)
  \/ AddOnionFails(c) \/ Undo(c) \/ StartNetwork(c) \/ GetConf(c)
  \/ SetConf(c) \/ SetConfFails(c) \/ SubscribeBoot(c) \/ SubscribeDesc(c)
  \/ SubscribeFails(c) \/ WaitFails(c) \/ BootEvent(c) \/ SkipOther(c)
  \/ SeeUpload(c) \/ SeeFailure(c) \/ SeeSuccess(c) \/ GetInfo(c)
  \/ SelectDial(c) \/ NilControl(c)

Dialing(c) == DialEnds(c) \/ CheckCtx(c) \/ HandOver(c)

Tor ==
  \/ LinkLost \/ TorExits \/ Bootstrap
  \/ \E c \in Calls, d \in Dirs :
       StartUpload(c, d) \/ UploadFails(c, d) \/ UploadDone(c, d)

Next ==
  \/ \E c \in Calls : Step(c) \/ Close(c) \/ DialContext(c) \/ Dialing(c)
                        \/ CtxDone(c)
  \/ CloseTor \/ Tor

Spec == Init /\ [][Next]_vars

\* The call may be at an exchange on the connection, or its service's Close.
UsesConn(c) == pc[c] \in Busy \ {"start"} \/ (IsOnion(c) /\ id[c])
Alone(c) == \A b \in Calls \ {c} : ~UsesConn(b)

(* Goroutines are scheduled; proxy.Dial returns.  A command is answered,   *)
(* refused or fails when no other goroutine is at the connection: those of *)
(* two may stall for ever (conn.go:63, cmd_event.go:303), as ControlConn   *)
(* has it, where RequestReturns and WaitReturns are for one caller too.    *)
(* Nothing makes Tor report, but a context or a broken connection ends a   *)
(* wait.                                                                   *)
Fairness ==
  \A c \in Calls : /\ WF_vars(Alone(c) /\ Step(c))
                  /\ WF_vars(Alone(c) /\ WaitFails(c))
                  /\ WF_vars(Dialing(c))

FairSpec == Spec /\ Fairness

\* Tor moreover finishes its bootstrap.
BootFairSpec == FairSpec /\ WF_vars(Bootstrap)

----------------------------------------------------------------------------
(* Properties *)

\* An onion service does not outlive its OnionService or OnionForward unseen:
\* once Listen or Forward has failed or Close has returned (listen.go:233,
\* 262), Tor has no such service, or Close returned an error, or the program
\* never learned the service's ID.
NoOrphan ==
  \A c \in Calls :
    pc[c] \in {"failed", "closed"} /\ service[c] => lost[c] \/ closeErr[c]

\* Listen closes the listener it made whatever fails after it, Close does, and
\* neither closes one that was given (listen.go:97, 272).
ListenerReleased ==
  \A c \in Calls :
    /\ pc[c] \in {"failed", "closed"} /\ ~conf[c].given => local[c] # "open"
    /\ conf[c].given \/ pc[c] \notin {"failed", "closed"} => local[c] # "closed"

\* A service returned by Listen or Forward that waits has been published: an
\* upload of its own descriptor was accepted (listen.go:89-92).
Published ==
  \A c \in Calls :
    IsOnion(c) /\ conf[c].wait /\ pc[c] = "done" => published[c]

\* A call that turned the network on and waits goes on only after Tor's
\* bootstrap is complete (tor.go:359, 380).
NetworkReady ==
  \A c \in Calls :
    /\ enabled[c] /\ conf[c].wait
    /\ pc[c] \in {"descsub", "descwait", "getinfo", "done", "select", "dialed"}
    => boot = "done"

\* The wait for publication goes on only while an upload that it has seen may
\* still succeed (listen.go:205), when none was under way as it subscribed.
WaitHasUpload ==
  \A c \in Calls :
    pc[c] = "descwait" /\ attempted[c] > 0 /\ ~missed[c] => open[c] # {}

\* It gives up only when every upload that it has seen has failed.
VerdictSound ==
  [][\A c \in Calls :
       failures'[c] # failures[c] /\ pc'[c] # pc[c] /\ ~missed[c]
         => open'[c] = {}]_vars

\* DialContext: a connection that was made is the caller's, or closed, or the
\* context has ended; it gives none without an error or the context's end
\* (dialer.go:103-110).
DialOutcome ==
  \A c \in Calls :
    /\ held[c] => conn[c] = "open"
    /\ pc[c] = "dialed" => held[c] \/ ctxDone[c] \/ dial[c] = "error"
    /\ pc[c] = "dialed" /\ conn[c] = "open" => held[c] \/ ctxDone[c]

\* A call whose context ends returns, or finds Control unset, unless another
\* goroutine comes to the connection: a wait that nothing reports to, a select
\* on a dial that hangs, and the undoing behind them (tor.go:381, listen.go:205,
\* dialer.go:103).
CallReturns ==
  \A c \in Calls :
    pc[c] \in Busy /\ ctxDone[c] ~> pc[c] \notin Busy \/ crashed \/ ~Alone(c)

\* The goroutine of DialContext ends, be there a receiver or not: the channels
\* have a buffer of one (dialer.go:92).
DialerEnds ==
  \A c \in Calls :
    dial[c] = "dialing" ~> dial[c] \in {"sent", "error", "dropped"} \/ crashed

\* "Wait for progress to hit 100" (tor.go:380): EnableNetwork, waiting, returns
\* once the bootstrap is complete.
BootstrapSeen ==
  \A c \in Calls :
    pc[c] = "bootwait" /\ boot = "done" ~> pc[c] # "bootwait" \/ crashed

=============================================================================
