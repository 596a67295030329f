---------------------------- MODULE TorLifecycle ----------------------------
(***************************************************************************)
(* Package tor's Tor: Start and Close (tor.go), over the process it starts *)
(* (process.go, embedded/process.go) and the control connection.           *)
(*                                                                         *)
(* One goroutine of the user calls Start, then Authenticate, Control.Close *)
(* and Close.  Beside it run the goroutine in which Close waits for the    *)
(* process, the one in which os/exec kills the process when its context is *)
(* done, the user's context and Tor itself.  An exchange on the control    *)
(* connection is one step: ControlConn has its interleavings.              *)
(*                                                                         *)
(* Tor, os/exec, tor_run_main and the file system are external.            *)
(***************************************************************************)
EXTENDS Naturals

CONSTANTS
  Confs,       \* the StartConfs Start is called with, see ConfType
  MaxPolls,    \* how often Start reads the control port file (10 in the code)
  MaxCloses    \* bound: the user's calls of Close

\* embedded: the creator's processes run in this program; conn: how Control is
\* to be connected, from a port file, a given port or an embedded connection;
\* temp, retain: the data directory is created by Start, and is to be kept;
\* eager: Start authenticates.
ConfType == [embedded : BOOLEAN, conn : {"file", "port", "embedded"},
             temp : BOOLEAN, retain : BOOLEAN, eager : BOOLEAN]

ASSUME ConfAssumption == Confs \subseteq ConfType
ASSUME LimitAssumption == MaxPolls \in Nat \ {0} /\ MaxCloses \in Nat

VARIABLES
  conf, pc,
  t,            \* fields of Tor: Process and Control set, Authenticated, flags
  polls,        \* reads of the control port file
  errs,         \* Close has collected an error
  sentHalt,     \* Close's variable
  waiter,       \* the goroutine of Close that calls Process.Wait, and errCh
  waited,       \* a Wait has returned the exit status
  ctxDone,      \* the context given to Start is done
  cancelled,    \* ProcessCancelFunc was called
  crashed,      \* the program panicked
  \* the environment
  dir, proc, link,
  ready,        \* Tor serves its control connection; its port file is written
  \* history
  started,      \* Start returned without an error
  closes,       \* calls of Close by the user
  halted,       \* Tor accepted HALT
  reported,     \* some Close returned an error
  clean         \* some Close returned nil

wait == <<waiter, waited>>
tor == <<proc, ready>>
history == <<started, closes, halted, reported, clean>>
vars == <<conf, pc, t, polls, errs, sentHalt, wait, ctxDone, cancelled, crashed,
          dir, tor, link, history>>

StartPcs == {"dir", "files", "create", "launch", "poll", "dial", "auth"}
ClosePcs == {"halt", "quit", "process", "wait", "remove"}

TorFields == [process : BOOLEAN, control : BOOLEAN, authenticated : BOOLEAN,
              deleteDir : BOOLEAN, stop : BOOLEAN]

TypeOK ==
  /\ conf \in Confs
  /\ pc \in StartPcs \cup ClosePcs \cup {"returned", "failed"}
  /\ t \in TorFields
  /\ polls \in 0..MaxPolls /\ closes \in 0..MaxCloses
  /\ waiter \in {"none", "spawned", "waiting", "nil", "error"}
  /\ dir \in {"absent", "present", "removed"}
  /\ proc \in {"none", "unstarted", "running", "ok", "bad", "killed"}
  /\ link \in {"none", "up", "closed"}
  /\ errs \in BOOLEAN /\ sentHalt \in BOOLEAN /\ waited \in BOOLEAN
  /\ ctxDone \in BOOLEAN /\ cancelled \in BOOLEAN /\ crashed \in BOOLEAN
  /\ ready \in BOOLEAN /\ started \in BOOLEAN /\ halted \in BOOLEAN
  /\ reported \in BOOLEAN /\ clean \in BOOLEAN

Init ==
  /\ conf \in Confs /\ pc = "dir"
  /\ t = [process |-> FALSE, control |-> FALSE, authenticated |-> FALSE,
          deleteDir |-> FALSE, stop |-> TRUE]
  /\ polls = 0 /\ errs = FALSE /\ sentHalt = FALSE
  /\ waiter = "none" /\ waited = FALSE
  /\ ctxDone = FALSE /\ cancelled = FALSE /\ crashed = FALSE
  /\ dir \in IF conf.temp THEN {"absent"} ELSE {"absent", "present"}
  /\ proc = "none" /\ ready = FALSE /\ link = "none"
  /\ started = FALSE /\ closes = 0 /\ halted = FALSE
  /\ reported = FALSE /\ clean = FALSE

Goto(from, to) == ~crashed /\ pc = from /\ pc' = to

\* The context of the process is derived from Start's.
ProcessCtxDone == ctxDone \/ cancelled

Exited == proc \in {"ok", "bad", "killed"}

\* An exchange on Control gets Tor's answer, or fails.
Answered == link = "up" /\ proc = "running" /\ ready
Broken == link = "closed" \/ proc = "unstarted" \/ Exited

----------------------------------------------------------------------------
(* Start.  A failed step goes to Close, whose error is added to Start's. *)

\* The data directory is created, or found; an error returns without a Tor.
CreateDataDir ==
  /\ \/ Goto("dir", "files")
        /\ dir' = "present"
        /\ t' = [t EXCEPT !.deleteDir = conf.temp /\ ~conf.retain]
     \/ Goto("dir", "failed") /\ UNCHANGED <<dir, t>>
  /\ UNCHANGED <<conf, polls, errs, sentHalt, wait, ctxDone, cancelled, crashed,
                 tor, link, history>>

\* copyGeoIPFiles, the blank torrc and the control port file.
CreateFiles ==
  /\ Goto("files", "create") \/ Goto("files", "halt")
  /\ UNCHANGED <<conf, t, polls, errs, sentHalt, wait, ctxDone, cancelled,
                 crashed, dir, tor, link, history>>

\* creator.New, then EmbeddedControlConn, which only embedded processes have.
CreateProcess ==
  /\ \/ /\ conf.conn # "embedded"
        /\ Goto("create", "launch")
        /\ UNCHANGED <<t, link>>
     \/ /\ conf.conn = "embedded" /\ conf.embedded
        /\ Goto("create", "launch")
        /\ t' = [t EXCEPT !.control = TRUE] /\ link' = "up"
     \/ Goto("create", "halt") /\ UNCHANGED <<t, link>>
  /\ UNCHANGED <<conf, polls, errs, sentHalt, wait, ctxDone, cancelled, crashed,
                 dir, tor, history>>

\* Where startProcess and connectController go on once the process runs.
AfterLaunch == CASE conf.conn = "file" -> "poll"
                 [] conf.conn = "port" -> "dial"
                 [] OTHER -> "auth"

\* Mutant of Launch: Process is not set as soon as the process runs.
LaunchUnset ==
  /\ conf.embedded \/ ~ProcessCtxDone
  /\ Goto("launch", AfterLaunch)
  /\ proc' = "running"
  /\ UNCHANGED <<conf, t, polls, errs, sentHalt, wait, ctxDone, cancelled,
                 crashed, dir, ready, link, history>>

\* Process.Start; os/exec starts nothing for a context that is done.
Launch ==
  /\ conf.embedded \/ ~ProcessCtxDone
  /\ Goto("launch", AfterLaunch)
  /\ proc' = "running"
  /\ t' = [t EXCEPT !.process = TRUE]
  /\ UNCHANGED <<conf, polls, errs, sentHalt, wait, ctxDone, cancelled, crashed,
                 dir, ready, link, history>>

LaunchFails ==
  /\ Goto("launch", "halt")
  /\ proc' = "unstarted"
  /\ UNCHANGED <<conf, t, polls, errs, sentHalt, wait, ctxDone, cancelled,
                 crashed, dir, ready, link, history>>

ReadPortFile ==
  /\ ~ctxDone /\ ready
  /\ Goto("poll", "dial")
  /\ UNCHANGED <<conf, t, polls, errs, sentHalt, wait, ctxDone, cancelled,
                 crashed, dir, tor, link, history>>

\* Mutant of PollAgain: the reads are not counted.
PollForever ==
  /\ ~ctxDone /\ ~ready
  /\ Goto("poll", "poll")
  /\ polls' = 1 - polls
  /\ UNCHANGED <<conf, t, errs, sentHalt, wait, ctxDone, cancelled, crashed,
                 dir, tor, link, history>>

\* Mutant of PollAgain: one read too many.
PollOnceMore ==
  /\ ~ctxDone /\ ~ready
  /\ Goto("poll", IF polls < MaxPolls THEN "poll" ELSE "halt")
  /\ polls' = polls + 1
  /\ UNCHANGED <<conf, t, errs, sentHalt, wait, ctxDone, cancelled, crashed,
                 dir, tor, link, history>>

\* The port file holds no port yet: sleep, unless it was the last read.
PollAgain ==
  /\ ~ctxDone /\ ~ready
  /\ Goto("poll", IF polls + 1 < MaxPolls THEN "poll" ELSE "halt")
  /\ polls' = polls + 1
  /\ UNCHANGED <<conf, t, errs, sentHalt, wait, ctxDone, cancelled, crashed,
                 dir, tor, link, history>>

\* The context is done, or the file cannot be read.
PollFails ==
  /\ Goto("poll", "halt")
  /\ UNCHANGED <<conf, t, polls, errs, sentHalt, wait, ctxDone, cancelled,
                 crashed, dir, tor, link, history>>

\* connectController: one attempt.
ConnectController ==
  /\ \/ /\ proc = "running" /\ ready
        /\ Goto("dial", "auth")
        /\ t' = [t EXCEPT !.control = TRUE] /\ link' = "up"
     \/ /\ ~(proc = "running" /\ ready)
        /\ Goto("dial", "halt")
        /\ UNCHANGED <<t, link>>
  /\ UNCHANGED <<conf, polls, errs, sentHalt, wait, ctxDone, cancelled, crashed,
                 dir, tor, history>>

StartReturns ==
  /\ started' = TRUE
  /\ UNCHANGED <<closes, halted, reported, clean>>

SkipAuth ==
  /\ ~conf.eager
  /\ Goto("auth", "returned") /\ StartReturns
  /\ UNCHANGED <<conf, t, polls, errs, sentHalt, wait, ctxDone, cancelled,
                 crashed, dir, tor, link>>

\* Eager authentication; Tor may refuse it.
Authenticate ==
  /\ conf.eager
  /\ \/ /\ Answered
        /\ Goto("auth", "returned") /\ StartReturns
        /\ t' = [t EXCEPT !.authenticated = TRUE]
     \/ /\ Answered \/ Broken
        /\ Goto("auth", "halt")
        /\ UNCHANGED <<t, history>>
  /\ UNCHANGED <<conf, polls, errs, sentHalt, wait, ctxDone, cancelled, crashed,
                 dir, tor, link>>

----------------------------------------------------------------------------
(* Close *)

\* Called by the user, whatever Start returned.
Close ==
  /\ closes < MaxCloses
  /\ Goto("returned", "halt")
  /\ errs' = FALSE /\ sentHalt' = FALSE
  /\ closes' = closes + 1
  /\ UNCHANGED <<conf, t, polls, wait, ctxDone, cancelled, crashed, dir, tor,
                 link, started, halted, reported, clean>>

\* Mutant of Halt: an accepted HALT is not remembered.
HaltForgotten ==
  /\ t.control /\ t.authenticated /\ t.stop /\ Answered
  /\ Goto("halt", "quit")
  /\ halted' = TRUE
  /\ UNCHANGED <<conf, t, polls, errs, sentHalt, wait, ctxDone, cancelled,
                 crashed, dir, tor, link, started, closes, reported, clean>>

Halt ==
  /\ t.control /\ t.authenticated /\ t.stop /\ Answered
  /\ Goto("halt", "quit")
  /\ sentHalt' = TRUE /\ halted' = TRUE
  /\ UNCHANGED <<conf, t, polls, errs, wait, ctxDone, cancelled, crashed, dir,
                 tor, link, started, closes, reported, clean>>

HaltFails ==
  /\ t.control /\ t.authenticated /\ t.stop /\ Broken
  /\ Goto("halt", "quit")
  /\ errs' = TRUE
  /\ UNCHANGED <<conf, t, polls, sentHalt, wait, ctxDone, cancelled, crashed,
                 dir, tor, link, history>>

SkipHalt ==
  /\ ~(t.control /\ t.authenticated /\ t.stop)
  /\ Goto("halt", IF t.control THEN "quit" ELSE "process")
  /\ UNCHANGED <<conf, t, polls, errs, sentHalt, wait, ctxDone, cancelled,
                 crashed, dir, tor, link, history>>

\* Mutant of CloseController: Control is left set.
CloseControllerOnly ==
  /\ Goto("quit", "process")
  /\ Answered \/ Broken
  /\ link' = "closed"
  /\ errs' = (errs \/ link = "closed")
  /\ UNCHANGED <<conf, t, polls, sentHalt, wait, ctxDone, cancelled, crashed,
                 dir, tor, history>>

\* QUIT, whose answer is ignored; closing a closed connection is an error, and
\* Control stays set.
CloseController ==
  /\ Goto("quit", "process")
  /\ Answered \/ Broken
  /\ link' = "closed"
  /\ errs' = (errs \/ link = "closed")
  /\ t' = [t EXCEPT !.control = (link = "closed")]
  /\ UNCHANGED <<conf, polls, sentHalt, wait, ctxDone, cancelled, crashed, dir,
                 tor, history>>

\* Mutant of StopProcess: a process that was told to halt is not waited for.
StopUnlessHalted ==
  /\ IF t.process /\ ~sentHalt
     THEN /\ Goto("process", "wait")
          /\ waiter' = "spawned"
          /\ cancelled' = (cancelled \/ t.stop)
     ELSE Goto("process", "remove") /\ UNCHANGED <<waiter, cancelled>>
  /\ UNCHANGED <<conf, t, polls, errs, sentHalt, waited, ctxDone, crashed, dir,
                 tor, link, history>>

\* A process that was not told to halt is killed by its context; then Close
\* waits for it in a goroutine.
StopProcess ==
  /\ IF t.process
     THEN /\ Goto("process", "wait")
          /\ waiter' = "spawned"
          /\ cancelled' = (cancelled \/ (~sentHalt /\ t.stop))
     ELSE Goto("process", "remove") /\ UNCHANGED <<waiter, cancelled>>
  /\ UNCHANGED <<conf, t, polls, errs, sentHalt, waited, ctxDone, crashed, dir,
                 tor, link, history>>

\* The result of Wait came in time: Process is unset if it is nil.
WaitDone ==
  /\ waiter \in {"nil", "error"}
  /\ Goto("wait", "remove")
  /\ errs' = (errs \/ waiter = "error")
  /\ t' = [t EXCEPT !.process = (waiter = "error")]
  /\ waiter' = "none"
  /\ UNCHANGED <<conf, polls, sentHalt, waited, ctxDone, cancelled, crashed,
                 dir, tor, link, history>>

\* 300 ms have passed: an error, but waitErr is nil and Process is unset.
WaitTimeout ==
  /\ Goto("wait", "remove")
  /\ errs' = TRUE
  /\ t' = [t EXCEPT !.process = FALSE]
  /\ UNCHANGED <<conf, polls, sentHalt, wait, ctxDone, cancelled, crashed, dir,
                 tor, link, history>>

\* The data directory goes last, unless that fails; Close returns.
RemoveDataDir ==
  /\ Goto("remove", "returned")
  /\ \/ /\ dir' = IF t.deleteDir THEN "removed" ELSE dir
        /\ UNCHANGED errs
     \/ /\ t.deleteDir /\ dir = "present"
        /\ errs' = TRUE /\ UNCHANGED dir
  /\ reported' = (reported \/ errs')
  /\ clean' = (clean \/ ~errs')
  /\ UNCHANGED <<conf, t, polls, sentHalt, wait, ctxDone, cancelled, crashed,
                 tor, link, started, closes, halted>>

----------------------------------------------------------------------------
(* The goroutine of Close that waits for the process *)

\* It evaluates t.Process, which Close unsets after its timeout, unsynchronised.
EvalProcess ==
  /\ ~crashed /\ waiter = "spawned"
  /\ \/ waiter' = "waiting" /\ UNCHANGED crashed
     \/ ~t.process /\ crashed' = TRUE /\ UNCHANGED waiter
  /\ UNCHANGED <<conf, pc, t, polls, errs, sentHalt, waited, ctxDone, cancelled,
                 dir, tor, link, history>>

\* Process.Wait.  A second Wait of os/exec is an error; one of an embedded
\* process waits for a code that was taken, or for the context.
Wait ==
  /\ ~crashed /\ waiter = "waiting"
  /\ \/ /\ Exited /\ ~waited
        /\ waiter' = IF proc = "ok" THEN "nil" ELSE "error"
        /\ waited' = TRUE
     \/ /\ IF conf.embedded THEN ProcessCtxDone ELSE waited
        /\ waiter' = "error"
        /\ UNCHANGED waited
  /\ UNCHANGED <<conf, pc, t, polls, errs, sentHalt, ctxDone, cancelled,
                 crashed, dir, tor, link, history>>

----------------------------------------------------------------------------
(* The user beside Start and Close, os/exec and Tor *)

\* The user authenticates later, closes the controller or keeps Tor running.
UserAuthenticates ==
  /\ Goto("returned", "returned")
  /\ started /\ t.control /\ Answered
  /\ t' = [t EXCEPT !.authenticated = TRUE]
  /\ UNCHANGED <<conf, polls, errs, sentHalt, wait, ctxDone, cancelled, crashed,
                 dir, tor, link, history>>

UserClosesController ==
  /\ Goto("returned", "returned")
  /\ started /\ t.control /\ Answered
  /\ link' = "closed"
  /\ UNCHANGED <<conf, t, polls, errs, sentHalt, wait, ctxDone, cancelled,
                 crashed, dir, tor, history>>

UserKeepsProcess ==
  /\ Goto("returned", "returned")
  /\ started
  /\ t' = [t EXCEPT !.stop = FALSE]
  /\ UNCHANGED <<conf, polls, errs, sentHalt, wait, ctxDone, cancelled, crashed,
                 dir, tor, link, history>>

CtxDone ==
  /\ ~crashed /\ ~ctxDone
  /\ ctxDone' = TRUE
  /\ UNCHANGED <<conf, pc, t, polls, errs, sentHalt, wait, cancelled, crashed,
                 dir, tor, link, history>>

\* os/exec kills the process when its context is done; an embedded Tor runs on.
Kill ==
  /\ ~crashed /\ ~conf.embedded /\ ProcessCtxDone /\ proc = "running"
  /\ proc' = "killed"
  /\ UNCHANGED <<conf, pc, t, polls, errs, sentHalt, wait, ctxDone, cancelled,
                 crashed, dir, ready, link, history>>

TorReady ==
  /\ ~crashed /\ proc = "running" /\ ~ready
  /\ ready' = TRUE
  /\ UNCHANGED <<conf, pc, t, polls, errs, sentHalt, wait, ctxDone, cancelled,
                 crashed, dir, proc, link, history>>

\* Tor exits on its own or because of HALT, sooner or later.
TorExits ==
  /\ ~crashed /\ proc = "running"
  /\ proc' \in {"ok", "bad"}
  /\ UNCHANGED <<conf, pc, t, polls, errs, sentHalt, wait, ctxDone, cancelled,
                 crashed, dir, ready, link, history>>

----------------------------------------------------------------------------
(* The specification *)

Start ==
  \/ CreateDataDir \/ CreateFiles \/ CreateProcess \/ Launch \/ LaunchFails
  \/ ReadPortFile \/ PollAgain \/ ConnectController \/ SkipAuth \/ Authenticate

Closing ==
  \/ Halt \/ HaltFails \/ SkipHalt \/ CloseController \/ StopProcess
  \/ WaitDone \/ WaitTimeout \/ RemoveDataDir

User == Close \/ UserAuthenticates \/ UserClosesController \/ UserKeepsProcess

Next ==
  \/ Start \/ PollFails \/ Closing \/ EvalProcess \/ Wait
  \/ User \/ CtxDone \/ Kill \/ TorReady \/ TorExits

Spec == Init /\ [][Next]_vars

\* The goroutine of the user runs.  Tor serves the embedded connection it was
\* started with; whether it ever opens a port depends on its configuration.
FairSpec ==
  /\ Spec
  /\ WF_vars(Start) /\ WF_vars(PollFails /\ ctxDone) /\ WF_vars(Closing)
  /\ WF_vars(TorReady /\ conf.conn = "embedded")

----------------------------------------------------------------------------
(* Properties *)

\* A Tor that is still running when Start has failed or Close has returned was
\* reported by the error of a Close (tor.go:184-188, 426-436).
Reported ==
  pc = "returned" /\ proc = "running" /\ (closes > 0 \/ ~started) => reported

\* Only a directory that Start created and was not told to retain is removed,
\* and never under a running Tor without an error (tor.go:163, 439-443).
SafeRemoval ==
  dir = "present" /\ dir' = "removed" =>
    /\ conf.temp /\ ~conf.retain
    /\ proc = "running" => errs \/ reported
DirRemoval == [][SafeRemoval]_vars

\* A Tor that accepted HALT is left to stop in its own time: no Close kills it,
\* be it called again and again (tor.go:417-421, 434-436).
HaltedNotKilled == proc = "killed" /\ ~ctxDone => ~halted

\* Once a Close has returned nil nothing is left for another one to fail at
\* (tor.go:411-415, 434-436).
CloseIdempotent == clean => ~errs

\* Start and Close return: no exchange, read of the port file or wait for the
\* process holds them for ever (tor.go:320-335, 423-433).
CallReturns ==
  pc \notin {"returned", "failed"} ~> pc \in {"returned", "failed"} \/ crashed

\* Close "stops the process" (tor.go:395-396): it does not run any more when
\* Close returns without an error.
CloseStops ==
  pc = "returned" /\ closes > 0 /\ ~errs /\ t.stop => proc # "running"
=============================================================================
