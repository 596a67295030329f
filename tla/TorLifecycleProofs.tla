------------------------- MODULE TorLifecycleProofs -------------------------
(***************************************************************************)
(* What holds of Start and Close for every configuration, however often    *)
(* the port file is read and Close is called.                              *)
(***************************************************************************)
EXTENDS TorLifecycle, TLAPS

----------------------------------------------------------------------------
(* The inductive invariant *)

\* Nothing runs before Launch; a port file that is still polled may be read
\* again; the user calls Close after Start only; the data directory is marked
\* for deletion only if Start created it.
StartInv ==
  /\ pc \in {"dir", "files", "create", "launch"} => proc = "none" /\ polls = 0
  /\ pc = "poll" => polls < MaxPolls
  /\ pc \in StartPcs => closes = 0 /\ ~clean /\ ~halted /\ ~cancelled
  /\ t.deleteDir => conf.temp /\ ~conf.retain

\* A Wait that returned nil, or returned an exit status, saw Tor exit.
WaitInv ==
  /\ waiter = "nil" => Exited
  /\ waited => Exited

\* A Tor that runs is still Close's to stop, or has been given up with an
\* error.  Close removes the directory, and returns, after the error.
RunningInv ==
  proc = "running" =>
    /\ t.process \/ reported \/ (pc = "remove" /\ errs)
    /\ pc = "remove" => errs \/ reported
    /\ pc = "returned" /\ (closes > 0 \/ ~started) => reported

\* Control outlives the connection, and Close closes the connection before it
\* looks at the process.
ControlInv ==
  /\ link = "up" => t.control
  /\ pc \in {"process", "wait", "remove"} => link # "up"
  /\ cancelled => link # "up"

\* A Tor that os/exec could kill and that accepted HALT is out of reach of
\* ProcessCancelFunc: in the Close that sent HALT because of sentHalt, in a
\* later one because Process is no longer set.
HaltInv ==
  /\ halted /\ proc = "running" /\ ~conf.embedded =>
       /\ ~cancelled
       /\ ~t.process \/ (sentHalt /\ pc \in {"quit", "process", "wait"})
  /\ proc = "killed" /\ ~ctxDone => ~halted
  /\ waiter = "error" /\ ~conf.embedded => Exited

\* An error is collected for everything that Close leaves behind.
CleanInv ==
  /\ pc \in {"process", "wait", "remove"} /\ ~errs => ~t.control
  /\ pc = "remove" /\ ~errs => ~t.process
  /\ clean =>
       /\ ~errs /\ ~t.control /\ ~t.process
       /\ t.deleteDir => dir = "removed"
       /\ pc \in {"halt", "process", "remove", "returned"}

Inv ==
  /\ TypeOK /\ StartInv /\ WaitInv /\ RunningInv /\ ControlInv /\ HaltInv
  /\ CleanInv

USE DEF StartPcs, ClosePcs, Exited, tor, wait, history, Goto

LEMMA Initially == Init => Inv
<1>. SUFFICES ASSUME Init PROVE Inv
  OBVIOUS
<1>. USE DEF Init
<1>1. TypeOK
  <2>1. t \in TorFields
    BY DEF TorFields
  <2>2. polls \in 0..MaxPolls /\ closes \in 0..MaxCloses
    BY LimitAssumption
  <2>3. dir \in {"absent", "present", "removed"}
    BY ConfAssumption
  <2>. QED
    BY <2>1, <2>2, <2>3 DEF TypeOK
<1>2. StartInv /\ WaitInv /\ RunningInv
  BY LimitAssumption DEF StartInv, WaitInv, RunningInv
<1>3. ControlInv /\ HaltInv /\ CleanInv
  BY DEF ControlInv, HaltInv, CleanInv
<1>. QED
  BY <1>1, <1>2, <1>3 DEF Inv

LEMMA SetField ==
  ASSUME NEW r \in TorFields, NEW b \in BOOLEAN
  PROVE  /\ [r EXCEPT !.process = b] \in TorFields
         /\ [r EXCEPT !.control = b] \in TorFields
         /\ [r EXCEPT !.authenticated = b] \in TorFields
         /\ [r EXCEPT !.deleteDir = b] \in TorFields
         /\ [r EXCEPT !.stop = b] \in TorFields
  BY DEF TorFields

LEMMA TypeStep == TypeOK /\ StartInv /\ [Next]_vars => TypeOK'
<1>. SUFFICES ASSUME TypeOK, StartInv, [Next]_vars PROVE TypeOK'
  OBVIOUS
<1>. USE DEF TypeOK
<1>1. CASE CreateDataDir
  <2>1. t' \in TorFields
    BY <1>1, SetField, ConfAssumption DEF CreateDataDir, ConfType
  <2>2. dir' \in {"absent", "present", "removed"}
    BY <1>1 DEF CreateDataDir
  <2>. QED
    BY <1>1, <2>1, <2>2 DEF CreateDataDir
<1>2. CASE CreateFiles
  BY <1>2 DEF CreateFiles
<1>3. CASE CreateProcess
  <2>1. t' \in TorFields
    BY <1>3, SetField DEF CreateProcess
  <2>2. link' \in {"none", "up", "closed"}
    BY <1>3 DEF CreateProcess
  <2>. QED
    BY <1>3, <2>1, <2>2 DEF CreateProcess
<1>4. CASE Launch
  <2>1. t' \in TorFields
    BY <1>4, SetField DEF Launch, AfterLaunch, ProcessCtxDone
  <2>. QED
    BY <1>4, <2>1 DEF Launch, AfterLaunch, ProcessCtxDone
<1>5. CASE LaunchFails
  BY <1>5 DEF LaunchFails
<1>6. CASE ReadPortFile
  BY <1>6 DEF ReadPortFile
<1>7. CASE PollAgain
  <2>1. polls' \in 0..MaxPolls
    BY <1>7, LimitAssumption DEF PollAgain, StartInv
  <2>. QED
    BY <1>7, <2>1 DEF PollAgain
<1>8. CASE PollFails
  BY <1>8 DEF PollFails
<1>9. CASE ConnectController
  <2>1. t' \in TorFields
    BY <1>9, SetField DEF ConnectController
  <2>2. link' \in {"none", "up", "closed"}
    BY <1>9 DEF ConnectController
  <2>. QED
    BY <1>9, <2>1, <2>2 DEF ConnectController
<1>10. CASE SkipAuth
  BY <1>10 DEF SkipAuth, StartReturns
<1>11. CASE Authenticate
  <2>1. t' \in TorFields
    BY <1>11, SetField DEF Authenticate, StartReturns, Answered, Broken
  <2>2. started' \in BOOLEAN
    BY <1>11 DEF Authenticate, StartReturns, Answered, Broken
  <2>. QED
    BY <1>11, <2>1, <2>2 DEF Authenticate, StartReturns, Answered, Broken
<1>12. CASE Halt
  BY <1>12 DEF Halt, Answered
<1>13. CASE HaltFails
  BY <1>13 DEF HaltFails, Broken
<1>14. CASE SkipHalt
  BY <1>14 DEF SkipHalt
<1>15. CASE CloseController
  <2>1. t' \in TorFields
    BY <1>15, SetField DEF CloseController, Answered, Broken
  <2>2. link' \in {"none", "up", "closed"}
    BY <1>15 DEF CloseController, Answered, Broken
  <2>3. errs' \in BOOLEAN
    BY <1>15 DEF CloseController, Answered, Broken
  <2>. QED
    BY <1>15, <2>1, <2>2, <2>3 DEF CloseController, Answered, Broken
<1>16. CASE StopProcess
  <2>1. waiter' \in {"none", "spawned", "waiting", "nil", "error"}
    BY <1>16 DEF StopProcess
  <2>2. cancelled' \in BOOLEAN
    BY <1>16 DEF StopProcess
  <2>. QED
    BY <1>16, <2>1, <2>2 DEF StopProcess
<1>17. CASE WaitDone
  <2>1. t' \in TorFields
    BY <1>17, SetField DEF WaitDone
  <2>2. errs' \in BOOLEAN
    BY <1>17 DEF WaitDone
  <2>3. waiter' \in {"none", "spawned", "waiting", "nil", "error"}
    BY <1>17 DEF WaitDone
  <2>. QED
    BY <1>17, <2>1, <2>2, <2>3 DEF WaitDone
<1>18. CASE WaitTimeout
  <2>1. t' \in TorFields
    BY <1>18, SetField DEF WaitTimeout
  <2>2. errs' \in BOOLEAN
    BY <1>18 DEF WaitTimeout
  <2>. QED
    BY <1>18, <2>1, <2>2 DEF WaitTimeout
<1>19. CASE RemoveDataDir
  <2>1. dir' \in {"absent", "present", "removed"}
    BY <1>19 DEF RemoveDataDir
  <2>2. errs' \in BOOLEAN
    BY <1>19 DEF RemoveDataDir
  <2>3. reported' \in BOOLEAN
    BY <1>19 DEF RemoveDataDir
  <2>4. clean' \in BOOLEAN
    BY <1>19 DEF RemoveDataDir
  <2>. QED
    BY <1>19, <2>1, <2>2, <2>3, <2>4 DEF RemoveDataDir
<1>20. CASE EvalProcess
  <2>1. waiter' \in {"none", "spawned", "waiting", "nil", "error"}
    BY <1>20 DEF EvalProcess
  <2>2. crashed' \in BOOLEAN
    BY <1>20 DEF EvalProcess
  <2>. QED
    BY <1>20, <2>1, <2>2 DEF EvalProcess
<1>21. CASE Wait
  <2>1. waiter' \in {"none", "spawned", "waiting", "nil", "error"}
    BY <1>21 DEF Wait, ProcessCtxDone
  <2>2. waited' \in BOOLEAN
    BY <1>21 DEF Wait, ProcessCtxDone
  <2>. QED
    BY <1>21, <2>1, <2>2 DEF Wait, ProcessCtxDone
<1>22. CASE Close
  <2>1. errs' \in BOOLEAN
    BY <1>22 DEF Close
  <2>2. sentHalt' \in BOOLEAN
    BY <1>22 DEF Close
  <2>3. closes' \in 0..MaxCloses
    BY <1>22, LimitAssumption DEF Close
  <2>. QED
    BY <1>22, <2>1, <2>2, <2>3 DEF Close
<1>23. CASE UserAuthenticates
  <2>1. t' \in TorFields
    BY <1>23, SetField DEF UserAuthenticates, Answered
  <2>. QED
    BY <1>23, <2>1 DEF UserAuthenticates, Answered
<1>24. CASE UserClosesController
  BY <1>24 DEF UserClosesController, Answered
<1>25. CASE UserKeepsProcess
  <2>1. t' \in TorFields
    BY <1>25, SetField DEF UserKeepsProcess
  <2>. QED
    BY <1>25, <2>1 DEF UserKeepsProcess
<1>26. CASE CtxDone
  BY <1>26 DEF CtxDone
<1>27. CASE Kill
  BY <1>27 DEF Kill, ProcessCtxDone
<1>28. CASE TorReady
  BY <1>28 DEF TorReady
<1>29. CASE TorExits
  BY <1>29 DEF TorExits
<1>30. CASE UNCHANGED vars
  BY <1>30 DEF vars
<1>. QED
  BY <1>1, <1>2, <1>3, <1>4, <1>5, <1>6, <1>7, <1>8, <1>9, <1>10, <1>11, <1>12,
     <1>13, <1>14, <1>15, <1>16, <1>17, <1>18, <1>19, <1>20, <1>21, <1>22,
     <1>23, <1>24, <1>25, <1>26, <1>27, <1>28, <1>29, <1>30
  DEF Next, Start, Closing, User

LEMMA Inductive == Inv /\ [Next]_vars => Inv'
<1>. SUFFICES ASSUME Inv, [Next]_vars PROVE Inv'
  OBVIOUS
<1>0. TypeOK'
  BY TypeStep DEF Inv
<1>. USE <1>0
     DEF Inv, TypeOK, TorFields, StartInv, WaitInv, RunningInv, ControlInv,
         HaltInv, CleanInv
<1>1. CASE CreateDataDir
  BY <1>1 DEF CreateDataDir
<1>2. CASE CreateFiles
  BY <1>2 DEF CreateFiles
<1>3. CASE CreateProcess
  BY <1>3 DEF CreateProcess
<1>4. CASE Launch
  BY <1>4, LimitAssumption DEF Launch, AfterLaunch, ProcessCtxDone
<1>5. CASE LaunchFails
  BY <1>5 DEF LaunchFails
<1>6. CASE ReadPortFile
  BY <1>6 DEF ReadPortFile
<1>7. CASE PollAgain
  BY <1>7 DEF PollAgain
<1>8. CASE PollFails
  BY <1>8 DEF PollFails
<1>9. CASE ConnectController
  BY <1>9 DEF ConnectController
<1>10. CASE SkipAuth
  BY <1>10 DEF SkipAuth, StartReturns
<1>11. CASE Authenticate
  BY <1>11 DEF Authenticate, StartReturns, Answered, Broken
<1>12. CASE Halt
  BY <1>12 DEF Halt, Answered
<1>13. CASE HaltFails
  BY <1>13 DEF HaltFails, Broken
<1>14. CASE SkipHalt
  BY <1>14 DEF SkipHalt
<1>15. CASE CloseController
  BY <1>15 DEF CloseController, Answered, Broken
<1>16. CASE StopProcess
  BY <1>16 DEF StopProcess
<1>17. CASE WaitDone
  BY <1>17 DEF WaitDone
<1>18. CASE WaitTimeout
  BY <1>18 DEF WaitTimeout
<1>19. CASE RemoveDataDir
  BY <1>19 DEF RemoveDataDir
<1>20. CASE EvalProcess
  BY <1>20 DEF EvalProcess
<1>21. CASE Wait
  BY <1>21 DEF Wait, ProcessCtxDone
<1>22. CASE Close
  BY <1>22 DEF Close
<1>23. CASE UserAuthenticates
  BY <1>23 DEF UserAuthenticates, Answered
<1>24. CASE UserClosesController
  BY <1>24 DEF UserClosesController, Answered
<1>25. CASE UserKeepsProcess
  BY <1>25 DEF UserKeepsProcess
<1>26. CASE CtxDone
  BY <1>26 DEF CtxDone
<1>27. CASE Kill
  BY <1>27 DEF Kill, ProcessCtxDone
<1>28. CASE TorReady
  BY <1>28 DEF TorReady
<1>29. CASE TorExits
  BY <1>29 DEF TorExits
<1>30. CASE UNCHANGED vars
  BY <1>30 DEF vars
<1>. QED
  BY <1>1, <1>2, <1>3, <1>4, <1>5, <1>6, <1>7, <1>8, <1>9, <1>10, <1>11, <1>12,
     <1>13, <1>14, <1>15, <1>16, <1>17, <1>18, <1>19, <1>20, <1>21, <1>22,
     <1>23, <1>24, <1>25, <1>26, <1>27, <1>28, <1>29, <1>30
  DEF Next, Start, Closing, User

THEOREM InvHolds == Spec => []Inv
<1>. QED
  BY Initially, Inductive, PTL DEF Spec

----------------------------------------------------------------------------
(* What follows *)

\* Every field and variable of the model keeps its type; in particular Start
\* reads the port file at most MaxPolls times (tor.go:320).
THEOREM TypeCorrect == Spec => []TypeOK
<1>1. Inv => TypeOK
  BY DEF Inv
<1>. QED
  BY <1>1, InvHolds, PTL

\* A process that outlives a failed Start or a Close was reported.
THEOREM OutlivingReported == Spec => []Reported
<1>1. Inv => Reported
  BY DEF Inv, RunningInv, Reported
<1>. QED
  BY <1>1, InvHolds, PTL

\* A Tor that accepted HALT is not killed, however often Close is called.
THEOREM HaltRespected == Spec => []HaltedNotKilled
<1>1. Inv => HaltedNotKilled
  BY DEF Inv, HaltInv, HaltedNotKilled
<1>. QED
  BY <1>1, InvHolds, PTL

\* After a Close that returned nil every other one does.
THEOREM Idempotent == Spec => []CloseIdempotent
<1>1. Inv => CloseIdempotent
  BY DEF Inv, CleanInv, CloseIdempotent
<1>. QED
  BY <1>1, InvHolds, PTL

\* The data directory is removed only if it is Start's own, and not under a
\* running Tor unless Close reports an error.
THEOREM RemovalSafe == Spec => DirRemoval
<1>1. Inv /\ [Next]_vars => [SafeRemoval]_vars
  <2>. SUFFICES ASSUME Inv, Next, dir = "present", dir' = "removed"
                PROVE  SafeRemoval
    BY DEF SafeRemoval
  <2>1. RemoveDataDir
    BY DEF Next, Start, Closing, User, CreateDataDir, CreateFiles,
           CreateProcess, Launch, LaunchFails, ReadPortFile, PollAgain,
           PollFails, ConnectController, SkipAuth, Authenticate, Halt,
           HaltFails, SkipHalt, CloseController, StopProcess, WaitDone,
           WaitTimeout, EvalProcess, Wait, Close, UserAuthenticates,
           UserClosesController, UserKeepsProcess, CtxDone, Kill, TorReady,
           TorExits
  <2>. QED
    BY <2>1 DEF RemoveDataDir, Inv, StartInv, RunningInv, SafeRemoval
<1>. QED
  BY <1>1, InvHolds, PTL DEF Spec, DirRemoval
=============================================================================
