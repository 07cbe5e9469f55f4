------------------------- MODULE DesktopShellProofs -------------------------
(***************************************************************************)
(* Proofs about DesktopShell, for any number of retries and windows: no    *)
(* server is left behind, one window is enough if the application is not   *)
(* activated before the server answers, and a crash is reported.           *)
(***************************************************************************)
EXTENDS DesktopShell, TLAPS

(***************************************************************************)
(* Types                                                                   *)
(***************************************************************************)

\* The part of TypeOK that speaks of windows.
WindowsOK ==
  /\ windows \subseteq 1 .. MaxWindows /\ visible \subseteq windows
  /\ mainWindow \in windows \union {0} /\ created \in 0 .. MaxWindows
  /\ tray \in BOOLEAN

\* Its flags, its counters, and the rest.
FlagsOK ==
  /\ dev \in BOOLEAN /\ portTaken \in BOOLEAN /\ running \in BOOLEAN
  /\ serverProcess \in BOOLEAN /\ isQuitting \in BOOLEAN
  /\ quitTimer \in BOOLEAN /\ closing \in BOOLEAN
CountersOK == attempts \in Nat /\ requests \in Nat /\ retries \in Nat
StatesOK ==
  /\ server \in {"none", "starting", "failed", "listening", "stopped", "crashed"}
  /\ started \in {"none", "pending", "resolved", "rejected"}
  /\ dialogs \subseteq {"crash", "crash log", "failure", "failure log"}

LEMMA TypeParts == TypeOK <=> FlagsOK /\ CountersOK /\ StatesOK /\ WindowsOK
BY Zenon DEF TypeOK, FlagsOK, CountersOK, StatesOK, WindowsOK

\* What createWindow and the close event leave behind is well typed.
LEMMA CreateWindowType ==
  ASSUME WindowsOK, CreateWindow, tray' \in BOOLEAN
  PROVE  WindowsOK'
BY ShellAssumption DEF WindowsOK, CreateWindow

LEMMA CloseEventType ==
  ASSUME WindowsOK, NEW ws, NEW quitting, CloseEvent(ws, quitting)
  PROVE  WindowsOK'
<1>1. CASE quitting
  BY <1>1 DEF WindowsOK, CloseEvent
<1>2. CASE ~quitting
  BY <1>2 DEF WindowsOK, CloseEvent
<1> QED
  BY <1>1, <1>2

\* Asking to quit changes windows, running and the variables of before-quit.
LEMMA BeforeQuitType ==
  ASSUME TypeOK, NEW quitting \in BOOLEAN, BeforeQuit(quitting)
  PROVE  WindowsOK' /\ running' \in BOOLEAN /\ isQuitting' \in BOOLEAN
         /\ quitTimer' \in BOOLEAN /\ closing' \in BOOLEAN
<1>0. WindowsOK
  BY DEF TypeOK, WindowsOK
<1>1. CASE serverProcess
  BY <1>0, <1>1 DEF BeforeQuit, TypeOK, WindowsOK, windowVars
<1>2. CASE ~serverProcess
  <2>1. CloseEvent(windows, quitting)
    BY <1>2 DEF BeforeQuit
  <2>2. WindowsOK'
    BY <1>0, <2>1, CloseEventType
  <2> QED
    BY <1>2, <2>2 DEF BeforeQuit, TypeOK
<1> QED
  BY <1>1, <1>2

\* Each action keeps the types.
LEMMA TypeStep == TypeOK /\ [Next]_vars => TypeOK'
<1> SUFFICES ASSUME TypeOK, [Next]_vars
             PROVE  TypeOK'
  OBVIOUS
<1>0. FlagsOK /\ CountersOK /\ StatesOK /\ WindowsOK
  BY TypeParts
<1>1. CASE Ready
  BY <1>1 DEF Ready, TypeOK, windowVars, quitVars
<1>2. CASE Connected
  <2>1. started' \in {"none", "pending", "resolved", "rejected"} /\ tray' \in BOOLEAN
    BY <1>2 DEF Connected, TypeOK, windowVars
  <2>2. WindowsOK'
    <3>1. CASE started = "pending"
      BY <1>0, <1>2, <2>1, <3>1, CreateWindowType DEF Connected
    <3>2. CASE started # "pending"
      BY Zenon, <1>0, <1>2, <3>2 DEF Connected, WindowsOK, windowVars
    <3> QED
      BY <3>1, <3>2
  <2>3. FlagsOK' /\ StatesOK'
    BY <1>0, <1>2, <2>1 DEF Connected, FlagsOK, StatesOK, serverVars, quitVars
  <2>4. CountersOK'
    BY <1>0, <1>2 DEF Connected, CountersOK
  <2> QED
    BY <2>2, <2>3, <2>4 DEF TypeOK, FlagsOK, CountersOK, StatesOK, WindowsOK
<1>3. CASE ConnectFails
  <2>1. PICK n \in {1, 2} : Tried(n)
    BY <1>3 DEF ConnectFails
  <2>2. retries' = retries \/ retries' = retries + n
    BY <2>1 DEF Tried
  <2>3. CountersOK'
    BY <1>0, <1>3, <2>2 DEF ConnectFails, CountersOK
  <2>4. StatesOK'
    BY <1>0, <1>3, <2>1 DEF ConnectFails, Tried, Rejected, StatesOK, serverVars
  <2>5. FlagsOK' /\ WindowsOK'
    BY Zenon, <1>0, <1>3 DEF ConnectFails, FlagsOK, WindowsOK, serverVars, windowVars, quitVars
  <2> QED
    BY <2>3, <2>4, <2>5 DEF TypeOK, FlagsOK, CountersOK, StatesOK, WindowsOK
<1>4. CASE RetryTimer
  <2>1. CountersOK'
    BY <1>0, <1>4 DEF RetryTimer, CountersOK
  <2>2. FlagsOK' /\ StatesOK' /\ WindowsOK'
    BY <1>0, <1>4 DEF RetryTimer, FlagsOK, StatesOK, WindowsOK, serverVars, windowVars, quitVars
  <2> QED
    BY Zenon, <2>1, <2>2 DEF TypeOK, FlagsOK, CountersOK, StatesOK, WindowsOK
<1>5. CASE QuitTimer
  BY <1>5 DEF QuitTimer, TypeOK, startVars, windowVars
<1>6. CASE ServerListens
  BY <1>6 DEF ServerListens, TypeOK, startVars, windowVars, quitVars
<1>7. CASE SpawnFails
  BY <1>7 DEF SpawnFails, Rejected, TypeOK, windowVars, quitVars
<1>8. ASSUME NEW crashed \in BOOLEAN, ServerExits(crashed)
      PROVE  TypeOK'
  <2>1. WindowsOK' /\ dialogs' \subseteq {"crash", "crash log", "failure", "failure log"}
    <3>1. CASE UNCHANGED windowVars
      BY <1>0, <1>8, <3>1 DEF ServerExits, WindowsOK, windowVars, TypeOK
    <3>2. CASE CloseEvent({mainWindow}, isQuitting)
      BY <1>0, <1>8, <3>2, CloseEventType DEF ServerExits, TypeOK
    <3> QED
      BY <1>8, <3>1, <3>2 DEF ServerExits
  <2> QED
    BY <1>8, <2>1 DEF ServerExits, TypeOK, WindowsOK, startVars, quitVars
<1>9. CASE User
  <2>1. ASSUME NEW w \in windows, CloseWindow(w)
        PROVE  TypeOK'
    <3>1. WindowsOK'
      BY <1>0, <2>1, CloseEventType DEF CloseWindow
    <3> QED
      BY <2>1, <3>1 DEF CloseWindow, TypeOK, WindowsOK, serverVars, startVars, quitVars
  <2>2. ASSUME TrayShow \/ TrayClick \/ Activate
        PROVE  TypeOK'
    <3>1. WindowsOK'
      <4>1. CASE CreateWindow
        BY <1>0, <2>2, <4>1, CreateWindowType DEF TrayShow, TrayClick, Activate, WindowsOK
      <4>2. CASE ~CreateWindow
        BY <1>0, <2>2, <4>2 DEF TrayShow, TrayClick, Activate, WindowsOK
      <4> QED
        BY <4>1, <4>2
    <3>2. UNCHANGED <<dev, portTaken, running, serverVars, startVars, dialogs, quitVars>>
      BY <2>2 DEF TrayShow, TrayClick, Activate
    <3>3. FlagsOK' /\ CountersOK' /\ StatesOK'
      BY Zenon, <1>0, <3>2 DEF FlagsOK, CountersOK, StatesOK, serverVars, startVars, quitVars
    <3> QED
      BY <3>1, <3>3 DEF TypeOK, FlagsOK, CountersOK, StatesOK, WindowsOK
  <2>3. CASE TrayQuit
    BY <2>3, BeforeQuitType DEF TrayQuit, TypeOK, WindowsOK, serverVars, startVars
  <2>4. CASE SystemQuit
    BY <2>4, BeforeQuitType DEF SystemQuit, TypeOK, WindowsOK, serverVars, startVars
  <2>5. ASSUME NEW d \in dialogs, AnswerDialog(d)
        PROVE  TypeOK'
    <3>1. CASE BeforeQuit(isQuitting \/ d \in {"crash", "crash log"}) /\ dialogs' = dialogs \ {d}
      <4>1. (isQuitting \/ d \in {"crash", "crash log"}) \in BOOLEAN
        OBVIOUS
      <4>2. WindowsOK' /\ running' \in BOOLEAN /\ isQuitting' \in BOOLEAN
            /\ quitTimer' \in BOOLEAN /\ closing' \in BOOLEAN
        BY <3>1, <4>1, BeforeQuitType
      <4> QED
        BY <2>5, <3>1, <4>2 DEF AnswerDialog, TypeOK, WindowsOK, serverVars, startVars
    <3>2. CASE UNCHANGED <<running, windowVars, quitVars>>
               /\ dialogs' \subseteq dialogs \union {"crash log", "failure log"}
      <4>1. FlagsOK' /\ CountersOK' /\ WindowsOK'
        BY Zenon, <1>0, <2>5, <3>2 DEF AnswerDialog, FlagsOK, CountersOK, WindowsOK,
                                serverVars, startVars, windowVars, quitVars
      <4>2. StatesOK'
        BY <1>0, <2>5, <3>2 DEF AnswerDialog, StatesOK, serverVars, startVars
      <4> QED
        BY <4>1, <4>2 DEF TypeOK, FlagsOK, CountersOK, StatesOK, WindowsOK
    <3> QED
      BY Zenon, <2>5, <3>1, <3>2 DEF AnswerDialog
  <2> QED
    BY <1>9, <2>1, <2>2, <2>3, <2>4, <2>5 DEF User
<1>10. CASE UNCHANGED vars
  <2>1. FlagsOK'
    BY <1>0, <1>10 DEF FlagsOK, vars, serverVars, quitVars
  <2>2. WindowsOK'
    BY <1>0, <1>10 DEF WindowsOK, vars, windowVars
  <2>3. CountersOK' /\ StatesOK'
    BY <1>0, <1>10 DEF CountersOK, StatesOK, vars, serverVars, startVars
  <2> QED
    BY Zenon, <2>1, <2>2, <2>3 DEF TypeOK, FlagsOK, CountersOK, StatesOK, WindowsOK
<1> QED
  BY <1>1, <1>2, <1>3, <1>4, <1>5, <1>6, <1>7, <1>8, <1>9, <1>10 DEF Next, Attempt

\* The variables of main.js keep their types.
THEOREM TypeCorrect == Spec => []TypeOK
<1>1. Init => TypeOK
  <2> SUFFICES ASSUME Init PROVE TypeOK
    OBVIOUS
  <2>1. FlagsOK /\ CountersOK /\ StatesOK
    BY DEF Init, FlagsOK, CountersOK, StatesOK
  <2>2. WindowsOK
    <3>1. created \in 0 .. MaxWindows
      BY ShellAssumption DEF Init
    <3>2. windows \subseteq 1 .. MaxWindows /\ visible \subseteq windows
          /\ mainWindow \in windows \union {0} /\ tray \in BOOLEAN
      BY DEF Init
    <3> QED
      BY <3>1, <3>2 DEF WindowsOK
  <2> QED
    BY Zenon, <2>1, <2>2 DEF TypeOK, FlagsOK, CountersOK, StatesOK, WindowsOK
<1> QED
  BY <1>1, TypeStep, PTL DEF Spec

-----------------------------------------------------------------------------
(***************************************************************************)
(* No orphan                                                               *)
(***************************************************************************)

\* Asking to quit exits at once only if there is no server process.
LEMMA QuitKeepsServerKnown ==
  ASSUME ServerKnown, running, NEW quitting, BeforeQuit(quitting),
         UNCHANGED <<serverVars, startVars>>
  PROVE  ServerKnown'
<1>1. CASE serverProcess
  BY <1>1 DEF BeforeQuit, ServerKnown, NoOrphan, Alive, serverVars, startVars
<1>2. CASE ~serverProcess
  BY <1>2 DEF ServerKnown, NoOrphan, Alive, serverVars, startVars
<1> QED
  BY <1>1, <1>2

\* One step per action of main.js that touches the server, its variable or
\* the state of the application.
LEMMA ServerKnownStep == ServerKnown /\ [Next]_vars => ServerKnown'
<1> SUFFICES ASSUME ServerKnown, [Next]_vars
             PROVE  ServerKnown'
  OBVIOUS
<1> USE DEF ServerKnown, NoOrphan, Alive
<1>1. CASE Ready
  BY <1>1 DEF Ready
<1>2. CASE Attempt
  <2>1. UNCHANGED <<running, serverVars>> /\ (started' = started \/ started' # "none")
    BY <1>2 DEF Attempt, Connected, ConnectFails, Tried, Rejected
  <2> QED
    BY <2>1 DEF serverVars
<1>3. CASE RetryTimer
  BY <1>3 DEF RetryTimer, serverVars
<1>4. CASE QuitTimer
  BY <1>4 DEF QuitTimer, startVars
<1>5. CASE ServerListens
  BY <1>5 DEF ServerListens, startVars
<1>6. CASE SpawnFails
  BY <1>6 DEF SpawnFails, Rejected
<1>7. ASSUME NEW crashed \in BOOLEAN, ServerExits(crashed)
      PROVE  ServerKnown'
  BY <1>7 DEF ServerExits, startVars
<1>8. CASE User
  <2>1. ASSUME NEW w \in windows, CloseWindow(w)
        PROVE  ServerKnown'
    BY <2>1 DEF CloseWindow, serverVars, startVars
  <2>2. CASE TrayShow
    BY <2>2 DEF TrayShow, serverVars, startVars
  <2>3. CASE TrayClick
    BY <2>3 DEF TrayClick, serverVars, startVars
  <2>4. CASE Activate
    BY <2>4 DEF Activate, serverVars, startVars
  <2>5. CASE TrayQuit
    BY <2>5, QuitKeepsServerKnown DEF TrayQuit
  <2>6. CASE SystemQuit
    BY <2>6, QuitKeepsServerKnown DEF SystemQuit
  <2>7. ASSUME NEW d \in dialogs, AnswerDialog(d)
        PROVE  ServerKnown'
    <3>1. running /\ UNCHANGED <<serverVars, startVars>>
      BY <2>7 DEF AnswerDialog
    <3>2. CASE BeforeQuit(isQuitting \/ d \in {"crash", "crash log"})
      BY <3>1, <3>2, QuitKeepsServerKnown
    <3>3. CASE UNCHANGED running
      BY <3>1, <3>3 DEF serverVars, startVars
    <3> QED
      BY <2>7, <3>2, <3>3 DEF AnswerDialog
  <2> QED
    BY <1>8, <2>1, <2>2, <2>3, <2>4, <2>5, <2>6, <2>7 DEF User
<1>9. CASE UNCHANGED vars
  BY <1>9 DEF vars, serverVars, startVars
<1> QED
  BY <1>1, <1>2, <1>3, <1>4, <1>5, <1>6, <1>7, <1>8, <1>9 DEF Next

\* The application never exits while the server it started is running.
THEOREM NoServerLeftBehind == Spec => []NoOrphan
<1>1. Init => ServerKnown
  BY DEF Init, ServerKnown, NoOrphan, Alive
<1>2. ServerKnown => NoOrphan
  BY DEF ServerKnown
<1> QED
  BY <1>1, <1>2, ServerKnownStep, PTL DEF Spec

-----------------------------------------------------------------------------
(***************************************************************************)
(* One window                                                              *)
(***************************************************************************)

\* A window is only created when there is none.
LEMMA CreateFirstWindow ==
  ASSUME windows = {}, CreateWindow
  PROVE  OnlyMainWindow'
BY DEF CreateWindow, OnlyMainWindow

\* The close event of every window there is, or one that is prevented.
LEMMA CloseEveryWindow ==
  ASSUME WindowsAfterStart, NEW ws, NEW quitting, windows \subseteq ws,
         CloseEvent(ws, quitting), UNCHANGED started
  PROVE  WindowsAfterStart'
<1>1. CASE quitting
  BY <1>1 DEF CloseEvent, WindowsAfterStart, OnlyMainWindow
<1>2. CASE ~quitting
  BY <1>2 DEF CloseEvent, WindowsAfterStart, OnlyMainWindow
<1> QED
  BY <1>1, <1>2

\* Asking to quit leaves the windows alone or closes them all.
LEMMA QuitKeepsWindows ==
  ASSUME WindowsAfterStart, NEW quitting, BeforeQuit(quitting), UNCHANGED started
  PROVE  WindowsAfterStart'
<1>1. CASE serverProcess
  BY <1>1 DEF BeforeQuit, WindowsAfterStart, OnlyMainWindow, windowVars
<1>2. CASE ~serverProcess
  <2>1. CloseEvent(windows, quitting)
    BY <1>2 DEF BeforeQuit
  <2> QED
    BY <2>1, CloseEveryWindow
<1> QED
  BY <1>1, <1>2

\* One step per action that touches the windows or the start.
LEMMA WindowsStep ==
  ASSUME ~EarlyActivate
  PROVE  TypeOK /\ WindowsAfterStart /\ [Next]_vars => WindowsAfterStart'
<1> SUFFICES ASSUME TypeOK, WindowsAfterStart, [Next]_vars
             PROVE  WindowsAfterStart'
  OBVIOUS
<1>0. mainWindow = 0 => windows = {}
  <2>1. windows \subseteq 1 .. MaxWindows
    BY Zenon DEF TypeOK
  <2>2. 0 \notin windows
    BY <2>1
  <2> QED
    BY <2>2 DEF WindowsAfterStart, OnlyMainWindow
<1> USE DEF WindowsAfterStart
<1>1. CASE Ready
  BY <1>1 DEF Ready, OnlyMainWindow, windowVars
<1>2. CASE Connected
  <2>1. CASE started = "pending"
    BY <1>2, <2>1, CreateFirstWindow DEF Connected
  <2>2. CASE started # "pending"
    BY <1>2, <2>2 DEF Connected, OnlyMainWindow, windowVars
  <2> QED
    BY <2>1, <2>2
<1>3. CASE ConnectFails
  BY <1>3 DEF ConnectFails, Tried, Rejected, OnlyMainWindow, windowVars
<1>4. CASE RetryTimer \/ QuitTimer \/ ServerListens
  BY <1>4 DEF RetryTimer, QuitTimer, ServerListens, OnlyMainWindow, windowVars, startVars
<1>5. CASE SpawnFails
  BY <1>5 DEF SpawnFails, Rejected, OnlyMainWindow, windowVars
<1>6. ASSUME NEW crashed \in BOOLEAN, ServerExits(crashed)
      PROVE  WindowsAfterStart'
  <2>1. UNCHANGED started
    BY <1>6 DEF ServerExits, startVars
  <2>2. CASE UNCHANGED windowVars
    BY <2>1, <2>2 DEF OnlyMainWindow, windowVars
  <2>3. CASE CloseEvent({mainWindow}, isQuitting)
    BY <2>1, <2>3, CloseEveryWindow DEF OnlyMainWindow
  <2> QED
    BY <1>6, <2>2, <2>3 DEF ServerExits
<1>7. CASE User
  <2>1. ASSUME NEW w \in windows, CloseWindow(w)
        PROVE  WindowsAfterStart'
    BY <2>1, CloseEveryWindow DEF CloseWindow, OnlyMainWindow, startVars
  <2>2. CASE TrayShow \/ TrayClick
    <3>1. tray /\ UNCHANGED <<started, tray>>
      BY <2>2 DEF TrayShow, TrayClick, startVars
    <3>2. OnlyMainWindow'
      BY <1>0, <2>2, CreateFirstWindow DEF TrayShow, TrayClick, OnlyMainWindow
    <3> QED
      BY <3>1, <3>2
  <2>3. CASE Activate
    <3>1. started \notin {"none", "pending"} /\ UNCHANGED started
      BY <2>3 DEF Activate, startVars
    <3>2. OnlyMainWindow'
      BY <2>3, CreateFirstWindow DEF Activate
    <3> QED
      BY <3>1, <3>2
  <2>4. CASE TrayQuit
    BY <2>4, QuitKeepsWindows DEF TrayQuit, startVars
  <2>5. CASE SystemQuit
    BY <2>5, QuitKeepsWindows DEF SystemQuit, startVars
  <2>6. ASSUME NEW d \in dialogs, AnswerDialog(d)
        PROVE  WindowsAfterStart'
    <3>1. UNCHANGED started
      BY <2>6 DEF AnswerDialog, startVars
    <3>2. CASE BeforeQuit(isQuitting \/ d \in {"crash", "crash log"})
      BY <3>1, <3>2, QuitKeepsWindows
    <3>3. CASE UNCHANGED windowVars
      BY <3>1, <3>3 DEF OnlyMainWindow, windowVars
    <3> QED
      BY <2>6, <3>2, <3>3 DEF AnswerDialog
  <2> QED
    BY <1>7, <2>1, <2>2, <2>3, <2>4, <2>5, <2>6 DEF User
<1>8. CASE UNCHANGED vars
  BY <1>8 DEF OnlyMainWindow, vars, startVars, windowVars
<1> QED
  BY <1>1, <1>2, <1>3, <1>4, <1>5, <1>6, <1>7, <1>8 DEF Next, Attempt

\* If the system does not activate the application before the server has
\* answered, every window is mainWindow.
THEOREM OneWindow == (~EarlyActivate) /\ Spec => []OnlyMainWindow
<1>1. Init => WindowsAfterStart
  BY DEF Init, WindowsAfterStart, OnlyMainWindow
<1>2. WindowsAfterStart => OnlyMainWindow
  BY DEF WindowsAfterStart
<1>3. CASE ~EarlyActivate
  <2>1. TypeOK /\ WindowsAfterStart /\ [Next]_vars => WindowsAfterStart'
    BY <1>3, WindowsStep
  <2> QED
    BY <1>1, <1>2, <2>1, TypeCorrect, PTL DEF Spec
<1> QED
  BY <1>3

-----------------------------------------------------------------------------
(***************************************************************************)
(* Crashes                                                                 *)
(***************************************************************************)

\* Asking to quit from a crash dialog sets the timer or exits.
LEMMA QuitFromCrash ==
  ASSUME NEW quitting, quitting, BeforeQuit(quitting)
  PROVE  quitTimer' \/ ~running'
BY DEF BeforeQuit

\* Asking to quit in another way takes nothing back.
LEMMA QuitKeepsReport ==
  ASSUME CrashIsReported, running, NEW quitting, BeforeQuit(quitting), UNCHANGED server,
         dialogs \intersect {"crash", "crash log"} \subseteq dialogs'
  PROVE  CrashIsReported'
<1>1. CASE serverProcess
  BY <1>1 DEF BeforeQuit, CrashIsReported
<1>2. CASE ~serverProcess
  <2>1. UNCHANGED quitTimer
    BY <1>2 DEF BeforeQuit
  <2> QED
    BY <2>1 DEF CrashIsReported
<1> QED
  BY <1>1, <1>2

\* One step per action that touches the dialogs, the timer or the server.
LEMMA CrashStep == CrashIsReported /\ [Next]_vars => CrashIsReported'
<1> SUFFICES ASSUME CrashIsReported, [Next]_vars
             PROVE  CrashIsReported'
  OBVIOUS
<1>1. CASE Ready
  BY <1>1 DEF Ready, CrashIsReported, quitVars
<1>2. CASE Connected
  BY <1>2 DEF Connected, CrashIsReported, serverVars, quitVars
<1>3. CASE ConnectFails
  <2>1. dialogs \subseteq dialogs' /\ UNCHANGED <<server, running, quitTimer>>
    BY <1>3 DEF ConnectFails, Tried, Rejected, serverVars, quitVars
  <2> QED
    BY <2>1 DEF CrashIsReported
<1>4. CASE RetryTimer
  BY <1>4 DEF RetryTimer, CrashIsReported, serverVars, quitVars
<1>5. CASE QuitTimer
  BY <1>5 DEF QuitTimer, CrashIsReported
<1>6. CASE ServerListens \/ SpawnFails
  BY <1>6 DEF ServerListens, SpawnFails, CrashIsReported
<1>7. ASSUME NEW crashed \in BOOLEAN, ServerExits(crashed)
      PROVE  CrashIsReported'
  BY <1>7 DEF ServerExits, CrashIsReported
<1>8. CASE User
  <2>1. ASSUME NEW w \in windows, CloseWindow(w)
        PROVE  CrashIsReported'
    BY <2>1 DEF CloseWindow, CrashIsReported, serverVars, quitVars
  <2>2. CASE TrayShow \/ TrayClick \/ Activate
    BY <2>2 DEF TrayShow, TrayClick, Activate, CrashIsReported, serverVars, quitVars
  <2>3. CASE TrayQuit
    BY <2>3, QuitKeepsReport DEF TrayQuit, serverVars
  <2>4. CASE SystemQuit
    BY <2>4, QuitKeepsReport DEF SystemQuit, serverVars
  <2>5. ASSUME NEW d \in dialogs, AnswerDialog(d)
        PROVE  CrashIsReported'
    <3>1. UNCHANGED server /\ running
      BY <2>5 DEF AnswerDialog, serverVars
    <3>2. CASE /\ BeforeQuit(isQuitting \/ d \in {"crash", "crash log"})
               /\ dialogs' = dialogs \ {d}
      <4>1. CASE d \in {"crash", "crash log"}
        BY <3>2, <4>1, QuitFromCrash DEF CrashIsReported
      <4>2. CASE d \notin {"crash", "crash log"}
        BY <3>1, <3>2, <4>2, QuitKeepsReport
      <4> QED
        BY <4>1, <4>2
    <3>3. CASE /\ d \in {"crash", "failure"}
               /\ dialogs' = (dialogs \ {d}) \union
                              {IF d = "crash" THEN "crash log" ELSE "failure log"}
               /\ UNCHANGED <<running, quitVars>>
      <4>1. CASE d = "crash"
        BY <3>3, <4>1 DEF CrashIsReported
      <4>2. CASE d = "failure"
        BY <3>1, <3>3, <4>2 DEF CrashIsReported, quitVars
      <4> QED
        BY <3>3, <4>1, <4>2
    <3> QED
      BY <2>5, <3>2, <3>3 DEF AnswerDialog
  <2> QED
    BY <1>8, <2>1, <2>2, <2>3, <2>4, <2>5 DEF User
<1>9. CASE UNCHANGED vars
  BY <1>9 DEF CrashIsReported, vars, serverVars, quitVars
<1> QED
  BY <1>1, <1>2, <1>3, <1>4, <1>5, <1>6, <1>7, <1>8, <1>9 DEF Next, Attempt

\* A crash of the server stays in front of the user until the application is
\* about to exit.
THEOREM CrashReported == Spec => []CrashIsReported
<1>1. Init => CrashIsReported
  BY DEF Init, CrashIsReported
<1> QED
  BY <1>1, CrashStep, PTL DEF Spec
=============================================================================
