---------------------------- MODULE DesktopShell ----------------------------
(***************************************************************************)
(* The desktop application (electron/main.js): it starts the server as a   *)
(* child process, waits until the port answers, shows a window and a tray  *)
(* icon, and takes the server down when it quits.                          *)
(*                                                                         *)
(* Every callback runs to its end before the next one: one action each.    *)
(* Electron's app.quit(), its window events and the events of a child      *)
(* process are modelled as main.js relies on them.  Texts of dialogs, logs *)
(* and the dock icon are left out.                                         *)
(***************************************************************************)
EXTENDS Integers, FiniteSets

CONSTANTS
  MaxRetries,     \* maxRetries of checkServerAvailability, 30 in the code
  MaxWindows,     \* bound: windows created
  EarlyActivate   \* whether the system activates the application (a click on
                  \* its dock icon) before the server has answered

ASSUME ShellAssumption ==
  /\ MaxRetries \in Nat \ {0} /\ MaxWindows \in Nat \ {0} /\ EarlyActivate \in BOOLEAN

VARIABLES
  dev,           \* NODE_ENV is development: no server is started
  portTaken,     \* another program listens on the server's port
  running,       \* the application has not exited
  server,        \* the child: none, starting, failed (to start), listening, stopped, crashed
  serverProcess, \* the variable is set
  started,       \* the promise of startServer: none, pending, resolved, rejected
  attempts,      \* currentAttempt
  requests,      \* connection attempts under way
  retries,       \* timers that will call tryConnect
  windows,       \* the windows that exist
  visible,       \* those that are shown
  mainWindow,    \* 0 for null
  created,       \* windows created so far (bound)
  tray,          \* there is a tray icon
  isQuitting,    \* app.isQuitting
  dialogs,       \* message boxes waiting for a click
  quitTimer,     \* a timer of before-quit is set
  closing        \* a close listener of before-quit is registered

startVars == <<started, attempts, requests, retries>>
windowVars == <<windows, visible, mainWindow, created, tray>>
quitVars == <<isQuitting, quitTimer, closing>>
serverVars == <<server, serverProcess>>
vars == <<dev, portTaken, running, serverVars, startVars, windowVars, dialogs, quitVars>>

Alive == server \in {"starting", "listening"}

-----------------------------------------------------------------------------
(***************************************************************************)
(* Windows                                                                 *)
(***************************************************************************)

\* createWindow: the new window becomes mainWindow, whatever that was.
CreateWindow ==
  /\ created < MaxWindows
  /\ created' = created + 1
  /\ windows' = windows \union {created + 1}
  /\ visible' = visible \union {created + 1}
  /\ mainWindow' = created + 1

\* The close event of the windows in ws: while the application is not
\* quitting, closing is prevented and mainWindow is hidden instead, whichever
\* window was meant; a window that closes sets mainWindow to null.
CloseEvent(ws, quitting) ==
  /\ IF quitting
     THEN /\ windows' = windows \ ws
          /\ visible' = visible \ ws
          /\ mainWindow' = 0
     ELSE /\ visible' = visible \ {mainWindow}
          /\ UNCHANGED <<windows, mainWindow>>
  /\ UNCHANGED <<created, tray>>

\* The user closes a window.
CloseWindow(w) ==
  /\ running /\ w \in visible
  /\ CloseEvent({w}, isQuitting)
  /\ UNCHANGED <<dev, portTaken, running, serverVars, startVars, dialogs, quitVars>>

\* Mutant: a hidden window is forgotten.
TrayShowNew ==
  /\ running /\ tray
  /\ CreateWindow
  /\ UNCHANGED <<dev, portTaken, running, serverVars, startVars, tray, dialogs, quitVars>>

\* "Show New API" in the tray's menu.
TrayShow ==
  /\ running /\ tray
  /\ \/ mainWindow = 0 /\ CreateWindow
     \/ /\ mainWindow # 0
        /\ visible' = visible \union {mainWindow}
        /\ UNCHANGED <<windows, mainWindow, created>>
  /\ UNCHANGED <<dev, portTaken, running, serverVars, startVars, tray, dialogs, quitVars>>

\* A click on the tray icon.
TrayClick ==
  /\ running /\ tray
  /\ \/ mainWindow = 0 /\ CreateWindow
     \/ /\ mainWindow # 0
        /\ visible' = IF mainWindow \in visible THEN visible \ {mainWindow}
                      ELSE visible \union {mainWindow}
        /\ UNCHANGED <<windows, mainWindow, created>>
  /\ UNCHANGED <<dev, portTaken, running, serverVars, startVars, tray, dialogs, quitVars>>

\* The activate event.
Activate ==
  /\ running /\ started # "none"
  /\ started = "pending" => EarlyActivate
  /\ windows = {}
  /\ CreateWindow
  /\ UNCHANGED <<dev, portTaken, running, serverVars, startVars, tray, dialogs, quitVars>>

-----------------------------------------------------------------------------
(***************************************************************************)
(* Quitting                                                                *)
(***************************************************************************)

\* Mutant: nothing but the close listener ends the application.
BeforeQuitNoTimer(quitting) ==
  /\ isQuitting' = quitting
  /\ IF serverProcess
     THEN /\ closing' = TRUE
          /\ UNCHANGED <<running, windowVars, quitTimer>>
     ELSE /\ running' = (windows # {} /\ ~quitting)
          /\ CloseEvent(windows, quitting)
          /\ UNCHANGED <<quitTimer, closing>>

\* app.quit().  before-quit prevents it if there was a server: the server is
\* asked to end (SIGTERM), and its close event or the timer exits.  Otherwise
\* the windows are closed; one that refuses ends the attempt to quit.
BeforeQuit(quitting) ==
  /\ isQuitting' = quitting
  /\ IF serverProcess
     THEN /\ quitTimer' = TRUE
          /\ closing' = TRUE
          /\ UNCHANGED <<running, windowVars>>
     ELSE /\ running' = (windows # {} /\ ~quitting)
          /\ CloseEvent(windows, quitting)
          /\ UNCHANGED <<quitTimer, closing>>

\* "Quit" in the tray's menu.
TrayQuit ==
  /\ running /\ tray
  /\ BeforeQuit(TRUE)
  /\ UNCHANGED <<dev, portTaken, serverVars, startVars, dialogs>>

\* The operating system or the application menu asks to quit.
SystemQuit ==
  /\ running
  /\ BeforeQuit(isQuitting)
  /\ UNCHANGED <<dev, portTaken, serverVars, startVars, dialogs>>

\* Mutant: the server is not killed.
QuitTimerNoKill ==
  /\ running /\ quitTimer
  /\ running' = FALSE
  /\ quitTimer' = FALSE
  /\ UNCHANGED <<dev, portTaken, serverVars, startVars, windowVars, dialogs, isQuitting, closing>>

\* The timer of before-quit: SIGKILL, and app.exit().
QuitTimer ==
  /\ running /\ quitTimer
  /\ running' = FALSE
  /\ quitTimer' = FALSE
  /\ server' = IF serverProcess /\ Alive THEN "stopped" ELSE server
  /\ UNCHANGED <<dev, portTaken, serverProcess, startVars, windowVars, dialogs, isQuitting, closing>>

\* A dialog is answered.  Both kinds offer to show the log, after which a
\* second dialog is only good for quitting; only the crash dialogs set
\* isQuitting.
AnswerDialog(d) ==
  /\ running /\ d \in dialogs
  /\ \/ /\ d \in {"crash", "failure"}
        /\ dialogs' = (dialogs \ {d}) \union {IF d = "crash" THEN "crash log" ELSE "failure log"}
        /\ UNCHANGED <<running, windowVars, quitVars>>
     \/ /\ dialogs' = dialogs \ {d}
        /\ BeforeQuit(isQuitting \/ d \in {"crash", "crash log"})
  /\ UNCHANGED <<dev, portTaken, serverVars, startVars>>

-----------------------------------------------------------------------------
(***************************************************************************)
(* Starting the server                                                     *)
(***************************************************************************)

\* app.whenReady(): startServer spawns the server, or nothing in development
\* mode, and tries to connect.
Ready ==
  /\ running /\ started = "none"
  /\ started' = "pending"
  /\ attempts' = 1 /\ requests' = 1
  /\ server' = IF dev THEN server ELSE "starting"
  /\ serverProcess' = ~dev
  /\ UNCHANGED <<dev, portTaken, running, retries, windowVars, dialogs, quitVars>>

\* startServer rejects, if it has not settled: the failure dialog.
Rejected ==
  /\ started' = IF started = "pending" THEN "rejected" ELSE started
  /\ dialogs' = IF started = "pending" THEN dialogs \union {"failure"} ELSE dialogs

\* Something answers on the port: startServer resolves, if it has not
\* settled, and the tray and the window are created.
Connected ==
  /\ running /\ requests > 0
  /\ dev \/ portTaken \/ server = "listening"
  /\ requests' = requests - 1
  /\ IF started = "pending"
     THEN started' = "resolved" /\ tray' = TRUE /\ CreateWindow
     ELSE UNCHANGED <<started, windowVars>>
  /\ UNCHANGED <<dev, portTaken, running, serverVars, attempts, retries, dialogs, quitVars>>

\* Mutant: an attempt that fails is not repeated.
TriedOnce(n) ==
  IF attempts >= MaxRetries THEN Rejected /\ UNCHANGED retries
  ELSE UNCHANGED <<started, dialogs, retries>>

\* The error handler of an attempt, called n times.
Tried(n) ==
  IF attempts >= MaxRetries THEN Rejected /\ UNCHANGED retries
  ELSE retries' = retries + n /\ UNCHANGED <<started, dialogs>>

\* The connection is refused; or it times out, and then destroying the
\* request raises its error event as well, so that two retries are set.
ConnectFails ==
  /\ running /\ requests > 0
  /\ requests' = requests - 1
  /\ Tried(1) \/ Tried(2)
  /\ UNCHANGED <<dev, portTaken, running, serverVars, attempts, windowVars, quitVars>>

RetryTimer ==
  /\ running /\ retries > 0
  /\ retries' = retries - 1
  /\ attempts' = attempts + 1
  /\ requests' = requests + 1
  /\ UNCHANGED <<dev, portTaken, running, serverVars, started, windowVars, dialogs, quitVars>>

-----------------------------------------------------------------------------
(***************************************************************************)
(* The server                                                              *)
(***************************************************************************)

ServerListens ==
  /\ running /\ server = "starting" /\ ~portTaken
  /\ server' = "listening"
  /\ UNCHANGED <<dev, portTaken, running, serverProcess, startVars, windowVars, dialogs, quitVars>>

\* The spawn itself fails: the error event.  A close event with a negative
\* code may follow.
SpawnFails ==
  /\ running /\ server = "starting"
  /\ server' = "failed"
  /\ Rejected
  /\ UNCHANGED <<dev, portTaken, running, serverProcess, attempts, requests, retries,
                 windowVars, quitVars>>

\* Mutant: an exit code other than 0 is not looked at.
ServerExitsUnseen(crashed) ==
  /\ running
  /\ Alive \/ (crashed /\ server = "failed")
  /\ server' = IF crashed THEN "crashed" ELSE "stopped"
  /\ IF mainWindow # 0 THEN CloseEvent({mainWindow}, isQuitting) ELSE UNCHANGED windowVars
  /\ running' = ~closing
  /\ serverProcess' = ~closing
  /\ UNCHANGED <<dev, portTaken, startVars, dialogs, quitVars>>

\* The close event: a crash opens a dialog, a normal end closes the window;
\* then the listener of before-quit, if any, exits.
ServerExits(crashed) ==
  /\ running
  /\ Alive \/ (crashed /\ server = "failed")
  /\ server' = IF crashed THEN "crashed" ELSE "stopped"
  /\ \/ /\ crashed
        /\ dialogs' = dialogs \union {"crash"}
        /\ UNCHANGED windowVars
     \/ /\ ~crashed
        /\ IF mainWindow # 0 THEN CloseEvent({mainWindow}, isQuitting) ELSE UNCHANGED windowVars
        /\ UNCHANGED dialogs
  /\ running' = ~closing
  /\ serverProcess' = ~closing
  /\ UNCHANGED <<dev, portTaken, startVars, quitVars>>

-----------------------------------------------------------------------------
Init ==
  /\ dev \in BOOLEAN /\ portTaken \in BOOLEAN
  /\ running = TRUE
  /\ server = "none" /\ serverProcess = FALSE
  /\ started = "none" /\ attempts = 0 /\ requests = 0 /\ retries = 0
  /\ windows = {} /\ visible = {} /\ mainWindow = 0 /\ created = 0 /\ tray = FALSE
  /\ dialogs = {}
  /\ isQuitting = FALSE /\ quitTimer = FALSE /\ closing = FALSE

Attempt == Connected \/ ConnectFails

User ==
  \/ \E w \in windows : CloseWindow(w)
  \/ TrayShow \/ TrayClick \/ Activate
  \/ TrayQuit \/ SystemQuit
  \/ \E d \in dialogs : AnswerDialog(d)

Next ==
  \/ Ready \/ Attempt \/ RetryTimer \/ QuitTimer
  \/ ServerListens \/ SpawnFails
  \/ \E crashed \in BOOLEAN : ServerExits(crashed)
  \/ User

Spec == Init /\ [][Next]_vars

(***************************************************************************)
(* Timers that are set fire, and a connection attempt ends.  Nothing is    *)
(* assumed of the server, which may ignore SIGTERM, nor of the user.       *)
(***************************************************************************)
FairSpec == Spec /\ WF_vars(Attempt) /\ WF_vars(RetryTimer) /\ WF_vars(QuitTimer)

-----------------------------------------------------------------------------
(***************************************************************************)
(* Properties                                                              *)
(***************************************************************************)

\* The types of the variables of main.js.
TypeOK ==
  /\ dev \in BOOLEAN /\ portTaken \in BOOLEAN /\ running \in BOOLEAN
  /\ server \in {"none", "starting", "failed", "listening", "stopped", "crashed"}
  /\ serverProcess \in BOOLEAN
  /\ started \in {"none", "pending", "resolved", "rejected"}
  /\ attempts \in Nat /\ requests \in Nat /\ retries \in Nat
  /\ windows \subseteq 1 .. MaxWindows /\ visible \subseteq windows
  /\ mainWindow \in windows \union {0} /\ created \in 0 .. MaxWindows
  /\ tray \in BOOLEAN /\ isQuitting \in BOOLEAN
  /\ dialogs \subseteq {"crash", "crash log", "failure", "failure log"}
  /\ quitTimer \in BOOLEAN /\ closing \in BOOLEAN

\* An application that exits on its own (quit, the dialogs' process.exit, the
\* timer) never leaves the server it started behind, however far the start has
\* come.  The death of the main process and a Windows logoff, where Electron
\* emits no before-quit, are outside the model.
NoOrphan == ~running => ~Alive

\* Every window is mainWindow, so that the tray and the close button act on
\* the window the user sees, through any order of hiding, closing, showing
\* and activating.
OnlyMainWindow == windows \subseteq {mainWindow}

\* A crash of the server stays in front of the user until the application is
\* about to exit, even if the start fails because of it at the same time.
CrashIsReported ==
  (server = "crashed" /\ running) => (quitTimer \/ dialogs \intersect {"crash", "crash log"} # {})

\* Who asks to quit gets it, also if the server has ended before, so that
\* its close event will not come, or does not react to SIGTERM.
QuitEnds == (isQuitting \/ quitTimer) ~> ~running

\* The start succeeds or fails, whatever the attempts to connect meet.
StartSettles == started = "pending" ~> (started # "pending" \/ ~running)
-----------------------------------------------------------------------------
(***************************************************************************)
(* The inductive invariants behind NoOrphan, OnlyMainWindow and            *)
(* CrashIsReported.                                                        *)
(***************************************************************************)

\* A server that runs is known to before-quit; it is started once.
ServerKnown ==
  /\ NoOrphan
  /\ Alive => serverProcess
  /\ started = "none" => server = "none"

\* Before the start has settled there is no window, and no tray to ask for one.
WindowsAfterStart ==
  /\ OnlyMainWindow
  /\ started \in {"none", "pending"} => windows = {} /\ tray = FALSE
=============================================================================
