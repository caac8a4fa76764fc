--------------------------- MODULE FidiLifecycle ---------------------------
(****************************************************************************)
(* One fidi_app process, from its command line to its exit status, with the  *)
(* connections that are open when it is told to stop.  The main thread goes  *)
(* through the options, initialize, main and uninitialize; the handlers log  *)
(* until they end, whatever it is at by then.                                *)
(*                                                                           *)
(* Poco is external: options are processed in order, and one that is unknown *)
(* or invalid, or given a second time, ends the process; stop() ends the     *)
(* taking of new connections, but a worker that has one goes on with it, one *)
(* handler after the other for as long as it is kept alive, until the        *)
(* process ends; a termination signal is only held back once the process     *)
(* waits for it.                                                             *)
(* --daemon, --umask, --pidfile and configuration files are left out.        *)
(****************************************************************************)
EXTENDS Integers, Sequences, FiniteSets

CONSTANTS CommandLines,  \* sequences of [name, value]
          Ports,         \* ports that may be asked for and may be in use
          Connections    \* bound: the connections that may come

MaxPort == 65535
DefaultPort == 9001

Options == {"help", "version", "port", "log-dir", "log-file"}

\* "." and the directory that --log-dir may name, with what lstat, access and
\* FileChannel find there.
Dirs == {".", "logs"}
Kinds == {"missing", "file", "link", "locked", "unopenable", "fine"}

ASSUME CommandLinesAssumption ==
  /\ DefaultPort \in Ports
  /\ \A l \in CommandLines :
       /\ l \in Seq({l[i] : i \in DOMAIN l})
       /\ \A i \in DOMAIN l :
            /\ l[i].name = "port" => l[i].value \in Ports \cup (Int \ (0 .. MaxPort))
            /\ l[i].name = "log-dir" => l[i].value \in Dirs

VARIABLES
  line,     \* the command line
  kind,     \* what each of Dirs is
  inUse,    \* the ports other programs listen on
  pc,       \* where the main thread is
  args,     \* the options it has not processed
  app,      \* help_requested_, port_, log_dir_
  code,     \* the exit status, "none" while the process runs
  listening,
  loggers,  \* ConsoleLogger and FileLogger have their channels
  conn,     \* conn[c]: where the worker that has the connection c is
  late,     \* the connections that were open when stop() returned
  logged,   \* the main thread's messages that reached the console
  losers    \* the connections whose handlers lost a message

world == <<line, kind, inUse>>
handlers == <<conn, losers>>
vars == <<world, pc, args, app, code, listening, loggers, handlers, late, logged>>

Init ==
  /\ line \in CommandLines
  /\ kind \in {k \in [Dirs -> Kinds] : k["."] \in {"locked", "unopenable", "fine"}}
  /\ inUse \in SUBSET Ports
  /\ pc = "options" /\ args = line
  /\ app = [help_requested_ |-> FALSE, port_ |-> DefaultPort, log_dir_ |-> "."]
  /\ code = "none" /\ listening = FALSE /\ loggers = FALSE
  /\ conn = [c \in Connections |-> "none"] /\ losers = {} /\ late = {} /\ logged = {}

-----------------------------------------------------------------------------
\* The process is gone, with everything it was doing.
Die(status) ==
  /\ pc' = "exited" /\ code' = status /\ listening' = FALSE
  /\ UNCHANGED <<world, args, app, loggers, handlers, late, logged>>

GoOn(next) == pc' = next /\ UNCHANGED <<world, code, handlers>>

\* The options that were processed before the next one.
Seen == {line[i].name : i \in 1 .. Len(line) - Len(args)}

\* Poco's OptionProcessor or the validator throws.
Refused(option) ==
  \/ option.name \notin Options
  \/ option.name \in Seen
  \/ option.name = "port" /\ option.value \notin 0 .. MaxPort

BadOption ==
  /\ pc = "options" /\ args # <<>> /\ Refused(Head(args))
  /\ Die("EXIT_CONFIG")

\* Mutant: the version is printed, and the program started.
StopOptionsHelpOnly == Head(args).name = "help"

\* HandleHelp and HandleVersion call stopOptionsProcessing.
StopOptions == Head(args).name \in {"help", "version"}

\* One callback: HandleHelp, HandleVersion, set_port, SetLogDirectory or
\* SetLogFile.  The file's name is not kept.
Option ==
  /\ pc = "options" /\ args # <<>> /\ ~Refused(Head(args))
  /\ args' = IF StopOptions THEN <<>> ELSE Tail(args)
  /\ app' = CASE StopOptions -> [app EXCEPT !.help_requested_ = TRUE]
              [] Head(args).name = "port" -> [app EXCEPT !.port_ = Head(args).value]
              [] Head(args).name = "log-dir" -> [app EXCEPT !.log_dir_ = Head(args).value]
              [] OTHER -> app
  /\ UNCHANGED <<world, pc, code, listening, loggers, handlers, late, logged>>

\* CreateFileLogger exits: nothing there, no directory (a link to one is none
\* for lstat, except "." which is not looked at), or no access to it.
NoLogDir(dir) == kind[dir] \in {"missing", "file", "link", "locked"}

\* initialize.  If FileChannel throws, that leaves the application's run.
Initialize ==
  /\ pc = "options" /\ args = <<>>
  /\ \/ ~app.help_requested_ /\ NoLogDir(app.log_dir_) /\ Die("EXIT_FAILURE")
     \/ ~app.help_requested_ /\ kind[app.log_dir_] = "unopenable" /\ Die("exception")
     \/ /\ app.help_requested_ \/ kind[app.log_dir_] = "fine"
        /\ loggers' = ~app.help_requested_
        /\ GoOn("main") /\ UNCHANGED <<args, app, listening, late, logged>>

\* The ServerSocket is bound before anything else in main.
CannotBind == app.port_ \in inUse

\* Application::run catches what leaves main, and goes on to uninitialize.
BindThrows ==
  /\ pc = "main" /\ CannotBind
  /\ GoOn("throws") /\ UNCHANGED <<args, app, listening, loggers, late, logged>>

NothingToServe ==
  /\ pc = "main" /\ ~CannotBind /\ app.help_requested_
  /\ GoOn("returns") /\ UNCHANGED <<args, app, listening, loggers, late, logged>>

Start ==
  /\ pc = "main" /\ ~CannotBind /\ ~app.help_requested_
  /\ GoOn("started") /\ listening' = TRUE
  /\ UNCHANGED <<args, app, loggers, late, logged>>

\* Logger::get(...).information by the main thread.
Say(message) == logged' = IF loggers THEN logged \cup {message} ELSE logged

WaitForTermination ==
  /\ pc = "started" /\ Say("started") /\ GoOn("waiting")
  /\ UNCHANGED <<args, app, listening, loggers, late>>

\* Mutant: the loggers go first.
TerminateUnlogged ==
  /\ pc = "waiting" /\ loggers' = FALSE /\ GoOn("stopping")
  /\ UNCHANGED <<args, app, listening, late, logged>>

\* The signal main waits for.
Terminate ==
  /\ pc = "waiting" /\ GoOn("stopping")
  /\ UNCHANGED <<args, app, listening, loggers, late, logged>>

\* A signal that comes earlier has its default effect.
Kill == pc \in {"options", "main", "started"} /\ Die("signal")

\* The connections a worker has: between two requests, or in a handler.
Open == {c \in Connections : conn[c] \notin {"none", "gone"}}

\* Mutant: stop waits for the workers.
StopJoins ==
  /\ pc = "stopping" /\ Open = {}
  /\ Say("stopping") /\ listening' = FALSE /\ late' = Open
  /\ GoOn("returns")
  /\ UNCHANGED <<args, app, loggers>>

\* Mutant: the socket stays open.
StopNothing ==
  /\ pc = "stopping"
  /\ Say("stopping") /\ late' = Open
  /\ GoOn("returns")
  /\ UNCHANGED <<args, app, loggers, listening>>

\* server.stop(): no more connections are taken up, those that wait in the
\* queue included.
Stop ==
  /\ pc = "stopping"
  /\ Say("stopping") /\ listening' = FALSE /\ late' = Open
  /\ GoOn("returns")
  /\ UNCHANGED <<args, app, loggers>>

\* uninitialize shuts the loggers down, after main has returned or thrown.
Uninitialize ==
  /\ pc \in {"returns", "throws"}
  /\ loggers' = FALSE
  /\ GoOn(IF pc = "throws" THEN "failed" ELSE "done")
  /\ UNCHANGED <<args, app, listening, late, logged>>

\* The process ends, with the handlers that still run.
Exit ==
  \/ pc = "done" /\ Die("EXIT_OK")
  \/ pc = "failed" /\ Die("EXIT_SOFTWARE")

-----------------------------------------------------------------------------
Moves(c, s) == /\ conn' = [conn EXCEPT ![c] = s]
               /\ UNCHANGED <<world, pc, args, app, code, listening, loggers, late, logged>>

\* A worker takes a connection from the dispatcher's queue.
Accept(c) ==
  /\ listening /\ pc # "exited" /\ conn[c] = "none"
  /\ Moves(c, "idle") /\ UNCHANGED losers

\* A request comes on the connection and gets a handler, also when the server
\* was stopped meanwhile.
TakeUp(c) ==
  /\ pc # "exited" /\ conn[c] = "idle"
  /\ Moves(c, "running") /\ UNCHANGED losers

\* Logger::get: after the shutdown it makes a logger without a channel.
GetLogger(c) ==
  /\ pc # "exited" /\ conn[c] = "running"
  /\ Moves(c, IF loggers THEN "logging" ELSE "muted") /\ UNCHANGED losers

\* The logger is used.  One that was destroyed since is no longer there:
\* the message is lost, or the process dies of it.
PutMessage(c) ==
  /\ pc # "exited" /\ conn[c] \in {"logging", "muted"}
  /\ \/ /\ Moves(c, "running")
        /\ losers' = IF conn[c] = "logging" /\ loggers THEN losers ELSE losers \cup {c}
     \/ conn[c] = "logging" /\ ~loggers /\ Die("signal")

\* handleRequest returns, or an exception leaves it and ends the connection.
End(c) ==
  /\ pc # "exited" /\ conn[c] = "running"
  /\ \E s \in {"idle", "gone"} : Moves(c, s)
  /\ UNCHANGED losers

\* A connection without a request is closed by its client, or after the
\* keep-alive timeout.
HangUp(c) ==
  /\ pc # "exited" /\ conn[c] = "idle"
  /\ Moves(c, "gone") /\ UNCHANGED losers

Main == \/ BadOption \/ Option \/ Initialize \/ BindThrows \/ NothingToServe \/ Start
        \/ WaitForTermination \/ Stop \/ Uninitialize \/ Exit

Handler(c) == TakeUp(c) \/ GetLogger(c) \/ PutMessage(c) \/ End(c)

Worker(c) == Accept(c) \/ Handler(c) \/ HangUp(c)

Next == Main \/ Terminate \/ Kill \/ \E c \in Connections : Worker(c)

Spec == Init /\ [][Next]_vars

\* The main thread is scheduled.  Handlers may take for ever.
FairSpec == Spec /\ WF_vars(Main)

-----------------------------------------------------------------------------
\* The server's socket is open only while there are loggers, between start and
\* stop; the connections it took in may outlive both.
TypeOK ==
  /\ line \in CommandLines /\ kind \in [Dirs -> Kinds] /\ inUse \subseteq Ports
  /\ pc \in {"options", "main", "started", "waiting", "stopping", "returns", "throws",
             "done", "failed", "exited"}
  /\ args \in {SubSeq(line, i, Len(line)) : i \in 1 .. Len(line) + 1}
  /\ app \in [help_requested_ : BOOLEAN, port_ : Ports, log_dir_ : Dirs]
  /\ code \in {"none", "EXIT_OK", "EXIT_CONFIG", "EXIT_FAILURE", "EXIT_SOFTWARE", "exception", "signal"}
  /\ code = "none" <=> pc # "exited"
  /\ listening => loggers /\ pc \in {"started", "waiting", "stopping"}
  /\ conn \in [Connections -> {"none", "idle", "running", "logging", "muted", "gone"}]
  /\ late \subseteq Connections /\ losers \subseteq Connections /\ logged \subseteq {"started", "stopping"}

\* The reference for what a command line means.
Terminal(i) == line[i].name \in {"help", "version"}
Faulty(i) == \/ line[i].name \notin Options
             \/ line[i].name = "port" /\ line[i].value \notin 0 .. MaxPort
             \/ \E j \in 1 .. i - 1 : line[j].name = line[i].name
First(i) == \A j \in 1 .. i - 1 : ~Terminal(j) /\ ~Faulty(j)
WrongUsage == \E i \in DOMAIN line : First(i) /\ Faulty(i)
HelpOnly == \E i \in DOMAIN line : First(i) /\ Terminal(i) /\ ~Faulty(i)
Given(name, default) ==
  LET at == {i \in DOMAIN line : First(i) /\ line[i].name = name}
  IN IF at = {} THEN default ELSE line[CHOOSE i \in at : TRUE].value
LogKind == kind[Given("log-dir", ".")]
PortInUse == Given("port", DefaultPort) \in inUse

\* The status of a process that was asked to serve.
StatusOfServer ==
  CASE LogKind \in {"missing", "file", "link", "locked"} -> "EXIT_FAILURE"
    [] LogKind = "unopenable" -> "exception"
    [] LogKind = "fine" -> IF PortInUse THEN "EXIT_SOFTWARE" ELSE "EXIT_OK"

\* The exit status says what happened, for every command line and surrounding:
\* a wrong option counts unless --help or --version stands before it, and
\* after these nothing is served and no log opened.  A process that served
\* ends well, but for a signal: one that came before it waited for it, or, if
\* connections were open when the server had stopped, that of a handler on one
\* of them which used a logger that is gone.  (Nothing is said of --help while
\* another program has the port.)
ExitAsAsked ==
  /\ pc = "exited" /\ code # "signal" =>
       /\ WrongUsage => code = "EXIT_CONFIG"
       /\ HelpOnly /\ ~PortInUse => code = "EXIT_OK"
       /\ ~WrongUsage /\ ~HelpOnly => code = StatusOfServer
  /\ code = "signal" /\ "stopping" \in logged => late # {}
  /\ loggers \/ listening => ~WrongUsage /\ ~HelpOnly

\* The console has the first and the last message of a process that serves and
\* stops as it should, and handlers lose messages only on connections that
\* were open when the server had stopped, also if they are handlers of requests
\* that came later.
LogComplete ==
  /\ code = "EXIT_OK" /\ ~HelpOnly => logged = {"started", "stopping"}
  /\ losers \subseteq late

\* A process that was told to stop does, whatever its handlers are waiting
\* for.
ShutdownEnds == pc = "stopping" ~> pc = "exited"
=============================================================================
