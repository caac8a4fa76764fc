------------------------- MODULE FidiLifecycleProofs -------------------------
(****************************************************************************)
(* Proofs about FidiLifecycle, for every command line of any length, every   *)
(* surrounding and any number of connections.                                *)
(****************************************************************************)
EXTENDS FidiLifecycle, SequenceTheorems, TLAPS

-----------------------------------------------------------------------------
(* The invariant.                                                            *)

\* How many options were processed.
Done == Len(line) - Len(args)

\* The value v is that of an option called name among the first k, or the
\* default value if there is none.
Holds(k, name, v, default) ==
  \/ \E j \in 1 .. k : line[j].name = name /\ v = line[j].value
  \/ v = default /\ \A j \in 1 .. k : line[j].name # name

\* The command line up to here was good, and did not ask for help.
Processing ==
  /\ \A j \in 1 .. Done : ~Terminal(j) /\ ~Faulty(j)
  /\ Holds(Done, "port", app.port_, DefaultPort)
  /\ Holds(Done, "log-dir", app.log_dir_, ".")

\* The application knows what the command line as a whole means.
Settled ==
  /\ ~WrongUsage
  /\ app.help_requested_ <=> HelpOnly
  /\ app.port_ = Given("port", DefaultPort)
  /\ app.log_dir_ = Given("log-dir", ".")

Usage ==
  /\ pc = "options" => IF app.help_requested_ THEN args = <<>> /\ Settled ELSE Processing
  /\ pc \notin {"options", "exited"} => Settled

\* What there is at each place the main thread can be at.
Surroundings ==
  /\ pc \notin {"options", "exited"} /\ ~HelpOnly => LogKind = "fine"
  /\ pc \in {"throws", "failed"} => PortInUse
  /\ pc \in {"started", "waiting", "stopping", "returns", "done"} => ~PortInUse
  /\ pc \in {"started", "waiting", "stopping"} => ~HelpOnly
  /\ pc \in {"options", "done", "failed"} => ~loggers
  /\ pc \in {"main", "throws", "started", "waiting", "stopping", "returns"} => (loggers <=> ~HelpOnly)
  /\ pc # "exited" => (listening <=> pc \in {"started", "waiting", "stopping"})
  /\ pc \in {"options", "main", "throws", "failed", "started"} => logged = {}
  /\ pc \in {"waiting", "stopping"} => logged = {"started"}
  /\ pc \in {"returns", "done"} => logged = IF HelpOnly THEN {} ELSE {"started", "stopping"}

\* A connection that outlives the server is known to: before stop() returns no
\* message is lost, and afterwards no connection is taken up.
Requesting ==
  /\ pc \in {"options", "main", "throws", "failed"} => \A c \in Connections : conn[c] = "none"
  /\ pc \in {"started", "waiting", "stopping"} => \A c \in Connections : conn[c] # "muted"
  /\ pc \in {"options", "main", "throws", "failed", "started", "waiting", "stopping"} => losers = {}
  /\ pc \in {"returns", "done"} => Open \subseteq late
  /\ losers \subseteq late

Types ==
  /\ line \in CommandLines /\ kind \in [Dirs -> Kinds] /\ inUse \subseteq Ports
  /\ pc \in {"options", "main", "started", "waiting", "stopping", "returns", "throws",
             "done", "failed", "exited"}
  /\ args \in {SubSeq(line, i, Len(line)) : i \in 1 .. Len(line) + 1}
  /\ app \in [help_requested_ : BOOLEAN, port_ : Ports, log_dir_ : Dirs]
  /\ code \in {"none", "EXIT_OK", "EXIT_CONFIG", "EXIT_FAILURE", "EXIT_SOFTWARE", "exception", "signal"}
  /\ code = "none" <=> pc # "exited"
  /\ listening \in BOOLEAN /\ loggers \in BOOLEAN
  /\ conn \in [Connections -> {"none", "idle", "running", "logging", "muted", "gone"}]
  /\ late \subseteq Connections /\ losers \subseteq Connections /\ logged \subseteq {"started", "stopping"}

Inv == /\ Types /\ Usage /\ Surroundings /\ Requesting
       /\ pc = "exited" => ~listening /\ ExitAsAsked /\ LogComplete

-----------------------------------------------------------------------------
(* What a command line means.                                                *)

LEMMA LineFacts ==
  ASSUME line \in CommandLines
  PROVE  /\ \E S : line \in Seq(S)
         /\ Len(line) \in Nat /\ DOMAIN line = 1 .. Len(line)
         /\ \A i \in DOMAIN line :
              /\ line[i].name = "port" => line[i].value \in Ports \cup (Int \ (0 .. MaxPort))
              /\ line[i].name = "log-dir" => line[i].value \in Dirs
<1>1. PICK S : line \in Seq(S)
  BY CommandLinesAssumption
<1>2. Len(line) \in Nat /\ DOMAIN line = 1 .. Len(line)
  BY <1>1
<1> QED BY <1>1, <1>2, CommandLinesAssumption

\* It means the same in every state.
LEMMA SameMeaning ==
  ASSUME line' = line, kind' = kind, inUse' = inUse
  PROVE  /\ WrongUsage' <=> WrongUsage
         /\ HelpOnly' <=> HelpOnly
         /\ \A n, d : Given(n, d)' = Given(n, d)
         /\ LogKind' = LogKind
         /\ PortInUse' <=> PortInUse
         /\ StatusOfServer' = StatusOfServer
<1>1. \A i : First(i)' <=> First(i)
  BY DEF First, Faulty, Terminal
<1>2. (WrongUsage' <=> WrongUsage) /\ (HelpOnly' <=> HelpOnly)
  BY <1>1 DEF WrongUsage, HelpOnly, Faulty, Terminal
<1>3. ASSUME NEW n, NEW d PROVE Given(n, d)' = Given(n, d)
  <2> DEFINE at == {i \in DOMAIN line : First(i) /\ line[i].name = n}
  <2>1. at' = at
    BY <1>1
  <2>2. Given(n, d) = IF at = {} THEN d ELSE line[CHOOSE i \in at : TRUE].value
    BY DEF Given
  <2>3. Given(n, d)' = IF at' = {} THEN d ELSE line'[CHOOSE i \in at' : TRUE].value
    BY DEF Given
  <2> HIDE DEF at
  <2>4. (CHOOSE i \in at : TRUE) = (CHOOSE i \in at' : TRUE)
    BY <2>1
  <2> QED BY <2>1, <2>2, <2>3, <2>4
<1>4. LogKind' = LogKind /\ (PortInUse' <=> PortInUse)
  BY <1>3 DEF LogKind, PortInUse
<1>5. StatusOfServer' = StatusOfServer
  BY <1>4 DEF StatusOfServer
<1> QED BY <1>2, <1>3, <1>4, <1>5

\* The first k options decide, if they are all there are, or if the next one is
\* --help or --version: what stands behind it is not even looked at.
LEMMA Decided ==
  ASSUME NEW l \in Nat, DOMAIN line = 1 .. l, NEW k \in 0 .. l,
         \A j \in 1 .. k : ~Terminal(j) /\ ~Faulty(j),
         k = l \/ (k < l /\ Terminal(k + 1) /\ ~Faulty(k + 1))
  PROVE  /\ ~WrongUsage
         /\ HelpOnly <=> k < l
         /\ \A n, v, d : n \notin {"help", "version"} /\ Holds(k, n, v, d) => v = Given(n, d)
<1>1. l \in Nat /\ DOMAIN line = 1 .. l /\ k \in Nat
  OBVIOUS
<1>2. \A i \in 1 .. l : First(i) => i =< k \/ (i = k + 1 /\ k < l)
  BY <1>1 DEF First
<1>3. \A i \in 1 .. k : First(i)
  BY <1>1 DEF First
<1>4. k < l => First(k + 1) /\ k + 1 \in DOMAIN line
  BY <1>1 DEF First
<1>5. ~WrongUsage
  BY <1>1, <1>2 DEF WrongUsage
<1>6. HelpOnly <=> k < l
  BY <1>1, <1>2, <1>4 DEF HelpOnly
<1>7. ASSUME NEW n, NEW v, NEW d, n \notin {"help", "version"}, Holds(k, n, v, d)
      PROVE  v = Given(n, d)
  <2> DEFINE at == {i \in DOMAIN line : First(i) /\ line[i].name = n}
  <2>1. at = {i \in 1 .. k : line[i].name = n}
    BY <1>1, <1>2, <1>3, <1>7 DEF Terminal
  <2>2. \A i, j \in at : i = j
    <3> SUFFICES ASSUME NEW i \in at, NEW j \in at, i < j PROVE FALSE
      BY <1>1, <2>1
    <3>1. i \in 1 .. j - 1 /\ line[i].name = line[j].name /\ j \in 1 .. k
      BY <1>1, <2>1
    <3> QED BY <3>1 DEF Faulty
  <2>3. Given(n, d) = IF at = {} THEN d ELSE line[CHOOSE i \in at : TRUE].value
    BY DEF Given
  <2>4. CASE at = {}
    BY <1>7, <2>1, <2>3, <2>4 DEF Holds
  <2>5. CASE at # {}
    <3>1. PICK i \in at : v = line[i].value
      BY <1>7, <2>1, <2>5 DEF Holds
    <3>2. (CHOOSE j \in at : TRUE) \in at
      BY <2>5
    <3>3. (CHOOSE j \in at : TRUE) = i
      BY <2>2, <3>2
    <3> QED BY <2>3, <2>5, <3>1, <3>3
  <2> QED BY <2>4, <2>5
<1> QED BY <1>5, <1>6, <1>7

LEMMA Rest ==
  ASSUME NEW S, NEW s \in Seq(S), NEW n \in Nat, n = Len(s), NEW k \in 0 .. n
  PROVE  /\ Len(SubSeq(s, k + 1, n)) = n - k
         /\ SubSeq(s, k + 1, n) # <<>> <=> k < n
         /\ k < n => /\ Head(SubSeq(s, k + 1, n)) = s[k + 1]
                     /\ Tail(SubSeq(s, k + 1, n)) = SubSeq(s, k + 2, n)
<1> DEFINE r == SubSeq(s, k + 1, n)
<1>1. \A i \in 1 .. n : s[i] \in S
  OBVIOUS
<1>2. r \in Seq(S) /\ Len(r) = n - k
  BY <1>1, SubSeqProperties
<1>3. r # <<>> <=> Len(r) # 0
  <2> HIDE DEF r
  <2> QED BY <1>2, EmptySeq
<1>4. k < n => /\ Head(r) = s[k + 1] /\ Tail(r) = SubSeq(s, k + 1 + 1, n)
  BY <1>1, HeadTailOfSubSeq
<1> QED BY <1>2, <1>3, <1>4

\* The options not yet processed are the end of the command line.
LEMMA ArgsFacts ==
  ASSUME Types
  PROVE  \E l \in Nat, k \in Nat :
           /\ l = Len(line) /\ DOMAIN line = 1 .. l /\ k \in 0 .. l /\ Done = k
           /\ Len(args) = l - k
           /\ args # <<>> <=> k < l
           /\ k < l => /\ Head(args) = line[k + 1] /\ Tail(args) = SubSeq(line, k + 2, l)
                       /\ Len(Tail(args)) = l - (k + 1)
           /\ Len(<<>>) = 0 /\ SubSeq(line, l + 1, l) = <<>>
<1> DEFINE l == Len(line)
<1>1. l \in Nat /\ DOMAIN line = 1 .. l
  BY LineFacts DEF Types
<1>2. PICK S : line \in Seq(S)
  BY LineFacts DEF Types
<1>3. PICK k \in 0 .. l : args = SubSeq(line, k + 1, l)
  <2>1. PICK i \in 1 .. l + 1 : args = SubSeq(line, i, l)
    BY <1>1 DEF Types
  <2> HIDE DEF l
  <2>2. i - 1 \in 0 .. l /\ (i - 1) + 1 = i
    BY <1>1
  <2> QED BY <2>1, <2>2
<1> HIDE DEF l
<1>4. k \in Nat
  BY <1>1
<1>5. /\ Len(args) = l - k
      /\ args # <<>> <=> k < l
      /\ k < l => Head(args) = line[k + 1] /\ Tail(args) = SubSeq(line, k + 2, l)
  BY <1>1, <1>2, <1>3, <1>4, Rest DEF l
<1>6. Done = k
  BY <1>1, <1>4, <1>5 DEF Done, l
<1>7. k < l => Len(Tail(args)) = l - (k + 1)
  <2> SUFFICES ASSUME k < l PROVE Len(SubSeq(line, k + 2, l)) = l - (k + 1)
    BY <1>5
  <2>1. k + 1 \in 0 .. l /\ k + 2 = (k + 1) + 1 /\ l = Len(line)
    BY <1>1, <1>4 DEF l
  <2>2. Len(SubSeq(line, (k + 1) + 1, l)) = l - (k + 1)
    BY <1>1, <1>2, <2>1, Rest
  <2> QED BY <2>1, <2>2
<1>8. SubSeq(line, l + 1, l) = <<>>
  BY <1>1, SubSeqEmpty
<1> QED BY <1>1, <1>4, <1>5, <1>6, <1>7, <1>8 DEF l

\* When no option is left, what they meant as a whole is known.
LEMMA OptionsEnd ==
  ASSUME Types, Usage, pc = "options", args = <<>>
  PROVE  Settled
<1>1. CASE app.help_requested_
  BY <1>1 DEF Usage
<1>2. CASE ~app.help_requested_
  <2>1. Processing
    BY <1>2 DEF Usage
  <2>2. PICK l \in Nat, k \in Nat : /\ DOMAIN line = 1 .. l /\ k \in 0 .. l /\ Done = k
                                  /\ ~(k < l)
    BY ArgsFacts
  <2>3. k = l
    BY <2>2
  <2>4. \A j \in 1 .. k : ~Terminal(j) /\ ~Faulty(j)
    BY <2>1, <2>2 DEF Processing
  <2>5. /\ ~WrongUsage /\ ~HelpOnly
        /\ \A n, v, d : n \notin {"help", "version"} /\ Holds(k, n, v, d) => v = Given(n, d)
    BY <2>2, <2>3, <2>4, Decided
  <2>6. app.port_ = Given("port", DefaultPort)
    BY <2>1, <2>2, <2>5 DEF Processing
  <2>7. app.log_dir_ = Given("log-dir", ".")
    BY <2>1, <2>2, <2>5 DEF Processing
  <2> QED BY <1>2, <2>5, <2>6, <2>7 DEF Settled
<1> QED BY <1>1, <1>2

LEMMA InitInv == Init => Inv
<1> SUFFICES ASSUME Init PROVE Inv
  OBVIOUS
<1>1. PICK S : line \in Seq(S)
  BY LineFacts DEF Init
<1>2. Len(line) \in Nat /\ Done = 0
  BY <1>1 DEF Init, Done
<1>3. args = SubSeq(line, 1, Len(line)) /\ 1 \in 1 .. Len(line) + 1
  BY <1>1, <1>2, SubSeqFull DEF Init
<1>4. Types
  BY <1>3, CommandLinesAssumption DEF Init, Types, Dirs
<1>5. Processing
  BY <1>2 DEF Init, Processing, Holds
<1> QED BY <1>4, <1>5 DEF Init, Inv, Usage, Surroundings, Requesting

-----------------------------------------------------------------------------
(* The end of the process.                                                   *)

\* What ExitAsAsked says of the exit status c.
Verdict(c) ==
  /\ c # "signal" =>
       /\ WrongUsage => c = "EXIT_CONFIG"
       /\ HelpOnly /\ ~PortInUse => c = "EXIT_OK"
       /\ ~WrongUsage /\ ~HelpOnly => c = StatusOfServer
  /\ c = "signal" /\ "stopping" \in logged => late # {}

\* Loggers and a server are only there for a command line that asks for them.
LEMMA ServesAsAsked ==
  ASSUME Inv, pc # "exited"
  PROVE  loggers \/ listening => ~WrongUsage /\ ~HelpOnly
BY DEF Inv, Usage, Surroundings, Settled, Types

LEMMA DieStep ==
  ASSUME Inv, pc # "exited", NEW c, Die(c), Verdict(c),
         c \in {"EXIT_OK", "EXIT_CONFIG", "EXIT_FAILURE", "EXIT_SOFTWARE", "exception", "signal"},
         c = "EXIT_OK" /\ ~HelpOnly => logged = {"started", "stopping"}
  PROVE  Inv'
<1>1. /\ pc' = "exited" /\ code' = c /\ listening' = FALSE
      /\ line' = line /\ kind' = kind /\ inUse' = inUse
      /\ UNCHANGED <<args, app, loggers, conn, losers, late, logged>>
  BY DEF Die, world, handlers
<1>2. Types'
  BY <1>1 DEF Inv, Types
<1>3. /\ WrongUsage' <=> WrongUsage
      /\ HelpOnly' <=> HelpOnly
      /\ StatusOfServer' = StatusOfServer
      /\ PortInUse' <=> PortInUse
  BY <1>1, SameMeaning
<1>4. Usage' /\ Surroundings'
  BY <1>1 DEF Usage, Surroundings
<1>5. Requesting'
  BY <1>1 DEF Inv, Requesting
<1>6. ExitAsAsked'
  <2>1. Verdict(c)'
    BY <1>1, <1>3 DEF Verdict
  <2>2. (loggers \/ listening => ~WrongUsage /\ ~HelpOnly)'
    BY <1>1, <1>3, ServesAsAsked
  <2> QED BY <1>1, <2>1, <2>2 DEF ExitAsAsked, Verdict
<1>7. LogComplete'
  BY <1>1, <1>3 DEF LogComplete, Inv, Requesting
<1> QED BY <1>1, <1>2, <1>4, <1>5, <1>6, <1>7 DEF Inv

LEMMA BadOptionStep == ASSUME Inv, BadOption PROVE Inv'
<1>1. pc = "options" /\ args # <<>> /\ Refused(Head(args)) /\ Die("EXIT_CONFIG")
  BY DEF BadOption
<1>2. Types /\ Processing
  BY <1>1 DEF Inv, Usage
<1>3. PICK l \in Nat, k \in Nat :
        /\ l = Len(line) /\ DOMAIN line = 1 .. l /\ k \in 0 .. l /\ Done = k
        /\ k < l /\ Head(args) = line[k + 1]
  BY <1>1, <1>2, ArgsFacts
<1>4. Faulty(k + 1)
  BY <1>1, <1>3 DEF Refused, Seen, Faulty, Done
<1>5. First(k + 1)
  BY <1>2, <1>3 DEF First, Processing
<1>6. WrongUsage
  BY <1>3, <1>4, <1>5 DEF WrongUsage
<1>7. ~HelpOnly
  <2> SUFFICES ASSUME NEW i \in DOMAIN line, First(i), Terminal(i), ~Faulty(i)
               PROVE  FALSE
    BY DEF HelpOnly
  <2>1. i =< k + 1
    BY <1>3, <1>4 DEF First
  <2>2. i # k + 1
    BY <1>4
  <2>3. \A j \in 1 .. k : ~Terminal(j)
    BY <1>2, <1>3 DEF Processing
  <2> QED BY <1>3, <2>1, <2>2, <2>3
<1>8. Verdict("EXIT_CONFIG")
  BY <1>6, <1>7 DEF Verdict
<1> QED BY <1>1, <1>8, DieStep

LEMMA KillStep == ASSUME Inv, Kill PROVE Inv'
<1>1. pc \in {"options", "main", "started"} /\ Die("signal")
  BY DEF Kill
<1>2. "stopping" \notin logged
  BY <1>1 DEF Inv, Surroundings
<1>3. Verdict("signal")
  BY <1>2 DEF Verdict
<1> QED BY <1>1, <1>3, DieStep

LEMMA ExitStep == ASSUME Inv, Exit PROVE Inv'
<1>1. CASE pc = "done" /\ Die("EXIT_OK")
  <2>1. /\ ~WrongUsage /\ ~PortInUse /\ (~HelpOnly => LogKind = "fine")
        /\ ~HelpOnly => logged = {"started", "stopping"}
    BY <1>1 DEF Inv, Usage, Settled, Surroundings
  <2>2. Verdict("EXIT_OK")
    BY <2>1 DEF Verdict, StatusOfServer
  <2> QED BY <1>1, <2>1, <2>2, DieStep
<1>2. CASE pc = "failed" /\ Die("EXIT_SOFTWARE")
  <2>1. ~WrongUsage /\ PortInUse /\ (~HelpOnly => LogKind = "fine")
    BY <1>2 DEF Inv, Usage, Settled, Surroundings
  <2>2. Verdict("EXIT_SOFTWARE")
    BY <2>1 DEF Verdict, StatusOfServer
  <2> QED BY <1>2, <2>2, DieStep
<1> QED BY <1>1, <1>2 DEF Exit

-----------------------------------------------------------------------------
(* The main thread.                                                          *)

LEMMA OptionStep == ASSUME Inv, Option PROVE Inv'
<1> PICK o : o = Head(args)
  OBVIOUS
<1>1. /\ pc = "options" /\ args # <<>> /\ ~Refused(o)
      /\ args' = IF StopOptions THEN <<>> ELSE Tail(args)
      /\ UNCHANGED <<line, kind, inUse, pc, code, listening, loggers, conn, losers, late, logged>>
  BY DEF Option, world, handlers
<1>2. Types /\ Processing /\ app.help_requested_ = FALSE
  BY <1>1 DEF Inv, Usage, Types
<1>3. PICK l \in Nat, k \in Nat :
        /\ l = Len(line) /\ DOMAIN line = 1 .. l /\ k \in 0 .. l /\ Done = k
        /\ k < l /\ o = line[k + 1] /\ Tail(args) = SubSeq(line, k + 2, l)
        /\ Len(Tail(args)) = l - (k + 1)
        /\ Len(<<>>) = 0 /\ SubSeq(line, l + 1, l) = <<>>
  BY <1>1, <1>2, ArgsFacts
<1>4. ~Faulty(k + 1)
  BY <1>1, <1>3 DEF Refused, Seen, Faulty, Done
<1>5. \A j \in 1 .. k : ~Terminal(j) /\ ~Faulty(j)
  BY <1>2, <1>3 DEF Processing
<1>6. Holds(k, "port", app.port_, DefaultPort) /\ Holds(k, "log-dir", app.log_dir_, ".")
  BY <1>2, <1>3 DEF Processing
<1>7. Terminal(k + 1) <=> StopOptions
  BY <1>3 DEF Terminal, StopOptions
<1>8. Types'
  <2>1. args' \in {SubSeq(line, i, Len(line)) : i \in 1 .. Len(line) + 1}
    <3>1. CASE StopOptions
      BY <1>1, <1>3, <3>1
    <3>2. CASE ~StopOptions
      <4>1. k + 2 \in 1 .. Len(line) + 1 /\ args' = SubSeq(line, k + 2, Len(line))
        BY <1>1, <1>3, <3>2
      <4> QED BY <4>1
    <3> QED BY <3>1, <3>2
  <2>2. app' \in [help_requested_ : BOOLEAN, port_ : Ports, log_dir_ : Dirs]
    <3>1. /\ o.name = "port" => o.value \in Ports \cup (Int \ (0 .. MaxPort))
          /\ o.name = "log-dir" => o.value \in Dirs
      BY <1>2, <1>3, LineFacts DEF Types
    <3>2. o.name = "port" => o.value \in Ports
      BY <1>1, <3>1 DEF Refused
    <3> QED BY <1>2, <3>1, <3>2 DEF Option, Types
  <2> QED BY <1>1, <1>2, <2>1, <2>2 DEF Types
<1>9. CASE StopOptions
  <2>1. app' = [app EXCEPT !.help_requested_ = TRUE] /\ args' = <<>>
    BY <1>1, <1>9 DEF Option, StopOptions
  <2>2. app'.help_requested_ = TRUE /\ app'.port_ = app.port_ /\ app'.log_dir_ = app.log_dir_
    BY <1>2, <2>1 DEF Types
  <2>3. /\ ~WrongUsage /\ HelpOnly
        /\ \A n, v, d : n \notin {"help", "version"} /\ Holds(k, n, v, d) => v = Given(n, d)
    BY <1>3, <1>4, <1>5, <1>7, <1>9, Decided
  <2>4. app.port_ = Given("port", DefaultPort) /\ app.log_dir_ = Given("log-dir", ".")
    BY <1>6, <2>3
  <2>5. Settled'
    BY <1>1, <2>2, <2>3, <2>4, SameMeaning DEF Settled
  <2>6. Usage'
    BY <1>1, <2>1, <2>2, <2>5 DEF Usage
  <2> QED BY <1>1, <1>8, <2>6 DEF Inv, Surroundings, Requesting
<1>10. CASE ~StopOptions
  <2>1. /\ app'.help_requested_ = FALSE
        /\ app'.port_ = IF o.name = "port" THEN o.value ELSE app.port_
        /\ app'.log_dir_ = IF o.name = "log-dir" THEN o.value ELSE app.log_dir_
    BY <1>2, <1>10 DEF Option, Types
  <2>2. Done' = k + 1
    BY <1>1, <1>3, <1>10 DEF Done
  <2>3. (\A j \in 1 .. k + 1 : ~Terminal(j) /\ ~Faulty(j))'
    <3>1. \A j \in 1 .. k + 1 : ~Terminal(j) /\ ~Faulty(j)
      BY <1>4, <1>5, <1>7, <1>10
    <3> QED BY <1>1, <3>1 DEF Terminal, Faulty
  <2>4. ASSUME NEW n, NEW v, NEW d, Holds(k, n, v, d)
        PROVE  Holds(k + 1, n, IF o.name = n THEN o.value ELSE v, d)
    <3>1. CASE o.name = n
      BY <1>3, <3>1 DEF Holds
    <3>2. CASE o.name # n
      BY <1>3, <2>4, <3>2 DEF Holds
    <3> QED BY <3>1, <3>2
  <2>5. Holds(k + 1, "port", app'.port_, DefaultPort)
    BY <1>6, <2>1, <2>4
  <2>6. Holds(k + 1, "log-dir", app'.log_dir_, ".")
    BY <1>6, <2>1, <2>4
  <2>7. Holds(Done, "port", app.port_, DefaultPort)' /\ Holds(Done, "log-dir", app.log_dir_, ".")'
    BY <1>1, <2>2, <2>5, <2>6 DEF Holds
  <2>8. Processing'
    BY <2>2, <2>3, <2>7 DEF Processing
  <2>9. Usage'
    BY <1>1, <2>1, <2>8 DEF Usage
  <2> QED BY <1>1, <1>8, <2>9 DEF Inv, Surroundings, Requesting
<1> QED BY <1>9, <1>10

LEMMA InitializeStep == ASSUME Inv, Initialize PROVE Inv'
<1>1. pc = "options" /\ args = <<>>
  BY DEF Initialize
<1>2. Settled
  BY <1>1, OptionsEnd DEF Inv
<1>3. LogKind = kind[app.log_dir_]
  BY <1>2 DEF Settled, LogKind
<1>4. CASE ~app.help_requested_ /\ NoLogDir(app.log_dir_) /\ Die("EXIT_FAILURE")
  <2>1. Verdict("EXIT_FAILURE")
    BY <1>2, <1>3, <1>4 DEF Verdict, Settled, NoLogDir, StatusOfServer
  <2> QED BY <1>1, <1>4, <2>1, DieStep
<1>5. CASE ~app.help_requested_ /\ kind[app.log_dir_] = "unopenable" /\ Die("exception")
  <2>1. Verdict("exception")
    BY <1>2, <1>3, <1>5 DEF Verdict, Settled, StatusOfServer
  <2> QED BY <1>1, <1>5, <2>1, DieStep
<1>6. CASE /\ app.help_requested_ \/ kind[app.log_dir_] = "fine"
           /\ loggers' = ~app.help_requested_
           /\ GoOn("main") /\ UNCHANGED <<args, app, listening, late, logged>>
  <2>1. /\ pc' = "main" /\ loggers' = ~app.help_requested_
        /\ UNCHANGED <<line, kind, inUse, code, conn, losers, args, app, listening, late, logged>>
    BY <1>6 DEF GoOn, world, handlers
  <2>2. /\ WrongUsage' <=> WrongUsage
        /\ HelpOnly' <=> HelpOnly
        /\ Given("port", DefaultPort)' = Given("port", DefaultPort)
        /\ Given("log-dir", ".")' = Given("log-dir", ".")
        /\ LogKind' = LogKind
    BY <2>1, SameMeaning
  <2>3. Types'
    <3>1. loggers' \in BOOLEAN
      BY <2>1, Zenon
    <3> QED BY <1>1, <2>1, <3>1 DEF Inv, Types
  <2>4. Usage'
    BY <1>2, <2>1, <2>2 DEF Usage, Settled
  <2>5. Surroundings'
    <3>1. loggers' <=> ~HelpOnly
      BY <1>2, <2>1 DEF Settled
    <3>2. ~HelpOnly => LogKind = "fine"
      BY <1>2, <1>3, <1>6 DEF Settled
    <3>3. logged' = {} /\ ~listening'
      BY <1>1, <2>1 DEF Inv, Surroundings
    <3> QED BY <2>1, <2>2, <3>1, <3>2, <3>3 DEF Surroundings
  <2>6. Requesting'
    BY <1>1, <2>1 DEF Inv, Requesting
  <2> QED BY <2>1, <2>3, <2>4, <2>5, <2>6 DEF Inv
<1> QED BY <1>4, <1>5, <1>6 DEF Initialize

\* From main on, the application keeps what it knows.
LEMMA MainStep ==
  ASSUME Inv, \/ BindThrows \/ NothingToServe \/ Start \/ WaitForTermination
              \/ Terminate \/ Stop \/ Uninitialize
  PROVE  Inv'
<1>1. /\ pc \in {"main", "started", "waiting", "stopping", "returns", "throws"}
      /\ pc' \in {"started", "waiting", "stopping", "returns", "throws", "done", "failed"}
      /\ UNCHANGED <<line, kind, inUse, code, conn, losers, args, app>>
  BY DEF BindThrows, NothingToServe, Start, WaitForTermination, Terminate, Stop, Uninitialize,
         GoOn, world, handlers
<1>2. Types /\ Settled /\ Surroundings /\ Requesting
  BY <1>1 DEF Inv, Usage
<1>3. /\ WrongUsage' <=> WrongUsage
      /\ HelpOnly' <=> HelpOnly
      /\ Given("port", DefaultPort)' = Given("port", DefaultPort)
      /\ Given("log-dir", ".")' = Given("log-dir", ".")
      /\ LogKind' = LogKind
      /\ PortInUse' <=> PortInUse
  BY <1>1, SameMeaning
<1>4. Usage'
  BY <1>1, <1>2, <1>3 DEF Usage, Settled
<1>5. CannotBind <=> PortInUse
  BY <1>2 DEF Settled, CannotBind, PortInUse
<1>6. Open' = Open /\ Open \subseteq Connections
  BY <1>1 DEF Open
<1>7. CASE BindThrows \/ NothingToServe \/ Start
  <2>1. UNCHANGED <<loggers, late, logged>> /\ pc = "main"
    BY <1>7 DEF BindThrows, NothingToServe, Start
  <2>2. CASE BindThrows
    BY <1>1, <1>2, <1>3, <1>4, <1>5, <2>1, <2>2
       DEF BindThrows, GoOn, Inv, Types, Surroundings, Requesting
  <2>3. CASE NothingToServe
    <3>1. HelpOnly /\ Open = {}
      BY <1>2, <2>1, <2>3 DEF NothingToServe, Settled, Requesting, Open
    <3> QED BY <1>1, <1>2, <1>3, <1>4, <1>5, <1>6, <2>1, <2>3, <3>1
            DEF NothingToServe, GoOn, Inv, Types, Surroundings, Requesting
  <2>4. CASE Start
    <3>1. ~HelpOnly
      BY <1>2, <2>4 DEF Start, Settled
    <3> QED BY <1>1, <1>2, <1>3, <1>4, <1>5, <2>1, <2>4, <3>1
            DEF Start, GoOn, Inv, Types, Surroundings, Requesting
  <2> QED BY <1>7, <2>2, <2>3, <2>4
<1>8. CASE WaitForTermination
  <2>1. logged' = {"started"}
    BY <1>2, <1>8 DEF WaitForTermination, Say, Surroundings
  <2> QED BY <1>1, <1>2, <1>3, <1>4, <1>8, <2>1
          DEF WaitForTermination, GoOn, Inv, Types, Surroundings, Requesting
<1>9. CASE Terminate
  BY <1>1, <1>2, <1>3, <1>4, <1>9 DEF Terminate, GoOn, Inv, Types, Surroundings, Requesting
<1>10. CASE Stop
  <2>1. logged' = {"started", "stopping"} /\ ~HelpOnly /\ losers = {}
    BY <1>2, <1>10 DEF Stop, Say, Surroundings, Requesting
  <2>2. /\ pc = "stopping" /\ pc' = "returns" /\ listening' = FALSE /\ late' = Open
        /\ UNCHANGED loggers
    BY <1>10 DEF Stop, GoOn
  <2> QED BY <1>1, <1>2, <1>3, <1>4, <1>6, <2>1, <2>2
          DEF Inv, Types, Surroundings, Requesting
<1>11. CASE Uninitialize
  BY <1>1, <1>2, <1>3, <1>4, <1>6, <1>11
     DEF Uninitialize, GoOn, Inv, Types, Surroundings, Requesting
<1> QED BY <1>7, <1>8, <1>9, <1>10, <1>11

-----------------------------------------------------------------------------
(* The handlers.                                                             *)

\* A worker that moves on without harm to the rest of the process.
LEMMA MovesStep ==
  ASSUME Inv, pc # "exited", NEW c \in Connections,
         NEW s \in {"idle", "running", "logging", "muted", "gone"}, Moves(c, s),
         losers' \subseteq Connections, losers' \subseteq late,
         pc \in {"started", "waiting", "stopping"} => s # "muted" /\ losers' = {},
         c \in Open \/ listening
  PROVE  Inv'
<1>1. /\ conn' = [conn EXCEPT ![c] = s]
      /\ UNCHANGED <<line, kind, inUse, pc, args, app, code, listening, loggers, late, logged>>
  BY DEF Moves, world
<1>2. /\ WrongUsage' <=> WrongUsage
      /\ HelpOnly' <=> HelpOnly
      /\ \A n, d : Given(n, d)' = Given(n, d)
      /\ LogKind' = LogKind
      /\ PortInUse' <=> PortInUse
  BY <1>1, SameMeaning
<1>3. Types'
  BY <1>1 DEF Inv, Types
<1>4. Usage'
  <2>1. Settled' <=> Settled
    BY <1>1, <1>2 DEF Settled
  <2>2. Processing' <=> Processing
    BY <1>1 DEF Processing, Done, Terminal, Faulty, Holds
  <2> QED BY <1>1, <2>1, <2>2 DEF Inv, Usage
<1>5. Surroundings'
  BY <1>1, <1>2 DEF Inv, Surroundings
<1>6. pc \notin {"options", "main", "throws", "failed"}
  BY DEF Inv, Surroundings, Requesting, Open
<1>7. pc \in {"returns", "done"} => Open' \subseteq late
  <2> SUFFICES ASSUME pc \in {"returns", "done"} PROVE Open' \subseteq late
    OBVIOUS
  <2>1. c \in Open
    BY DEF Inv, Surroundings
  <2>2. Open' \subseteq Open
    BY <1>1, <2>1 DEF Open, Inv, Types
  <2> QED BY <2>2 DEF Inv, Requesting
<1>8. Requesting'
  BY <1>1, <1>6, <1>7 DEF Inv, Types, Requesting
<1> QED BY <1>1, <1>3, <1>4, <1>5, <1>8 DEF Inv

LEMMA WorkerStep == ASSUME Inv, NEW c \in Connections, Worker(c) PROVE Inv'
<1>1. /\ losers \subseteq Connections /\ losers \subseteq late
      /\ pc \in {"started", "waiting", "stopping"} => loggers /\ losers = {} /\ conn[c] # "muted"
  BY DEF Inv, Types, Requesting, Surroundings
<1>2. conn[c] \in {"idle", "running", "logging", "muted"} => c \in Open
  BY DEF Open
<1>3. CASE Accept(c)
  BY <1>1, <1>3, MovesStep DEF Accept
<1>4. CASE TakeUp(c)
  BY <1>1, <1>2, <1>4, MovesStep DEF TakeUp
<1>5. CASE GetLogger(c)
  BY <1>1, <1>2, <1>5, MovesStep DEF GetLogger
<1>6. CASE PutMessage(c) /\ Moves(c, "running")
                         /\ losers' = IF conn[c] = "logging" /\ loggers THEN losers ELSE losers \cup {c}
  <2>1. pc # "exited" /\ conn[c] \in {"logging", "muted"} /\ c \in Open
    BY <1>2, <1>6 DEF PutMessage
  <2>2. losers' = losers \/ c \in late
    BY <1>1, <1>6, <2>1 DEF Inv, Requesting, Open, Types
  <2>3. losers' \subseteq Connections /\ losers' \subseteq late
    BY <1>1, <1>6, <2>2
  <2> QED BY <1>1, <1>6, <2>1, <2>3, MovesStep
<1>7. CASE pc # "exited" /\ conn[c] = "logging" /\ ~loggers /\ Die("signal")
  <2>1. "stopping" \in logged => pc \in {"returns", "done"}
    BY <1>7 DEF Inv, Surroundings, Types
  <2>2. "stopping" \in logged => late # {}
    BY <1>2, <1>7, <2>1 DEF Inv, Requesting
  <2>3. Verdict("signal")
    BY <2>2 DEF Verdict
  <2> QED BY <1>7, <2>3, DieStep
<1>8. CASE End(c)
  BY <1>1, <1>2, <1>8, MovesStep DEF End
<1>9. CASE HangUp(c)
  BY <1>1, <1>2, <1>9, MovesStep DEF HangUp
<1> QED BY <1>3, <1>4, <1>5, <1>6, <1>7, <1>8, <1>9 DEF Worker, Handler, PutMessage

LEMMA Unchanged == ASSUME Inv, UNCHANGED vars PROVE Inv'
<1>1. UNCHANGED <<line, kind, inUse, pc, args, app, code, listening, loggers, conn, losers, late, logged>>
  BY DEF vars, world, handlers
<1>2. /\ WrongUsage' <=> WrongUsage
      /\ HelpOnly' <=> HelpOnly
      /\ \A n, d : Given(n, d)' = Given(n, d)
      /\ LogKind' = LogKind
      /\ PortInUse' <=> PortInUse
  BY <1>1, SameMeaning
<1>3. Types' /\ Surroundings' /\ Requesting'
  BY <1>1, <1>2 DEF Inv, Types, Surroundings, Requesting, Open
<1>4. Usage'
  <2>1. Settled' <=> Settled
    BY <1>1, <1>2 DEF Settled
  <2>2. Processing' <=> Processing
    BY <1>1 DEF Processing, Done, Terminal, Faulty, Holds
  <2> QED BY <1>1, <2>1, <2>2 DEF Inv, Usage
<1>5. (ExitAsAsked' <=> ExitAsAsked) /\ (LogComplete' <=> LogComplete)
  BY <1>1, <1>2, SameMeaning DEF ExitAsAsked, LogComplete
<1> QED BY <1>1, <1>3, <1>4, <1>5 DEF Inv

LEMMA StepInv == Inv /\ [Next]_vars => Inv'
BY OptionStep, BadOptionStep, InitializeStep, MainStep, ExitStep, KillStep, WorkerStep, Unchanged
   DEF Next, Main

LEMMA InvHolds == Spec => []Inv
BY InitInv, StepInv, PTL DEF Spec

-----------------------------------------------------------------------------
(* The theorems.                                                             *)

\* Every reachable state is well-typed; in particular the server's socket is
\* open only while there are loggers, between start and stop.
THEOREM TypeCorrect == Spec => []TypeOK
<1>1. Inv => TypeOK
  BY DEF Inv, Types, Surroundings, TypeOK
<1> QED BY <1>1, InvHolds, PTL

\* The exit status says what happened, for every command line and surrounding,
\* and a process that was told to stop only dies of a signal if connections were
\* open when its server had stopped.
THEOREM ExitAsAskedHolds == Spec => []ExitAsAsked
<1>1. Inv => ExitAsAsked
  <2> SUFFICES ASSUME Inv, pc # "exited" PROVE ExitAsAsked
    BY DEF Inv
  <2>1. code # "signal"
    BY DEF Inv, Types
  <2> QED BY <2>1, ServesAsAsked DEF ExitAsAsked
<1> QED BY <1>1, InvHolds, PTL

\* The console has the first and the last message of a process that serves and
\* stops as it should, and handlers lose messages only on connections that
\* were open when the server had stopped.
THEOREM LogCompleteHolds == Spec => []LogComplete
<1>1. Inv => LogComplete
  BY DEF Inv, Types, Surroundings, Requesting, LogComplete
<1> QED BY <1>1, InvHolds, PTL
-----------------------------------------------------------------------------
(* The main thread gets on.                                                  *)

\* How many steps the main thread has before it at most, at place p with n
\* options to process.
Ahead(p, n) ==
  CASE p = "options" -> 8 + n [] p = "main" -> 7 [] p = "started" -> 6
    [] p = "waiting" -> 5 [] p = "stopping" -> 4 [] p \in {"returns", "throws"} -> 3
    [] p \in {"done", "failed"} -> 2 [] OTHER -> 0

Left == Ahead(pc, Len(args))

\* The main thread can go on by itself.
GoesOn ==
  \/ pc = "options" /\ (args # <<>> \/ app.help_requested_ \/ NoLogDir(app.log_dir_)
                        \/ kind[app.log_dir_] \in {"unopenable", "fine"})
  \/ pc \in {"main", "started", "stopping", "returns", "throws", "done", "failed"}

\* It waits for nothing but the signal that ends the program, and for that only
\* while it serves; it never waits for a handler.
WaitsForSignalOnly == GoesOn \/ pc = "exited" \/ (pc = "waiting" /\ listening)

LEMMA AheadFalls ==
  ASSUME NEW n \in Nat
  PROVE  /\ \A m \in Nat : m < n => Ahead("options", m) < Ahead("options", n)
         /\ \A m \in Nat : Ahead("main", m) < Ahead("options", n)
BY DEF Ahead

LEMMA ArgsLength ==
  ASSUME Types
  PROVE  /\ Len(args) \in Nat
         /\ args # <<>> => /\ Len(<<>>) \in Nat /\ Len(<<>>) < Len(args)
                           /\ Len(Tail(args)) \in Nat /\ Len(Tail(args)) < Len(args)
<1>1. PICK l \in Nat, k \in Nat :
         /\ k \in 0 .. l /\ Len(args) = l - k
         /\ args # <<>> <=> k < l
         /\ k < l => Len(Tail(args)) = l - (k + 1)
         /\ Len(<<>>) = 0
  BY ArgsFacts
<1> QED BY <1>1

LEMMA DieCounts ==
  ASSUME Inv, NEW status, Die(status), pc # "exited"
  PROVE  Left' < Left
<1>1. Types
  BY DEF Inv
<1>2. Len(args) \in Nat
  BY <1>1, ArgsLength
<1>3. pc' = "exited"
  BY DEF Die
<1>4. Ahead(pc, Len(args)) \in Nat /\ Ahead(pc, Len(args)) # 0
  BY <1>1, <1>2 DEF Ahead, Types
<1>5. Ahead("exited", Len(args')) = 0
  BY DEF Ahead
<1> QED BY <1>3, <1>4, <1>5 DEF Left

\* Any step of the main thread, and the signals it is sent, leave it less to do.
LEMMA MainCounts ==
  ASSUME Inv, Main \/ Terminate \/ Kill
  PROVE  Left' < Left
<1>1. Types
  BY DEF Inv
<1>2. Len(args) \in Nat
  BY <1>1, ArgsLength
<1>3. CASE Option
  <2>1. /\ pc = "options" /\ pc' = "options" /\ args # <<>>
        /\ args' = <<>> \/ args' = Tail(args)
    BY <1>3 DEF Option
  <2>2. Len(args') \in Nat /\ Len(args') < Len(args)
    BY <1>1, <2>1, ArgsLength
  <2> QED BY <1>2, <2>1, <2>2, AheadFalls DEF Left
<1>4. ASSUME NEW from \in Nat, NEW to \in Nat, to < from,
             Ahead(pc, Len(args)) = from, Ahead(pc', Len(args')) = to
      PROVE  Left' < Left
  BY <1>4 DEF Left
<1>5. CASE BadOption \/ Exit \/ Kill
  BY <1>5, DieCounts DEF BadOption, Exit, Kill
<1>6. CASE Initialize
  <2>1. CASE pc' = "main" /\ pc = "options"
    <3>1. Len(args') = Len(args)
      BY <1>6, <2>1 DEF Initialize, Die, GoOn
    <3> QED BY <1>2, <2>1, <3>1, AheadFalls DEF Left
  <2> QED BY <1>6, <2>1, DieCounts DEF Initialize, GoOn
<1>7. CASE BindThrows \/ NothingToServe \/ Start
  <2>1. pc = "main" /\ pc' \in {"throws", "returns", "started"}
    BY <1>7 DEF BindThrows, NothingToServe, Start, GoOn
  <2>2. Ahead(pc, Len(args)) = 7 /\ Ahead(pc', Len(args')) \in {3, 6}
    BY <2>1 DEF Ahead
  <2> QED BY <1>4, <2>2
<1>8. CASE WaitForTermination
  <2>1. pc = "started" /\ pc' = "waiting"
    BY <1>8 DEF WaitForTermination, GoOn
  <2>2. Ahead(pc, Len(args)) = 6 /\ Ahead(pc', Len(args')) = 5
    BY <2>1 DEF Ahead
  <2> QED BY <1>4, <2>2
<1>9. CASE Terminate
  <2>1. pc = "waiting" /\ pc' = "stopping"
    BY <1>9 DEF Terminate, GoOn
  <2>2. Ahead(pc, Len(args)) = 5 /\ Ahead(pc', Len(args')) = 4
    BY <2>1 DEF Ahead
  <2> QED BY <1>4, <2>2
<1>10. CASE Stop
  <2>1. pc = "stopping" /\ pc' = "returns"
    BY <1>10 DEF Stop, GoOn
  <2>2. Ahead(pc, Len(args)) = 4 /\ Ahead(pc', Len(args')) = 3
    BY <2>1 DEF Ahead
  <2> QED BY <1>4, <2>2
<1>11. CASE Uninitialize
  <2>1. pc \in {"returns", "throws"} /\ pc' \in {"failed", "done"}
    BY <1>11 DEF Uninitialize, GoOn
  <2>2. Ahead(pc, Len(args)) = 3 /\ Ahead(pc', Len(args')) = 2
    BY <2>1 DEF Ahead
  <2> QED BY <1>4, <2>2
<1> QED BY <1>3, <1>5, <1>6, <1>7, <1>8, <1>9, <1>10, <1>11 DEF Main

\* Every step of the main thread, and every signal, leaves it less to do; a
\* worker's step leaves it as much, unless the process dies of it.
MainCountsDown ==
  [][Left' < Left \/ (UNCHANGED <<pc, args>> /\ \E c \in Connections : Worker(c))]_vars

\* The process ends after at most Left steps of its main thread, and the signal
\* if it gets as far as serving, whatever its command line is and whatever its
\* handlers are at (the sequence of main, stop and uninitialize, none of which
\* joins a handler): the safety half of ShutdownEnds.
THEOREM MainCountsDownHolds ==
  Spec => [](Left \in Nat /\ WaitsForSignalOnly) /\ MainCountsDown
<1>1. Inv => Left \in Nat /\ WaitsForSignalOnly
  <2> SUFFICES ASSUME Inv PROVE Left \in Nat /\ WaitsForSignalOnly
    OBVIOUS
  <2>1. Types /\ (pc = "waiting" => listening)
    BY DEF Inv, Surroundings
  <2>2. Left \in Nat
    BY <2>1, ArgsLength DEF Left, Ahead
  <2>3. app.log_dir_ \in Dirs /\ kind[app.log_dir_] \in Kinds
    BY <2>1 DEF Types
  <2>4. WaitsForSignalOnly
    BY <2>1, <2>3 DEF WaitsForSignalOnly, GoesOn, Types, Kinds, NoLogDir
  <2> QED BY <2>2, <2>4
<1>2. Inv /\ [Next]_vars =>
        [Left' < Left \/ (UNCHANGED <<pc, args>> /\ \E c \in Connections : Worker(c))]_vars
  <2> SUFFICES ASSUME Inv, NEW c \in Connections, Worker(c), ~(Left' < Left)
               PROVE  UNCHANGED <<pc, args>>
    BY MainCounts DEF Next
  <2>1. UNCHANGED <<pc, args>> \/ (Die("signal") /\ pc # "exited")
    BY DEF Worker, Handler, Accept, TakeUp, GetLogger, PutMessage, End, HangUp, Moves
  <2> QED BY <2>1, DieCounts
<1> QED BY <1>1, <1>2, InvHolds, PTL DEF Spec, MainCountsDown
=============================================================================
