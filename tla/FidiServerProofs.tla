-------------------------- MODULE FidiServerProofs --------------------------
(****************************************************************************)
(* Proofs about the handlers of one process, for every set of requests, all  *)
(* inputs and all delays, windows and stalls.                                *)
(****************************************************************************)
EXTENDS FidiServer, TLAPS

-----------------------------------------------------------------------------
(* Types.                                                                    *)

\* What the assumption about the inputs says of one request.
LEMMA InputFacts ==
  ASSUME TypeOK, NEW r \in Requests
  PROVE  /\ input[r] \in Inputs
         /\ input[r].flaw \in Flaws
         /\ input[r].response \in 1 .. 599
         /\ input[r].predelay \in Nat
         /\ input[r].postdelay \in Nat
         /\ input[r].window \in Nat
         /\ input[r].predelay + input[r].postdelay =< LatencyBound
<1>1. input[r] \in Inputs
  BY DEF TypeOK
<1>2. input[r] \in InputType
  BY <1>1, InputsAssumption
<1> QED BY <1>1, <1>2, BoundsAssumption DEF InputType

LEMMA InitType == Init => TypeOK
BY BoundsAssumption DEF Init, TypeOK, Floor, OK

\* Time passing.
LEMMA TickType == TypeOK /\ Tick => TypeOK'
<1> SUFFICES ASSUME TypeOK, Tick PROVE TypeOK'
  OBVIOUS
<1>1. window' \in Int /\ window' >= Floor
  <2>1. window \in Int /\ window >= Floor /\ Floor \in Int
    BY BoundsAssumption DEF TypeOK, Floor
  <2>2. window' = IF window > Floor THEN window - 1 ELSE Floor
    BY DEF Tick
  <2> QED BY <2>1, <2>2
<1>2. timer' \in [Requests -> Nat]
  <2>1. ASSUME NEW r \in Requests
        PROVE  (IF timer[r] > 0 THEN timer[r] - 1 ELSE 0) \in Nat
    <3>1. timer[r] \in Nat
      BY DEF TypeOK
    <3> QED BY <3>1
  <2>2. timer' = [r \in Requests |-> IF timer[r] > 0 THEN timer[r] - 1 ELSE 0]
    BY DEF Tick
  <2> QED BY <2>1, <2>2
<1>3. elapsed' \in [Requests -> 0 .. LatencyBound]
  <2>1. ASSUME NEW r \in Requests
        PROVE  (IF InHandler(r) /\ elapsed[r] < LatencyBound
                  THEN elapsed[r] + 1 ELSE elapsed[r]) \in 0 .. LatencyBound
    <3>1. elapsed[r] \in 0 .. LatencyBound
      BY DEF TypeOK
    <3> QED BY <3>1, BoundsAssumption
  <2>2. elapsed' = [r \in Requests |-> IF InHandler(r) /\ elapsed[r] < LatencyBound
                                         THEN elapsed[r] + 1 ELSE elapsed[r]]
    BY DEF Tick
  <2> QED BY <2>1, <2>2
<1>4. UNCHANGED <<healthy, pc, input, status, wire, report, before>>
  BY DEF Tick
<1> QED BY <1>1, <1>2, <1>3, <1>4 DEF TypeOK, Floor

LEMMA ExceptType ==
  ASSUME NEW D, NEW S, NEW f \in [D -> S], NEW d \in D, NEW e \in S
  PROVE  /\ [f EXCEPT ![d] = e] \in [D -> S]
         /\ [f EXCEPT ![d] = e][d] = e
OBVIOUS

\* Where a handler can be.
Places == {"idle", "sampled", "admitted", "body", "predelay",
           "calls", "health", "postdelay", "closed", "dropped", "aborted"}

LEMMA GotoType ==
  ASSUME TypeOK, NEW r \in Requests, NEW label \in Places, Goto(r, label)
  PROVE  /\ pc' \in [Requests -> Places]
         /\ pc' = [pc EXCEPT ![r] = label]
         /\ pc'[r] = label
<1>1. pc \in [Requests -> Places]
  BY DEF TypeOK, Places, Finished
<1> QED BY <1>1 DEF Goto

\* What a step of a handler may change, besides the place: it is enough that
\* each of the other variables keeps its type.
LEMMA TypeFrom ==
  ASSUME TypeOK, pc' \in [Requests -> Places],
         healthy' = healthy \/ healthy' \in BOOLEAN,
         window' = window \/ (window' \in Int /\ window' >= Floor),
         timer' = timer \/ timer' \in [Requests -> Nat],
         status' = status \/ status' \in [Requests -> 1 .. 599],
         wire' = wire \/ wire' \in [Requests -> 0 .. 599],
         report' = report \/ report' \in [Requests -> {"none", "OK", "Failure"}],
         before' = before \/ before' \in [Requests -> SUBSET Requests],
         UNCHANGED <<input, elapsed>>
  PROVE  TypeOK'
<1>0. /\ healthy \in BOOLEAN /\ window \in Int /\ window >= Floor
      /\ timer \in [Requests -> Nat] /\ status \in [Requests -> 1 .. 599]
      /\ wire \in [Requests -> 0 .. 599] /\ report \in [Requests -> {"none", "OK", "Failure"}]
      /\ before \in [Requests -> SUBSET Requests] /\ input \in [Requests -> Inputs]
      /\ elapsed \in [Requests -> 0 .. LatencyBound]
  BY Zenon DEF TypeOK
<1>1. pc' \in [Requests -> {"idle", "sampled", "admitted", "body", "predelay",
                            "calls", "health", "postdelay"} \cup Finished]
  BY DEF Places, Finished
<1>2. /\ healthy' \in BOOLEAN
      /\ window' \in Int /\ window' >= Floor
      /\ timer' \in [Requests -> Nat]
      /\ status' \in [Requests -> 1 .. 599]
  BY <1>0
<1>3. /\ wire' \in [Requests -> 0 .. 599]
      /\ report' \in [Requests -> {"none", "OK", "Failure"}]
      /\ before' \in [Requests -> SUBSET Requests]
      /\ input' \in [Requests -> Inputs]
      /\ elapsed' \in [Requests -> 0 .. LatencyBound]
  BY <1>0
<1>4. Floor' = Floor
  BY DEF Floor
<1> HIDE DEF Floor, Finished
<1>5. Finished' = Finished
  BY DEF Finished
<1> QED BY <1>1, <1>2, <1>3, <1>4, <1>5, Zenon DEF TypeOK

\* The steps that only move on.
Moving(r) == \/ Drop(r) \/ Admit(r) \/ SanityThrows(r) \/ BadWindow(r) \/ NoWindow(r)
             \/ CallsEnd(r) \/ CallsThrow(r) \/ Close(r)

LEMMA MovingOnly ==
  ASSUME NEW r \in Requests, Moving(r)
  PROVE  /\ \E label \in Places : Goto(r, label)
         /\ UNCHANGED <<healthy, window, input, timer, status, wire, report, elapsed, before>>
<1>1. /\ "dropped" \in Places /\ "admitted" \in Places /\ "aborted" \in Places
      /\ "calls" \in Places /\ "health" \in Places /\ "closed" \in Places
  BY DEF Places
<1> USE <1>1 DEF shared
<1>2. CASE Drop(r)
  BY <1>2 DEF Drop
<1>3. CASE Admit(r)
  BY <1>3 DEF Admit
<1>4. CASE SanityThrows(r)
  BY <1>4 DEF SanityThrows
<1>5. CASE BadWindow(r)
  BY <1>5 DEF BadWindow
<1>6. CASE NoWindow(r)
  BY <1>6 DEF NoWindow
<1>7. CASE CallsEnd(r)
  BY <1>7 DEF CallsEnd
<1>8. CASE CallsThrow(r)
  BY <1>8 DEF CallsThrow
<1>9. CASE Close(r)
  BY <1>9 DEF Close
<1> QED BY <1>2, <1>3, <1>4, <1>5, <1>6, <1>7, <1>8, <1>9 DEF Moving

\* A step of a handler.
LEMMA HandlerType ==
  ASSUME TypeOK, NEW r \in Requests, Arrive(r) \/ Handle(r)
  PROVE  TypeOK'
<1>0. /\ 200 \in 1 .. 599 /\ 400 \in 1 .. 599 /\ 1 .. 599 \subseteq 0 .. 599
      /\ OK \in 1 .. 599 /\ BadRequest \in 1 .. 599
  BY DEF OK, BadRequest
<1>p. /\ "sampled" \in Places /\ "body" \in Places /\ "closed" \in Places
      /\ "predelay" \in Places /\ "calls" \in Places /\ "postdelay" \in Places
  BY DEF Places
<1>t. /\ status \in [Requests -> 1 .. 599] /\ wire \in [Requests -> 0 .. 599]
      /\ timer \in [Requests -> Nat] /\ before \in [Requests -> SUBSET Requests]
      /\ report \in [Requests -> {"none", "OK", "Failure"}] /\ healthy \in BOOLEAN
  BY DEF TypeOK
<1>1. CASE Arrive(r)
  <2>1. Goto(r, "sampled")
    BY <1>1 DEF Arrive
  <2>2. before' = [before EXCEPT ![r] = {s \in Requests : pc[s] = "closed"}]
    BY <1>1 DEF Arrive
  <2>3. before' \in [Requests -> SUBSET Requests]
    BY <1>t, <2>2
  <2>4. UNCHANGED <<healthy, window, input, timer, status, wire, report, elapsed>>
    BY <1>1 DEF Arrive, shared
  <2> QED BY <1>p, <2>1, <2>3, <2>4, GotoType, TypeFrom
<1>2. CASE Moving(r)
  BY <1>2, MovingOnly, GotoType, TypeFrom
<1>3. CASE SendHeader(r)
  <2>1. Goto(r, "body") /\ wire' = [wire EXCEPT ![r] = status[r]]
    BY <1>3 DEF SendHeader
  <2>2. status[r] \in 0 .. 599
    <3>1. status[r] \in 1 .. 599
      BY <1>t
    <3> QED BY <3>1
  <2>3. wire' \in [Requests -> 0 .. 599]
    BY <1>t, <2>1, <2>2, ExceptType
  <2>4. UNCHANGED <<healthy, window, input, timer, status, report, elapsed, before>>
    BY <1>3 DEF SendHeader, shared
  <2> QED BY <1>p, <2>1, <2>3, <2>4, GotoType, TypeFrom
<1>4. CASE ReportHealth(r)
  <2>1. /\ Goto(r, "closed")
        /\ report' = [report EXCEPT ![r] = IF healthy THEN "OK" ELSE "Failure"]
        /\ status' = [status EXCEPT ![r] = IF healthy THEN OK ELSE BadRequest]
    BY <1>4 DEF ReportHealth
  <2>2. status' \in [Requests -> 1 .. 599]
    <3>1. (IF healthy THEN OK ELSE BadRequest) \in 1 .. 599
      BY <1>0
    <3>2. status \in [Requests -> 1 .. 599]
      BY <1>t
    <3> QED BY <2>1, <3>1, <3>2, ExceptType
  <2>3. report' \in [Requests -> {"none", "OK", "Failure"}]
    <3>1. (IF healthy THEN "OK" ELSE "Failure") \in {"none", "OK", "Failure"}
      OBVIOUS
    <3>2. report \in [Requests -> {"none", "OK", "Failure"}]
      BY <1>t
    <3> QED BY <2>1, <3>1, <3>2, ExceptType
  <2>4. UNCHANGED <<healthy, window, input, timer, wire, elapsed, before>>
    BY <1>4 DEF ReportHealth, shared
  <2> QED BY <1>p, <2>1, <2>2, <2>3, <2>4, GotoType, TypeFrom
<1>5. CASE Refuse(r)
  <2>1. Goto(r, "closed") /\ status' = [status EXCEPT ![r] = BadRequest]
    BY <1>5 DEF Refuse
  <2>2. status' \in [Requests -> 1 .. 599]
    <3>1. status \in [Requests -> 1 .. 599] /\ BadRequest \in 1 .. 599
      BY <1>0, <1>t
    <3>2. [status EXCEPT ![r] = BadRequest] \in [Requests -> 1 .. 599]
      BY <3>1, ExceptType
    <3> QED BY <2>1, <3>2
  <2>3. UNCHANGED <<healthy, window, input, timer, wire, report, elapsed, before>>
    BY <1>5 DEF Refuse, shared
  <2> QED BY <1>p, <2>1, <2>2, <2>3, GotoType, TypeFrom
<1>6. CASE BeginExecute(r)
  <2>1. /\ Goto(r, "predelay")
        /\ status' = [status EXCEPT ![r] = input[r].response]
        /\ timer' = [timer EXCEPT ![r] = input[r].predelay]
    BY <1>6 DEF BeginExecute
  <2>2. input[r].response \in 1 .. 599 /\ input[r].predelay \in Nat
    BY InputFacts
  <2>3. status' \in [Requests -> 1 .. 599] /\ timer' \in [Requests -> Nat]
    BY <1>t, <2>1, <2>2, ExceptType
  <2>4. UNCHANGED <<healthy, window, input, wire, report, elapsed, before>>
    BY <1>6 DEF BeginExecute, shared
  <2> QED BY <1>p, <2>1, <2>3, <2>4, GotoType, TypeFrom
<1>7. CASE OpenWindow(r)
  <2>1. Goto(r, "calls") /\ window' = input[r].window
    BY <1>7 DEF OpenWindow
  <2>2. input[r].window \in Nat
    BY InputFacts
  <2>3. window' \in Int /\ window' >= Floor
    BY <2>1, <2>2, BoundsAssumption DEF Floor
  <2>4. UNCHANGED <<healthy, input, timer, status, wire, report, elapsed, before>>
    BY <1>7 DEF OpenWindow
  <2> QED BY <1>p, <2>1, <2>3, <2>4, GotoType, TypeFrom
<1>8. CASE SetHealth(r)
  <2>1. /\ Goto(r, "postdelay") /\ healthy' = HealthAfter(r)
        /\ timer' = [timer EXCEPT ![r] = input[r].postdelay]
    BY <1>8 DEF SetHealth
  <2>2. healthy' \in BOOLEAN
    BY <1>t, <2>1 DEF HealthAfter
  <2>3. input[r].postdelay \in Nat
    BY InputFacts
  <2>4. timer' \in [Requests -> Nat]
    BY <1>t, <2>1, <2>3
  <2>5. UNCHANGED <<window, input, status, wire, report, elapsed, before>>
    BY <1>8 DEF SetHealth
  <2> QED BY <1>p, <2>1, <2>2, <2>4, <2>5, GotoType, TypeFrom
<1> QED BY <1>1, <1>2, <1>3, <1>4, <1>5, <1>6, <1>7, <1>8 DEF Handle, Moving

LEMMA TypeStep == TypeOK /\ [Next]_vars => TypeOK'
<1> SUFFICES ASSUME TypeOK, [Next]_vars PROVE TypeOK'
  OBVIOUS
<1>1. CASE UNCHANGED vars
  BY <1>1 DEF TypeOK, vars
<1> QED BY <1>1, TickType, HandlerType DEF Next

\* Every reachable state is well-typed: in particular timers and elapsed times
\* stay in their bounds, and the limit never falls below what comparisons see.
THEOREM TypeCorrect == Spec => []TypeOK
BY InitType, TypeStep, PTL DEF Spec

-----------------------------------------------------------------------------
(* Unresponsive windows.                                                     *)

\* Nobody gets past the first return of handleRequest while the node is
\* unresponsive: a clock read earlier only makes "now > limit" harder to meet.
THEOREM Silence == Spec => SilentWhileUnresponsive
<1> DEFINE Silent == \A r \in Requests :
             window >= 0 /\ pc[r] = "sampled" /\ pc'[r] # "sampled" => pc'[r] = "dropped"
<1>1. TypeOK /\ [Next]_vars => [Silent]_vars
  <2> SUFFICES ASSUME TypeOK, Next,
                      NEW r \in Requests, window >= 0, pc[r] = "sampled", pc'[r] # "sampled"
               PROVE  pc'[r] = "dropped"
    BY DEF vars
  <2> USE DEF TypeOK
  <2>1. ~Tick
    BY DEF Tick
  <2>2. PICK s \in Requests : Arrive(s) \/ Handle(s)
    BY <2>1 DEF Next
  <2>3. s = r
    BY <2>2 DEF Handle, Arrive, Goto, Drop, Admit, SendHeader, ReportHealth, Refuse,
                SanityThrows, BeginExecute, BadWindow, OpenWindow, NoWindow, CallsEnd,
                CallsThrow, SetHealth, Close
  <2>4. Drop(r) \/ Admit(r)
    BY <2>2, <2>3 DEF Handle, Arrive, SendHeader, ReportHealth, Parsing, Refuse,
                SanityThrows, BeginExecute, Awake, BadWindow, OpenWindow, NoWindow, CallsEnd,
                CallsThrow, SetHealth, Close
  <2>5. ~IsResponsive(r)
    BY BoundsAssumption DEF IsResponsive
  <2>6. Drop(r)
    BY <2>4, <2>5 DEF Admit
  <2> QED BY <2>6 DEF Drop, Goto
<1> QED BY <1>1, TypeCorrect, PTL DEF Spec, SilentWhileUnresponsive

\* A request that got past the parser and the checks.
Executing(r) == /\ input[r].path # "healthz"
                /\ input[r].flaw \in {"none", "unresponsive_for", "too_many_calls"}

\* Whoever finds, or may still find, the node unresponsive has an opener to
\* blame.  The sum is what IsResponsive looks at; it does not change with time
\* while a thread is held up.
WindowHasOpener ==
  /\ \A r \in Requests : pc[r] = "predelay" => Executing(r)
  /\ \A r \in Requests : /\ pc[r] = "idle" => elapsed[r] = 0
                         /\ pc[r] = "sampled" => elapsed[r] =< MaxStall
  /\ window >= 0 => \E s \in Requests : Opener(s)
  /\ \A r \in Requests : pc[r] = "sampled" /\ window + elapsed[r] >= 0 =>
       \E s \in Requests : Opener(s)
  /\ \A r \in Requests : pc[r] = "dropped" => \E s \in Requests : Opener(s)

\* Once an opener, always an opener.
LEMMA OpenerStays ==
  ASSUME TypeOK, Next, NEW s \in Requests, Opener(s)
  PROVE  Opener(s)'
<1> USE DEF Opener, TypeOK
<1>1. CASE Tick
  BY <1>1 DEF Tick
<1>2. ASSUME NEW r \in Requests, Arrive(r) \/ Handle(r)
      PROVE  Opener(s)'
  BY <1>2 DEF Handle, Arrive, Goto, Drop, Admit, SendHeader, ReportHealth, Parsing, Refuse,
              SanityThrows, BeginExecute, Awake, BadWindow, OpenWindow, NoWindow, CallsEnd,
              CallsThrow, SetHealth, Close
<1> QED BY <1>1, <1>2 DEF Next

LEMMA OpenerStep ==
  ASSUME TypeOK, WindowHasOpener, Next
  PROVE  WindowHasOpener'
<1> DEFINE Blame == \E s \in Requests : Opener(s)
<1>1. Blame => Blame'
  BY OpenerStays
<1>e. \A r \in Requests : pc'[r] = "predelay" => Executing(r)'
  <2> SUFFICES ASSUME NEW r \in Requests, pc'[r] = "predelay" PROVE Executing(r)'
    OBVIOUS
  <2>1. input' = input
    BY DEF Next, Tick, Handle, Arrive, Drop, Admit, SendHeader, ReportHealth, Refuse,
           SanityThrows, BeginExecute, BadWindow, OpenWindow, NoWindow, CallsEnd,
           CallsThrow, SetHealth, Close
  <2>2. pc[r] = "predelay" \/ BeginExecute(r)
    BY DEF TypeOK, Next, Tick, Handle, Arrive, Goto, Drop, Admit, SendHeader, ReportHealth,
           Refuse, SanityThrows, BeginExecute, BadWindow, OpenWindow, NoWindow, CallsEnd,
           CallsThrow, SetHealth, Close
  <2>3. input[r].flaw \in Flaws
    BY InputFacts
  <2>4. BeginExecute(r) => Executing(r)
    BY <2>3 DEF BeginExecute, Parsing, Executing, Flaws
  <2> QED BY <2>1, <2>2, <2>4 DEF WindowHasOpener, Executing
<1>2. CASE Tick
  <2> USE <1>1, <1>2, BoundsAssumption DEF Tick, TypeOK, InHandler, Finished, Floor
  <2>1. \A r \in Requests : /\ pc'[r] = "idle" => elapsed'[r] = 0
                            /\ pc'[r] = "sampled" => elapsed'[r] =< MaxStall
    BY DEF WindowHasOpener
  <2>2. window' >= 0 => Blame'
    BY DEF WindowHasOpener
  <2>3. ASSUME NEW r \in Requests, pc'[r] = "sampled", window' + elapsed'[r] >= 0
        PROVE  Blame'
    <3>1. elapsed[r] < MaxStall /\ elapsed'[r] = elapsed[r] + 1
      BY <2>3
    <3>2. window' = window - 1
      BY <3>1, <2>3
    <3> QED BY <3>1, <3>2, <2>3 DEF WindowHasOpener
  <2>4. \A r \in Requests : pc'[r] = "dropped" => Blame'
    BY DEF WindowHasOpener
  <2> QED BY <1>e, <2>1, <2>2, <2>3, <2>4 DEF WindowHasOpener
<1>3. ASSUME NEW r \in Requests, OpenWindow(r)
      PROVE  WindowHasOpener'
  <2>1. Opener(r)'
    BY <1>3 DEF OpenWindow, Awake, Goto, Opener, Executing, WindowHasOpener, TypeOK
  <2>2. \A s \in Requests : /\ pc'[s] = "idle" => elapsed'[s] = 0
                            /\ pc'[s] = "sampled" => elapsed'[s] =< MaxStall
    BY <1>3 DEF OpenWindow, Goto, TypeOK, WindowHasOpener
  <2> QED BY <1>e, <2>1, <2>2 DEF WindowHasOpener
<1>4. ASSUME NEW r \in Requests, Arrive(r) \/ Handle(r), ~OpenWindow(r)
      PROVE  WindowHasOpener'
  <2>1. window' = window /\ elapsed' = elapsed
    BY <1>4 DEF Handle, Arrive, shared, Drop, Admit, SendHeader, ReportHealth, Refuse,
                SanityThrows, BeginExecute, BadWindow, NoWindow, CallsEnd,
                CallsThrow, SetHealth, Close
  <2>2. ASSUME NEW s \in Requests
        PROVE  /\ pc'[s] = "idle" => pc[s] = "idle"
               /\ pc'[s] = "sampled" => pc[s] \in {"idle", "sampled"}
               /\ pc'[s] = "dropped" => pc[s] = "dropped" \/ Drop(s)
    BY <1>4 DEF TypeOK, Handle, Arrive, Goto, Drop, Admit, SendHeader, ReportHealth, Refuse,
                SanityThrows, BeginExecute, BadWindow, NoWindow, CallsEnd,
                CallsThrow, SetHealth, Close
  <2>3. \A s \in Requests : /\ pc'[s] = "idle" => elapsed'[s] = 0
                            /\ pc'[s] = "sampled" => elapsed'[s] =< MaxStall
    BY <2>1, <2>2, BoundsAssumption DEF WindowHasOpener
  <2>4. window' >= 0 => Blame'
    BY <1>1, <2>1 DEF WindowHasOpener
  <2>5. \A s \in Requests : pc'[s] = "sampled" /\ window' + elapsed'[s] >= 0 => Blame'
    BY <1>1, <2>1, <2>2 DEF WindowHasOpener, TypeOK
  <2>6. ASSUME NEW s \in Requests, pc'[s] = "dropped"
        PROVE  Blame'
    <3>1. CASE pc[s] = "dropped"
      BY <1>1, <3>1 DEF WindowHasOpener
    <3>2. CASE Drop(s)
      BY <1>1, <3>2 DEF WindowHasOpener, Drop, IsResponsive, TypeOK
    <3> QED BY <2>2, <2>6, <3>1, <3>2
  <2> QED BY <1>e, <2>3, <2>4, <2>5, <2>6 DEF WindowHasOpener
<1> QED BY <1>2, <1>3, <1>4 DEF Next

\* A node goes silent only because a request that it executed asked for it,
\* whatever the threads that are held up between clock and lock see.
THEOREM DroppedForAReasonHolds == Spec => []DroppedForAReason
<1>1. Init => WindowHasOpener
  BY BoundsAssumption DEF Init, WindowHasOpener
<1>2. TypeOK /\ WindowHasOpener /\ [Next]_vars => WindowHasOpener'
  <2>1. CASE UNCHANGED vars
    BY <2>1 DEF WindowHasOpener, Executing, Opener, vars
  <2> QED BY <2>1, OpenerStep
<1>3. WindowHasOpener => DroppedForAReason
  BY DEF WindowHasOpener, DroppedForAReason, Opener
<1> QED BY <1>1, <1>2, <1>3, TypeCorrect, PTL DEF Spec

-----------------------------------------------------------------------------
(* Delays and health.                                                        *)

\* What a handler has behind it at each place: the header is out, the checks
\* have passed, and the time its sleeps were to take is over or still on its
\* timer.
Progress(r) ==
  /\ pc[r] \in {"body", "predelay", "calls", "health", "postdelay"} => wire[r] # 0
  /\ pc[r] \in {"predelay", "calls", "health", "postdelay"} =>
       input[r].flaw \notin {"syntax", "insane", "timeout_usec"}
  /\ pc[r] \in {"calls", "health", "postdelay"} => input[r].flaw # "unresponsive_for"
  /\ pc[r] \in {"health", "postdelay"} => input[r].flaw # "too_many_calls"
  /\ pc[r] = "predelay" => elapsed[r] + timer[r] >= input[r].predelay
  /\ pc[r] \in {"calls", "health"} => elapsed[r] >= input[r].predelay
  /\ pc[r] = "postdelay" => elapsed[r] + timer[r] >= input[r].predelay + input[r].postdelay
  /\ pc[r] = "closed" /\ input[r].path # "healthz" /\ input[r].flaw = "none" =>
       elapsed[r] >= input[r].predelay + input[r].postdelay

\* A tick takes from the timer what it adds to the elapsed time; where the
\* count of that stops, it is beyond both delays.
LEMMA TickProgress ==
  ASSUME TypeOK, Tick, NEW r \in Requests, Progress(r)
  PROVE  Progress(r)'
<1>1. /\ pc' = pc /\ input' = input /\ wire' = wire
      /\ elapsed[r] \in 0 .. LatencyBound /\ timer[r] \in Nat
  BY DEF Tick, TypeOK
<1>t. /\ elapsed'[r] = IF InHandler(r) /\ elapsed[r] < LatencyBound
                         THEN elapsed[r] + 1 ELSE elapsed[r]
      /\ timer'[r] = IF timer[r] > 0 THEN timer[r] - 1 ELSE 0
  BY DEF Tick
<1>2. elapsed'[r] >= elapsed[r]
  BY <1>1, <1>t, BoundsAssumption
<1>3. ASSUME pc[r] \in {"predelay", "postdelay"}
      PROVE  elapsed'[r] + timer'[r] >= elapsed[r] + timer[r] \/ elapsed'[r] >= LatencyBound
  <2>1. InHandler(r)
    BY <1>3 DEF InHandler, Finished
  <2> QED BY <1>1, <1>t, <2>1, BoundsAssumption
<1>4. elapsed'[r] \in Nat /\ timer'[r] \in Nat
  <2>1. elapsed' \in [Requests -> 0 .. LatencyBound] /\ timer' \in [Requests -> Nat]
    BY TickType DEF TypeOK
  <2> QED BY <2>1, BoundsAssumption
<1> QED BY <1>1, <1>2, <1>3, <1>4, InputFacts, BoundsAssumption DEF Progress

\* What another handler does is no concern of this one's.
LEMMA OtherProgress ==
  ASSUME TypeOK, NEW r \in Requests, NEW s \in Requests, r # s,
         Arrive(s) \/ Handle(s), Progress(r)
  PROVE  Progress(r)'
<1>1. /\ pc'[r] = pc[r] /\ input' = input /\ wire'[r] = wire[r]
      /\ elapsed' = elapsed /\ timer'[r] = timer[r]
  BY DEF TypeOK, Handle, Arrive, Goto, Drop, Admit, SendHeader, ReportHealth, Refuse,
         SanityThrows, BeginExecute, BadWindow, OpenWindow, NoWindow, CallsEnd,
         CallsThrow, SetHealth, Close
<1> QED BY <1>1 DEF Progress

LEMMA HandlerProgress ==
  ASSUME TypeOK, NEW r \in Requests, Arrive(r) \/ Handle(r), Progress(r)
  PROVE  Progress(r)'
<1>0. elapsed[r] \in Nat /\ timer[r] \in Nat /\ input' = input /\ elapsed' = elapsed
  <2>1. elapsed[r] \in 0 .. LatencyBound /\ timer[r] \in Nat
    BY DEF TypeOK
  <2>2. input' = input /\ elapsed' = elapsed
    BY DEF Handle, Arrive, Drop, Admit, SendHeader, ReportHealth, Refuse,
           SanityThrows, BeginExecute, BadWindow, OpenWindow, NoWindow, CallsEnd,
           CallsThrow, SetHealth, Close
  <2> QED BY <2>1, <2>2, BoundsAssumption
<1>in. /\ input[r].predelay \in Nat /\ input[r].postdelay \in Nat
       /\ status[r] \in 1 .. 599
  <2>1. input[r].predelay \in Nat /\ input[r].postdelay \in Nat
    BY InputFacts
  <2>2. status \in [Requests -> 1 .. 599]
    BY DEF TypeOK
  <2> QED BY <2>1, <2>2
<1>p. /\ "sampled" \in Places /\ "dropped" \in Places /\ "admitted" \in Places
      /\ "body" \in Places /\ "closed" \in Places /\ "aborted" \in Places
      /\ "predelay" \in Places /\ "calls" \in Places /\ "health" \in Places
      /\ "postdelay" \in Places
  BY DEF Places
<1>1. CASE Arrive(r) \/ Drop(r) \/ Admit(r)
  <2>1. \/ Goto(r, "sampled") \/ Goto(r, "dropped") \/ Goto(r, "admitted")
    BY <1>1 DEF Arrive, Drop, Admit
  <2>2. pc'[r] \in {"sampled", "dropped", "admitted"}
    BY <1>p, <2>1, GotoType
  <2> QED BY <2>2 DEF Progress
<1>2. CASE SendHeader(r)
  <2>1. pc'[r] = "body"
    BY <1>2, <1>p, GotoType DEF SendHeader
  <2>2. wire'[r] = status[r]
    BY <1>2, ExceptType DEF SendHeader, TypeOK
  <2>3. \A i \in 1 .. 599 : i # 0
    OBVIOUS
  <2> QED BY <1>in, <2>1, <2>2, <2>3 DEF Progress
<1>3. CASE ReportHealth(r) \/ Refuse(r)
  <2>1. Goto(r, "closed") /\ (input[r].path = "healthz" \/ input[r].flaw # "none")
    BY <1>3 DEF ReportHealth, Refuse
  <2>2. pc'[r] = "closed"
    BY <1>p, <2>1, GotoType
  <2> QED BY <1>0, <2>1, <2>2 DEF Progress
<1>4. CASE SanityThrows(r) \/ BadWindow(r) \/ CallsThrow(r)
  <2>1. Goto(r, "aborted")
    BY <1>4 DEF SanityThrows, BadWindow, CallsThrow
  <2>2. pc'[r] = "aborted"
    BY <1>p, <2>1, GotoType
  <2> QED BY <2>2 DEF Progress
<1>5. CASE BeginExecute(r)
  <2>1. /\ pc[r] = "body" /\ input[r].flaw \notin {"syntax", "insane", "timeout_usec"}
        /\ Goto(r, "predelay") /\ wire' = wire
        /\ timer' = [timer EXCEPT ![r] = input[r].predelay]
    BY <1>5 DEF BeginExecute, Parsing
  <2>2. pc'[r] = "predelay"
    BY <1>p, <2>1, GotoType
  <2>3. timer'[r] = input[r].predelay
    BY <1>in, <2>1, ExceptType DEF TypeOK
  <2> QED BY <1>0, <1>in, <2>1, <2>2, <2>3 DEF Progress
<1>6. CASE OpenWindow(r) \/ NoWindow(r)
  <2>1. /\ pc[r] = "predelay" /\ timer[r] = 0 /\ input[r].flaw # "unresponsive_for"
        /\ Goto(r, "calls") /\ wire' = wire /\ timer' = timer
    BY <1>6 DEF OpenWindow, NoWindow, Awake
  <2>2. pc'[r] = "calls"
    BY <1>p, <2>1, GotoType
  <2> QED BY <1>0, <1>in, <2>1, <2>2 DEF Progress
<1>7. CASE CallsEnd(r)
  <2>1. /\ pc[r] = "calls" /\ input[r].flaw # "too_many_calls"
        /\ Goto(r, "health") /\ wire' = wire
    BY <1>7 DEF CallsEnd
  <2>2. pc'[r] = "health"
    BY <1>p, <2>1, GotoType
  <2> QED BY <1>0, <2>1, <2>2 DEF Progress
<1>8. CASE SetHealth(r)
  <2>1. /\ pc[r] = "health" /\ Goto(r, "postdelay") /\ wire' = wire
        /\ timer' = [timer EXCEPT ![r] = input[r].postdelay]
    BY <1>8 DEF SetHealth
  <2>2. pc'[r] = "postdelay"
    BY <1>p, <2>1, GotoType
  <2>3. timer'[r] = input[r].postdelay
    BY <1>in, <2>1, ExceptType DEF TypeOK
  <2> QED BY <1>0, <1>in, <2>1, <2>2, <2>3 DEF Progress
<1>9. CASE Close(r)
  <2>1. pc[r] = "postdelay" /\ timer[r] = 0 /\ Goto(r, "closed")
    BY <1>9 DEF Close
  <2>2. pc'[r] = "closed"
    BY <1>p, <2>1, GotoType
  <2> QED BY <1>0, <1>in, <2>1, <2>2 DEF Progress
<1> QED BY <1>1, <1>2, <1>3, <1>4, <1>5, <1>6, <1>7, <1>8, <1>9 DEF Handle

LEMMA ProgressHolds == Spec => [](\A r \in Requests : Progress(r))
<1>1. Init => \A r \in Requests : Progress(r)
  BY DEF Init, Progress
<1>2. TypeOK /\ (\A r \in Requests : Progress(r)) /\ [Next]_vars
        => (\A r \in Requests : Progress(r))'
  <2>1. ASSUME UNCHANGED vars, \A r \in Requests : Progress(r)
        PROVE  \A r \in Requests : Progress(r)'
    BY <2>1 DEF Progress, vars
  <2>2. ASSUME TypeOK, Next, NEW r \in Requests, Progress(r)
        PROVE  Progress(r)'
    BY <2>2, TickProgress, OtherProgress, HandlerProgress DEF Next
  <2> QED BY <2>1, <2>2
<1> QED BY <1>1, <1>2, TypeCorrect, PTL DEF Spec

\* No answer comes before both delays have passed, on any path through the
\* handler and however time and other requests interleave with it.
THEOREM LatencyHolds == Spec => []LatencyAtLeastDelays
<1>1. (\A r \in Requests : Progress(r)) => LatencyAtLeastDelays
  BY DEF Progress, LatencyAtLeastDelays
<1> QED BY <1>1, ProgressHolds, PTL

\* Only a request without a flaw changes the health of the node, to what it
\* asks for, after its first delay and its calls.
THEOREM HealthChangesLastHolds == Spec => HealthChangesLast
<1> DEFINE Last == healthy' # healthy =>
             \E r \in Requests :
               /\ pc[r] = "health" /\ pc'[r] = "postdelay"
               /\ input[r].healthy # "absent" /\ healthy' = (input[r].healthy = "true")
               /\ input[r].flaw = "none" /\ wire[r] # 0
               /\ elapsed[r] >= input[r].predelay
<1>1. TypeOK /\ (\A r \in Requests : Progress(r)) /\ [Next]_vars => [Last]_vars
  <2> SUFFICES ASSUME TypeOK, \A r \in Requests : Progress(r), Next, healthy' # healthy
               PROVE  \E r \in Requests :
                        /\ pc[r] = "health" /\ pc'[r] = "postdelay"
                        /\ input[r].healthy # "absent" /\ healthy' = (input[r].healthy = "true")
                        /\ input[r].flaw = "none" /\ wire[r] # 0
                        /\ elapsed[r] >= input[r].predelay
    BY DEF vars
  <2>1. PICK r \in Requests : SetHealth(r)
    BY DEF Next, Tick, Handle, Arrive, shared, Drop, Admit, SendHeader, ReportHealth, Refuse,
           SanityThrows, BeginExecute, BadWindow, OpenWindow, NoWindow, CallsEnd,
           CallsThrow, Close
  <2>2. pc[r] = "health" /\ pc'[r] = "postdelay"
    BY <2>1 DEF SetHealth, Goto, TypeOK
  <2>3. Progress(r) /\ input[r].flaw \in Flaws
    BY InputFacts
  <2>4. input[r].healthy # "absent" /\ healthy' = (input[r].healthy = "true")
    BY <2>1 DEF SetHealth, HealthAfter
  <2> QED BY <2>2, <2>3, <2>4 DEF Progress, Flaws
<1> QED BY <1>1, TypeCorrect, ProgressHolds, PTL DEF Spec, HealthChangesLast

-----------------------------------------------------------------------------
(* Health checks.                                                            *)

\* Which answers a request may have come after, and who executes.
Order ==
  \A r \in Requests :
    /\ \A s \in before[r] : s \in Requests /\ pc[s] = "closed"
    /\ report[r] # "none" => pc[r] = "closed"
    /\ pc[r] \in {"predelay", "calls", "health", "postdelay"} => input[r].path # "healthz"

\* The health flag is what the last request gave that set it: one that no
\* other writer has come after.
FlagIsLastGiven ==
  \/ Writers = {} /\ healthy
  \/ \E w \in Writers : /\ healthy <=> input[w].healthy = "true"
                        /\ \A a \in Writers : w \notin before[a]

\* How a step may change who was answered, who came when and who has set the
\* health.
LEMMA OrderFacts ==
  ASSUME TypeOK, Order, \A r \in Requests : Progress(r), Next
  PROVE  /\ input' = input
         /\ \A r \in Requests : pc[r] = "closed" => pc'[r] = "closed"
         /\ \A r \in Requests : pc[r] # "idle" => before'[r] = before[r]
         /\ \A w \in Writers : w \in Writers'
         /\ \A w \in Writers' : w \in Writers \/ SetHealth(w)
<1> USE DEF TypeOK, Writers
<1>1. CASE Tick
  BY <1>1 DEF Tick
<1>2. ASSUME NEW r \in Requests, Arrive(r) \/ Handle(r)
      PROVE  /\ input' = input
             /\ \A s \in Requests : s # r => pc'[s] = pc[s] /\ before'[s] = before[s]
             /\ pc[r] # "idle" => before'[r] = before[r]
             /\ pc[r] # "closed"
             /\ pc[r] = "postdelay" => pc'[r] = "closed"
             /\ pc'[r] = "postdelay" => SetHealth(r)
             /\ pc'[r] = "closed" => \/ pc[r] = "postdelay"
                                     \/ input[r].path = "healthz" \/ input[r].flaw # "none"
  BY <1>2 DEF Handle, Arrive, Goto, Drop, Admit, SendHeader, ReportHealth, Parsing, Refuse,
              SanityThrows, BeginExecute, Awake, BadWindow, OpenWindow, NoWindow, CallsEnd,
              CallsThrow, SetHealth, Close
<1> QED BY <1>1, <1>2 DEF Next

LEMMA OrderStep ==
  ASSUME TypeOK, Order, \A r \in Requests : Progress(r), Next
  PROVE  Order'
<1>1. \A r \in Requests : \A s \in before'[r] : s \in Requests /\ pc'[s] = "closed"
  <2> SUFFICES ASSUME NEW r \in Requests, NEW s \in before'[r]
               PROVE  s \in Requests /\ pc'[s] = "closed"
    OBVIOUS
  <2>1. CASE before'[r] = before[r]
    BY <2>1, OrderFacts DEF Order
  <2>2. CASE before'[r] # before[r]
    <3>1. Arrive(r)
      BY <2>2 DEF TypeOK, Next, Tick, Handle, Arrive, Drop, Admit, SendHeader, ReportHealth,
                  Refuse, SanityThrows, BeginExecute, BadWindow, OpenWindow, NoWindow,
                  CallsEnd, CallsThrow, SetHealth, Close
    <3>2. s \in Requests /\ pc[s] = "closed"
      BY <3>1 DEF Arrive, TypeOK
    <3> QED BY <3>2, OrderFacts
  <2> QED BY <2>1, <2>2
<1>2. ASSUME NEW r \in Requests
      PROVE  /\ report'[r] # "none" => pc'[r] = "closed"
             /\ pc'[r] \in {"predelay", "calls", "health", "postdelay"} =>
                  input'[r].path # "healthz"
  <2>1. CASE Tick
    BY <2>1 DEF Tick, Order
  <2>2. ASSUME NEW s \in Requests, Arrive(s) \/ Handle(s)
        PROVE  /\ report'[r] # "none" => report[r] # "none" \/ pc'[r] = "closed"
               /\ pc'[r] \in {"predelay", "calls", "health", "postdelay"} =>
                    \/ pc[r] \in {"predelay", "calls", "health", "postdelay"}
                    \/ input[r].path # "healthz"
    BY <2>2 DEF TypeOK, Handle, Arrive, Goto, Drop, Admit, SendHeader, ReportHealth, Parsing,
                Refuse, SanityThrows, BeginExecute, Awake, BadWindow, OpenWindow, NoWindow,
                CallsEnd, CallsThrow, SetHealth, Close
  <2> QED BY <2>1, <2>2, OrderFacts DEF Order, Next
<1> QED BY <1>1, <1>2 DEF Order

LEMMA FlagStep ==
  ASSUME TypeOK, Order, \A r \in Requests : Progress(r), FlagIsLastGiven, Next
  PROVE  FlagIsLastGiven'
<1>1. ASSUME NEW r \in Requests, SetHealth(r), input[r].healthy # "absent"
      PROVE  FlagIsLastGiven'
  <2>1. /\ pc[r] = "health" /\ pc'[r] = "postdelay" /\ input' = input /\ before' = before
    BY <1>1 DEF SetHealth, Goto, TypeOK
  <2>2. r \in Writers'
    BY <1>1, <2>1, InputFacts DEF Writers, Progress, Order, Flaws
  <2>3. healthy' <=> input'[r].healthy = "true"
    BY <1>1, <2>1 DEF SetHealth, HealthAfter
  <2>4. \A a \in Requests : r \notin before'[a]
    BY <2>1 DEF Order
  <2> QED BY <2>2, <2>3, <2>4 DEF FlagIsLastGiven, Writers
<1>2. ASSUME \A r \in Requests : SetHealth(r) => input[r].healthy = "absent"
      PROVE  FlagIsLastGiven'
  <2>1. healthy' = healthy
    BY <1>2 DEF Next, Tick, Handle, Arrive, shared, Drop, Admit, SendHeader, ReportHealth,
                Refuse, SanityThrows, BeginExecute, BadWindow, OpenWindow, NoWindow,
                CallsEnd, CallsThrow, SetHealth, HealthAfter, Close
  <2>2. \A w \in Writers' : w \in Writers
    BY <1>2, OrderFacts DEF Writers
  <2>3. \A a \in Writers : a \in Requests /\ before'[a] = before[a]
    BY OrderFacts DEF Writers
  <2> QED BY <2>1, <2>2, <2>3, OrderFacts DEF FlagIsLastGiven
<1> QED BY <1>1, <1>2

\* A report that was right stays right: the writers that were answered before
\* the check are known, and writers that come later are in nobody's way.
LEMMA ReportsStep ==
  ASSUME TypeOK, Order, \A r \in Requests : Progress(r), FlagIsLastGiven, HealthInOrder, Next
  PROVE  HealthInOrder'
<1> DEFINE Last(b) == {w \in Writers : ~\E a \in Writers \cap before[b] : w \in before[a]}
<1> SUFFICES ASSUME NEW b \in Requests, report'[b] # "none"
             PROVE  \/ \E w \in Last(b)' : report'[b] = Given(w)'
                    \/ report'[b] = "OK" /\ Writers' \cap before'[b] = {}
  BY DEF HealthInOrder
<1>1. \A w \in Requests : Given(w)' = Given(w)
  BY OrderFacts DEF Given
<1>2. pc[b] # "idle"
  BY DEF TypeOK, Order, Next, Tick, Handle, Arrive, Drop, Admit, SendHeader, ReportHealth,
         Refuse, SanityThrows, BeginExecute, BadWindow, OpenWindow, NoWindow,
         CallsEnd, CallsThrow, SetHealth, Close
<1>3. before'[b] = before[b]
  BY <1>2, OrderFacts
<1>4. \A a \in Writers' \cap before'[b] : a \in Writers \cap before[b] /\ before'[a] = before[a]
  BY <1>3, OrderFacts DEF Order, SetHealth, Writers
<1>5. \A w \in Last(b) : w \in Last(b)'
  BY <1>4, OrderFacts
<1>6. CASE report'[b] = report[b]
  BY <1>1, <1>4, <1>5, <1>6 DEF HealthInOrder, Writers
<1>7. CASE report'[b] # report[b]
  <2>1. report'[b] = IF healthy THEN "OK" ELSE "Failure"
    BY <1>7 DEF TypeOK, Next, Tick, Handle, Arrive, Drop, Admit, SendHeader, ReportHealth,
                Refuse, SanityThrows, BeginExecute, BadWindow, OpenWindow, NoWindow,
                CallsEnd, CallsThrow, SetHealth, Close
  <2>2. CASE Writers = {} /\ healthy
    BY <1>4, <2>1, <2>2
  <2>3. ASSUME NEW w \in Writers, healthy <=> input[w].healthy = "true",
               \A a \in Writers : w \notin before[a]
        PROVE  w \in Last(b)' /\ report'[b] = Given(w)'
    BY <1>1, <1>5, <2>1, <2>3 DEF Given, Writers
  <2> QED BY <2>2, <2>3 DEF FlagIsLastGiven
<1> QED BY <1>6, <1>7

\* Health checks are consistent with real time, for any number of concurrent
\* writers and checks.
THEOREM HealthInOrderHolds == Spec => []HealthInOrder
<1> DEFINE Inv == Order /\ FlagIsLastGiven /\ HealthInOrder
<1>1. Init => Inv
  BY DEF Init, Order, FlagIsLastGiven, HealthInOrder, Writers
<1>2. TypeOK /\ (\A r \in Requests : Progress(r)) /\ Inv /\ [Next]_vars => Inv'
  <2>1. ASSUME UNCHANGED vars, Inv
        PROVE  Inv'
    BY <2>1 DEF Order, FlagIsLastGiven, HealthInOrder, Writers, Given, vars
  <2>2. ASSUME TypeOK, \A r \in Requests : Progress(r), Inv, Next
        PROVE  Inv'
    BY <2>2, OrderStep, FlagStep, ReportsStep
  <2> QED BY <2>1, <2>2
<1> QED BY <1>1, <1>2, TypeCorrect, ProgressHolds, PTL DEF Spec
-----------------------------------------------------------------------------
(* Handlers get on.                                                          *)

\* A handler can take a step by itself.
Ready(r) ==
  \/ pc[r] \in {"sampled", "admitted", "calls", "health"}
  \/ pc[r] = "body" /\ (input[r].path = "healthz" \/ input[r].flaw \in Flaws)
  \/ pc[r] \in {"predelay", "postdelay"} /\ timer[r] = 0

\* What lies before a handler as numbers: it can be compared when they can.
LEMMA LeftFacts ==
  ASSUME TypeOK, NEW r \in Requests
  PROVE  /\ Left(r) \in Nat
         /\ input[r].predelay \in Nat /\ input[r].postdelay \in Nat /\ timer[r] \in Nat
<1>1. input[r].predelay \in Nat /\ input[r].postdelay \in Nat
  BY InputFacts
<1>2. timer[r] \in Nat
  BY DEF TypeOK
<1>3. Stage(pc[r]) \in Nat
  BY DEF Stage
<1>4. Due(pc[r], input[r], timer[r]) \in Nat
  BY <1>1, <1>2 DEF Due
<1> QED BY <1>1, <1>2, <1>3, <1>4 DEF Left

\* How a step from one place to another changes what is left.
LEMMA StageFalls ==
  ASSUME NEW in, in.predelay \in Nat, in.postdelay \in Nat, NEW t \in Nat, NEW u
  PROVE  /\ Stage("idle") + Due("idle", in, t) > Stage("sampled") + Due("sampled", in, u)
         /\ Stage("sampled") + Due("sampled", in, t) > Stage("admitted") + Due("admitted", in, u)
         /\ Stage("admitted") + Due("admitted", in, t) > Stage("body") + Due("body", in, u)
         /\ u = in.predelay =>
              Stage("body") + Due("body", in, t) > Stage("predelay") + Due("predelay", in, u)
         /\ Stage("predelay") + Due("predelay", in, t) > Stage("calls") + Due("calls", in, u)
         /\ Stage("calls") + Due("calls", in, t) > Stage("health") + Due("health", in, u)
         /\ u = in.postdelay =>
              Stage("health") + Due("health", in, t) > Stage("postdelay") + Due("postdelay", in, u)
         /\ \A p \in {"sampled", "body", "predelay", "calls", "postdelay"},
               q \in {"closed", "dropped", "aborted"} :
              Stage(p) + Due(p, in, t) > Stage(q) + Due(q, in, u)
<1>1. /\ Stage("idle") = 8 /\ Stage("sampled") = 7 /\ Stage("admitted") = 6 /\ Stage("body") = 5
      /\ Stage("predelay") = 4 /\ Stage("calls") = 3 /\ Stage("health") = 2
      /\ Stage("postdelay") = 1
      /\ \A q \in {"closed", "dropped", "aborted"} : Stage(q) = 0
  BY DEF Stage
<1>2. \A v : /\ Due("idle", in, v) = in.predelay + in.postdelay
             /\ Due("sampled", in, v) = in.predelay + in.postdelay
             /\ Due("admitted", in, v) = in.predelay + in.postdelay
             /\ Due("body", in, v) = in.predelay + in.postdelay
             /\ Due("predelay", in, v) = v + in.postdelay
             /\ Due("calls", in, v) = in.postdelay /\ Due("health", in, v) = in.postdelay
             /\ Due("postdelay", in, v) = v
             /\ \A q \in {"closed", "dropped", "aborted"} : Due(q, in, v) = 0
  BY DEF Due
<1> QED BY <1>1, <1>2

\* A step of a handler leaves it less to do.
LEMMA HandlerCounts ==
  ASSUME TypeOK, NEW r \in Requests, Arrive(r) \/ Handle(r)
  PROVE  Left(r)' \in Nat /\ Left(r)' < Left(r)
<1>1. /\ input[r].predelay \in Nat /\ input[r].postdelay \in Nat
      /\ timer[r] \in Nat /\ timer'[r] \in Nat /\ Left(r) \in Nat
  <2>1. timer' \in [Requests -> Nat]
    BY HandlerType, Zenon DEF TypeOK
  <2> QED BY <2>1, LeftFacts
<1>2. input' = input
  BY DEF Handle, Arrive, Drop, Admit, SendHeader, ReportHealth, Refuse, SanityThrows,
         BeginExecute, BadWindow, OpenWindow, NoWindow, CallsEnd, CallsThrow, SetHealth, Close
<1>3. ASSUME NEW label \in Places, Goto(r, label)
      PROVE  /\ Left(r)' = Stage(label) + Due(label, input[r], timer'[r])
             /\ Left(r)' \in Nat
  <2>1. Left(r)' = Stage(label) + Due(label, input[r], timer'[r])
    BY <1>2, <1>3, GotoType DEF Left
  <2>2. Stage(label) \in Nat /\ Due(label, input[r], timer'[r]) \in Nat
    BY <1>1 DEF Stage, Due
  <2> QED BY <2>1, <2>2
<1>4. /\ "sampled" \in Places /\ "dropped" \in Places /\ "admitted" \in Places
      /\ "body" \in Places /\ "closed" \in Places /\ "aborted" \in Places
      /\ "predelay" \in Places /\ "calls" \in Places /\ "health" \in Places
      /\ "postdelay" \in Places
  BY DEF Places
<1>5. CASE Arrive(r)
  <2>1. pc[r] = "idle" /\ Goto(r, "sampled")
    BY <1>5 DEF Arrive
  <2> QED BY <1>1, <1>3, <1>4, <2>1, StageFalls DEF Left
<1>6. CASE Admit(r)
  <2>1. pc[r] = "sampled" /\ Goto(r, "admitted")
    BY <1>6 DEF Admit
  <2> QED BY <1>1, <1>3, <1>4, <2>1, StageFalls DEF Left
<1>7. CASE SendHeader(r)
  <2>1. pc[r] = "admitted" /\ Goto(r, "body")
    BY <1>7 DEF SendHeader
  <2> QED BY <1>1, <1>3, <1>4, <2>1, StageFalls DEF Left
<1>8. CASE BeginExecute(r)
  <2>1. /\ pc[r] = "body" /\ Goto(r, "predelay")
        /\ timer' = [timer EXCEPT ![r] = input[r].predelay]
    BY <1>8 DEF BeginExecute, Parsing
  <2>2. timer'[r] = input[r].predelay
    BY <1>1, <2>1, ExceptType DEF TypeOK
  <2> QED BY <1>1, <1>3, <1>4, <2>1, <2>2, StageFalls DEF Left
<1>9. CASE OpenWindow(r) \/ NoWindow(r)
  <2>1. pc[r] = "predelay" /\ Goto(r, "calls")
    BY <1>9 DEF OpenWindow, NoWindow, Awake
  <2> QED BY <1>1, <1>3, <1>4, <2>1, StageFalls DEF Left
<1>10. CASE CallsEnd(r)
  <2>1. pc[r] = "calls" /\ Goto(r, "health")
    BY <1>10 DEF CallsEnd
  <2> QED BY <1>1, <1>3, <1>4, <2>1, StageFalls DEF Left
<1>11. CASE SetHealth(r)
  <2>1. /\ pc[r] = "health" /\ Goto(r, "postdelay")
        /\ timer' = [timer EXCEPT ![r] = input[r].postdelay]
    BY <1>11 DEF SetHealth
  <2>2. timer'[r] = input[r].postdelay
    BY <1>1, <2>1, ExceptType DEF TypeOK
  <2> QED BY <1>1, <1>3, <1>4, <2>1, <2>2, StageFalls DEF Left
<1>12. CASE \/ Drop(r) \/ ReportHealth(r) \/ Refuse(r) \/ SanityThrows(r) \/ BadWindow(r)
            \/ CallsThrow(r) \/ Close(r)
  <2>1. /\ pc[r] \in {"sampled", "body", "predelay", "calls", "postdelay"}
        /\ \/ Goto(r, "closed") \/ Goto(r, "dropped") \/ Goto(r, "aborted")
    BY <1>12 DEF Drop, ReportHealth, Refuse, SanityThrows, BadWindow, CallsThrow, Close,
                 Parsing, Awake
  <2>2. PICK q \in {"closed", "dropped", "aborted"} : Goto(r, q)
    BY <2>1
  <2>3. Left(r)' = Stage(q) + Due(q, input[r], timer'[r]) /\ Left(r)' \in Nat
    BY <1>3, <1>4, <2>2
  <2>4. Stage(pc[r]) + Due(pc[r], input[r], timer[r]) > Stage(q) + Due(q, input[r], timer'[r])
    BY <1>1, <2>1, StageFalls
  <2> QED BY <1>1, <2>3, <2>4 DEF Left
<1> QED BY <1>5, <1>6, <1>7, <1>8, <1>9, <1>10, <1>11, <1>12 DEF Handle

\* A step of another handler is nothing to it.
LEMMA OtherCounts ==
  ASSUME TypeOK, NEW r \in Requests, NEW s \in Requests, r # s, Arrive(s) \/ Handle(s)
  PROVE  Left(r)' = Left(r)
<1>1. pc'[r] = pc[r] /\ input' = input /\ timer'[r] = timer[r]
  BY DEF TypeOK, Handle, Arrive, Goto, Drop, Admit, SendHeader, ReportHealth, Refuse,
         SanityThrows, BeginExecute, BadWindow, OpenWindow, NoWindow, CallsEnd,
         CallsThrow, SetHealth, Close
<1> QED BY <1>1 DEF Left

\* A tick is one less to sleep for whoever sleeps, and nothing to the others.
LEMMA TickCounts ==
  ASSUME TypeOK, Tick, NEW r \in Requests
  PROVE  Left(r)' = IF Asleep(r) THEN Left(r) - 1 ELSE Left(r)
<1>1. /\ input[r].predelay \in Nat /\ input[r].postdelay \in Nat /\ timer[r] \in Nat
  BY LeftFacts
<1>2. pc' = pc /\ input' = input /\ timer'[r] = IF timer[r] > 0 THEN timer[r] - 1 ELSE 0
  BY DEF Tick
<1> DEFINE p == pc[r]
           in == input[r]
           t == timer[r]
<1>3. Left(r)' = Stage(p) + Due(p, in, timer'[r])
  BY <1>2 DEF Left
<1>4. ASSUME NEW u \in Nat, u = IF t > 0 THEN t - 1 ELSE 0
      PROVE  Due(p, in, u) = IF p \in {"predelay", "postdelay"} /\ t > 0
                             THEN Due(p, in, t) - 1 ELSE Due(p, in, t)
  <2>1. CASE p \in {"predelay", "postdelay"}
    BY <1>1, <1>4, <2>1 DEF Due
  <2>2. CASE p \notin {"predelay", "postdelay"}
    BY <2>2 DEF Due
  <2> QED BY <2>1, <2>2
<1>5. timer'[r] \in Nat
  BY <1>1, <1>2
<1>6. Stage(p) \in Nat /\ Due(p, in, t) \in Nat
  BY <1>1 DEF Stage, Due
<1> HIDE DEF p, in, t
<1>7. Due(p, in, timer'[r]) = IF p \in {"predelay", "postdelay"} /\ t > 0
                              THEN Due(p, in, t) - 1 ELSE Due(p, in, t)
  BY <1>2, <1>4, <1>5 DEF t
<1>8. Left(r) = Stage(p) + Due(p, in, t)
  BY DEF Left, p, in, t
<1>9. Asleep(r) <=> p \in {"predelay", "postdelay"} /\ t > 0
  BY DEF Asleep, p, t
<1> QED BY <1>3, <1>6, <1>7, <1>8, <1>9

\* A request takes at most eight steps and as many ticks as its two delays have,
\* whatever other requests do to the health and the limit meanwhile
\* (handleRequest and Execute, with the call loop as one step), and until then
\* its handler sleeps or has a step to take.
THEOREM HandlersCountDownHolds ==
  Spec => [](\A r \in Requests :
               Left(r) \in Nat /\ (InHandler(r) => Ready(r) \/ Asleep(r))) /\ HandlersCountDown
<1> DEFINE Able == \A r \in Requests :
                     Left(r) \in Nat /\ (InHandler(r) => Ready(r) \/ Asleep(r))
           Falls == \A r \in Requests :
                      /\ Arrive(r) \/ Handle(r) \/ (Tick /\ Asleep(r)) => Left(r)' < Left(r)
                      /\ Left(r)' =< Left(r)
<1>1. TypeOK => Able
  <2> SUFFICES ASSUME TypeOK, NEW r \in Requests
               PROVE  Left(r) \in Nat /\ (InHandler(r) => Ready(r) \/ Asleep(r))
    OBVIOUS
  <2>1. Left(r) \in Nat /\ timer[r] \in Nat /\ input[r].flaw \in Flaws
    BY LeftFacts, InputFacts
  <2>2. pc[r] \in Places
    BY DEF TypeOK, Places, Finished
  <2> QED BY <2>1, <2>2 DEF InHandler, Ready, Asleep, Places, Finished
<1>2. TypeOK /\ [Next]_vars => [Falls]_vars
  <2> SUFFICES ASSUME TypeOK, Next, NEW r \in Requests
               PROVE  /\ Arrive(r) \/ Handle(r) \/ (Tick /\ Asleep(r)) => Left(r)' < Left(r)
                      /\ Left(r)' =< Left(r)
    OBVIOUS
  <2>1. Left(r) \in Nat
    BY LeftFacts
  <2>2. Arrive(r) \/ Handle(r) => Left(r)' < Left(r) /\ Left(r)' =< Left(r)
    BY <2>1, HandlerCounts
  <2>3. Tick => (Asleep(r) => Left(r)' < Left(r)) /\ Left(r)' =< Left(r)
    BY <2>1, TickCounts
  <2>4. ASSUME NEW s \in Requests, Arrive(s) \/ Handle(s), r # s
        PROVE  Left(r)' =< Left(r)
    BY <2>1, <2>4, OtherCounts
  <2> QED BY <2>2, <2>3, <2>4 DEF Next
<1> QED BY <1>1, <1>2, TypeCorrect, PTL DEF Spec, HandlersCountDown
=============================================================================
