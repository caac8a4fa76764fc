----------------------------- MODULE FidiServer -----------------------------
(****************************************************************************)
(* One fidi_app process: the HTTP server runs FidiRequestHandler's           *)
(* handleRequest for several requests at a time, each on a thread and with a *)
(* handler and an AppDriver of its own.  The handlers share the static       *)
(* members of AppDriver, healthy_ and unresponsive_until_, and the clock.    *)
(*                                                                           *)
(* Each section under health_mtx_ is one step; everything else interleaves.  *)
(* Time is kept relative to now: window is unresponsive_until_ - now, so a   *)
(* tick takes one from it, and the clock itself needs no bound.              *)
(* The call loop of Execute is one step of arbitrary duration here; module   *)
(* FidiExecute shows that it ends.                                           *)
(****************************************************************************)
EXTENDS Integers, FiniteSets

CONSTANTS
  Requests,      \* the requests the clients make, each once
  Inputs,        \* what a request may ask for, see InputType
  MaxStall,      \* the most ticks between the clock read of IsResponsive and its lock
  LatencyBound   \* where the count of ticks since an arrival stops

\* What a request makes go wrong, if anything:
\*   syntax            parse errors
\*   insane            SanityChecks returns warnings
\*   timeout_usec      the stol at the end of SanityChecks throws
\*   unresponsive_for  the stol of Execute throws
\*   too_many_calls    the call loop throws, the thread pool being exhausted
Flaws == {"none", "syntax", "insane", "timeout_usec", "unresponsive_for", "too_many_calls"}

OK == 200
BadRequest == 400

InputType ==
  [path : {"healthz", "other"}, flaw : Flaws, response : 1 .. 599,
   predelay : Nat, postdelay : Nat,
   window : Nat,                          \* unresponsive_for_*, 0 for none
   healthy : {"absent", "true", "other"}]

ASSUME InputsAssumption == Inputs \subseteq InputType
ASSUME BoundsAssumption ==
  /\ MaxStall \in Nat /\ LatencyBound \in Nat
  /\ MaxStall =< LatencyBound
  /\ \A in \in Inputs : in.predelay + in.postdelay =< LatencyBound

VARIABLES
  healthy,   \* AppDriver::healthy_
  window,    \* AppDriver::unresponsive_until_ - now; at most MaxStall+1 below zero
  pc,        \* pc[r]: where the handler of r is
  input,     \* input[r]: what r asks for
  timer,     \* timer[r]: ticks left of the sleep the handler of r is in
  status,    \* status[r]: the status set in the response object
  wire,      \* wire[r]: the status in the header that was sent, 0 for none
  report,    \* report[r]: what the body of a health check says
  elapsed,   \* elapsed[r]: ticks since r arrived (history)
  before     \* before[r]: the requests that were answered when r arrived (history)

shared == <<healthy, window>>
vars == <<healthy, window, pc, input, timer, status, wire, report, elapsed, before>>

Finished == {"closed", "dropped", "aborted"}
Floor == -(MaxStall + 1)

Init ==
  /\ healthy = TRUE
  /\ window = -1                     \* set at start-up, before any request
  /\ pc = [r \in Requests |-> "idle"]
  /\ input \in [Requests -> Inputs]
  /\ timer = [r \in Requests |-> 0]
  /\ status = [r \in Requests |-> OK]
  /\ wire = [r \in Requests |-> 0]
  /\ report = [r \in Requests |-> "none"]
  /\ elapsed = [r \in Requests |-> 0]
  /\ before = [r \in Requests |-> {}]

-----------------------------------------------------------------------------
Goto(r, label) == pc' = [pc EXCEPT ![r] = label]

\* The factory makes a handler; IsResponsive reads the clock.
Arrive(r) ==
  /\ pc[r] = "idle"
  /\ Goto(r, "sampled")
  /\ before' = [before EXCEPT ![r] = {s \in Requests : pc[s] = "closed"}]
  /\ UNCHANGED <<shared, input, timer, status, wire, report, elapsed>>

\* Mutant: the limit has to be more than one tick ago.
IsResponsiveLate(r) == window + elapsed[r] < -1

\* Mutant: responsive again at the limit itself.
IsResponsiveEarly(r) == window + elapsed[r] =< 0

\* now > limit, where now was read elapsed[r] ticks ago and limit is read now.
IsResponsive(r) == window + elapsed[r] < 0

\* The node is unresponsive: return, nothing is sent.
Drop(r) ==
  /\ pc[r] = "sampled"
  /\ ~IsResponsive(r)
  /\ Goto(r, "dropped")
  /\ UNCHANGED <<shared, input, timer, status, wire, report, elapsed, before>>

Admit(r) ==
  /\ pc[r] = "sampled"
  /\ IsResponsive(r)
  /\ Goto(r, "admitted")
  /\ UNCHANGED <<shared, input, timer, status, wire, report, elapsed, before>>

\* resp.send() writes the header, with the status the response has by now.
SendHeader(r) ==
  /\ pc[r] = "admitted"
  /\ wire' = [wire EXCEPT ![r] = status[r]]
  /\ Goto(r, "body")
  /\ UNCHANGED <<shared, input, timer, status, report, elapsed, before>>

\* /healthz: report the flag, set a status to match, flush.
ReportHealth(r) ==
  /\ pc[r] = "body"
  /\ input[r].path = "healthz"
  /\ report' = [report EXCEPT ![r] = IF healthy THEN "OK" ELSE "Failure"]
  /\ status' = [status EXCEPT ![r] = IF healthy THEN OK ELSE BadRequest]
  /\ Goto(r, "closed")
  /\ UNCHANGED <<shared, input, timer, wire, elapsed, before>>

Parsing(r) == pc[r] = "body" /\ input[r].path # "healthz"

\* Parse errors or warnings: the body lists them and nothing is executed.
Refuse(r) ==
  /\ Parsing(r)
  /\ input[r].flaw \in {"syntax", "insane"}
  /\ status' = [status EXCEPT ![r] = BadRequest]
  /\ Goto(r, "closed")
  /\ UNCHANGED <<shared, input, timer, wire, report, elapsed, before>>

\* SanityChecks is called outside of any try block.
SanityThrows(r) ==
  /\ Parsing(r)
  /\ input[r].flaw = "timeout_usec"
  /\ Goto(r, "aborted")
  /\ UNCHANGED <<shared, input, timer, status, wire, report, elapsed, before>>

\* Mutant: warnings are reported but do not stop the request.
BeginExecuteInsane(r) ==
  /\ Parsing(r)
  /\ input[r].flaw \notin {"syntax", "timeout_usec"}
  /\ status' = [status EXCEPT ![r] = input[r].response]
  /\ timer' = [timer EXCEPT ![r] = input[r].predelay]
  /\ Goto(r, "predelay")
  /\ UNCHANGED <<shared, input, wire, report, elapsed, before>>

\* Mutant: a first delay of zero becomes a negative one.
BeginExecuteShort(r) ==
  /\ Parsing(r)
  /\ input[r].flaw \notin {"syntax", "insane", "timeout_usec"}
  /\ status' = [status EXCEPT ![r] = input[r].response]
  /\ timer' = [timer EXCEPT ![r] = input[r].predelay - 1]
  /\ Goto(r, "predelay")
  /\ UNCHANGED <<shared, input, wire, report, elapsed, before>>

\* Execute: set the status asked for, start the first sleep.
BeginExecute(r) ==
  /\ Parsing(r)
  /\ input[r].flaw \notin {"syntax", "insane", "timeout_usec"}
  /\ status' = [status EXCEPT ![r] = input[r].response]
  /\ timer' = [timer EXCEPT ![r] = input[r].predelay]
  /\ Goto(r, "predelay")
  /\ UNCHANGED <<shared, input, wire, report, elapsed, before>>

Awake(r) == pc[r] = "predelay" /\ timer[r] = 0

\* unresponsive_for_* is not a number: stol throws, handleRequest only
\* catches bad_alloc.
BadWindow(r) ==
  /\ Awake(r)
  /\ input[r].flaw = "unresponsive_for"
  /\ Goto(r, "aborted")
  /\ UNCHANGED <<shared, input, timer, status, wire, report, elapsed, before>>

\* The node is unresponsive from now on, for the time this request gives,
\* whatever was left of an earlier window.
OpenWindow(r) ==
  /\ Awake(r)
  /\ input[r].flaw # "unresponsive_for"
  /\ input[r].window > 0
  /\ window' = input[r].window
  /\ Goto(r, "calls")
  /\ UNCHANGED <<healthy, input, timer, status, wire, report, elapsed, before>>

NoWindow(r) ==
  /\ Awake(r)
  /\ input[r].flaw # "unresponsive_for"
  /\ input[r].window = 0
  /\ Goto(r, "calls")
  /\ UNCHANGED <<shared, input, timer, status, wire, report, elapsed, before>>

\* The call loop came to its end.
CallsEnd(r) ==
  /\ pc[r] = "calls"
  /\ input[r].flaw # "too_many_calls"
  /\ Goto(r, "health")
  /\ UNCHANGED <<shared, input, timer, status, wire, report, elapsed, before>>

\* Mutant: the exception is caught and the request begun again.
CallsRestart(r) ==
  /\ pc[r] = "calls"
  /\ input[r].flaw = "too_many_calls"
  /\ Goto(r, "body")
  /\ UNCHANGED <<shared, input, timer, status, wire, report, elapsed, before>>

\* The call loop threw: health attribute, second sleep and the end of the
\* body are skipped.
CallsThrow(r) ==
  /\ pc[r] = "calls"
  /\ input[r].flaw = "too_many_calls"
  /\ Goto(r, "aborted")
  /\ UNCHANGED <<shared, input, timer, status, wire, report, elapsed, before>>

\* Mutant: the node can only be made healthy.
HealthAfterTrueOnly(r) == IF input[r].healthy = "true" THEN TRUE ELSE healthy

\* The healthy attribute: anything but "true" makes the node unhealthy.
HealthAfter(r) ==
  IF input[r].healthy = "absent" THEN healthy ELSE input[r].healthy = "true"

\* Mutant: the second delay is skipped.
SetHealthNoDelay(r) ==
  /\ pc[r] = "health"
  /\ healthy' = HealthAfter(r)
  /\ Goto(r, "postdelay")
  /\ UNCHANGED <<window, input, timer, status, wire, report, elapsed, before>>

SetHealth(r) ==
  /\ pc[r] = "health"
  /\ healthy' = HealthAfter(r)
  /\ timer' = [timer EXCEPT ![r] = input[r].postdelay]
  /\ Goto(r, "postdelay")
  /\ UNCHANGED <<window, input, status, wire, report, elapsed, before>>

\* End of the second sleep: close the body and flush it.
Close(r) ==
  /\ pc[r] = "postdelay"
  /\ timer[r] = 0
  /\ Goto(r, "closed")
  /\ UNCHANGED <<shared, input, timer, status, wire, report, elapsed, before>>

Handle(r) ==
  \/ Drop(r) \/ Admit(r) \/ SendHeader(r) \/ ReportHealth(r)
  \/ Refuse(r) \/ SanityThrows(r) \/ BeginExecute(r)
  \/ BadWindow(r) \/ OpenWindow(r) \/ NoWindow(r)
  \/ CallsEnd(r) \/ CallsThrow(r) \/ SetHealth(r) \/ Close(r)

InHandler(r) == pc[r] \notin Finished \cup {"idle"}

\* Time passes.  No thread is held between its clock read and the lock for
\* more than MaxStall ticks.
Tick ==
  /\ \E r \in Requests : InHandler(r)
  /\ \A r \in Requests : pc[r] = "sampled" => elapsed[r] < MaxStall
  /\ window' = IF window > Floor THEN window - 1 ELSE Floor
  /\ timer' = [r \in Requests |-> IF timer[r] > 0 THEN timer[r] - 1 ELSE 0]
  /\ elapsed' = [r \in Requests |->
                   IF InHandler(r) /\ elapsed[r] < LatencyBound
                     THEN elapsed[r] + 1 ELSE elapsed[r]]
  /\ UNCHANGED <<healthy, pc, input, status, wire, report, before>>

Next == Tick \/ \E r \in Requests : Arrive(r) \/ Handle(r)

Spec == Init /\ [][Next]_vars

-----------------------------------------------------------------------------
TypeOK ==
  /\ healthy \in BOOLEAN
  /\ window \in Int /\ window >= Floor
  /\ pc \in [Requests -> {"idle", "sampled", "admitted", "body", "predelay",
                          "calls", "health", "postdelay"} \cup Finished]
  /\ input \in [Requests -> Inputs]
  /\ timer \in [Requests -> Nat]
  /\ status \in [Requests -> 1 .. 599]
  /\ wire \in [Requests -> 0 .. 599]
  /\ report \in [Requests -> {"none", "OK", "Failure"}]
  /\ elapsed \in [Requests -> 0 .. LatencyBound]
  /\ before \in [Requests -> SUBSET Requests]

\* No request that looks at the limit while the node is unresponsive gets
\* past handleRequest's first return, health checks included, however long
\* ago its thread read the clock.
SilentWhileUnresponsive ==
  [][\A r \in Requests :
       window >= 0 /\ pc[r] = "sampled" /\ pc'[r] # "sampled" => pc'[r] = "dropped"]_vars

\* A request that asked for a window and opened it: neither the parser, nor the
\* checks, nor the window's stol stopped it before.
Opener(s) ==
  /\ input[s].path # "healthz" /\ input[s].flaw \in {"none", "too_many_calls"}
  /\ input[s].window > 0
  /\ pc[s] \in {"calls", "health", "postdelay", "closed", "aborted"}

\* A request is only dropped because another one that was executed had opened a
\* window: the node never goes silent by itself, nor for a request it refused.
DroppedForAReason ==
  \A r \in Requests : pc[r] = "dropped" => \E s \in Requests \ {r} : Opener(s)

\* The health flag changes as the last effect of a request, to what that asks
\* for: one that passed the parser and the sanity checks, slept its first delay
\* and made its calls.
HealthChangesLast ==
  [][healthy' # healthy =>
       \E r \in Requests :
         /\ pc[r] = "health" /\ pc'[r] = "postdelay"
         /\ input[r].healthy # "absent" /\ healthy' = (input[r].healthy = "true")
         /\ input[r].flaw = "none" /\ wire[r] # 0
         /\ elapsed[r] >= input[r].predelay]_vars

\* The requests that gave the node a health, and what they gave.
Writers == {r \in Requests : /\ input[r].path # "healthz"
                             /\ input[r].healthy # "absent"
                             /\ pc[r] \in {"postdelay", "closed"}
                             /\ input[r].flaw = "none"}
Given(r) == IF input[r].healthy = "true" THEN "OK" ELSE "Failure"

\* Health checks are consistent with real time: once a request that sets the
\* health was answered, a check that arrives reports what it set, or what one
\* set that was not answered before it arrived.  Without such a request the
\* node is healthy, or reports one that is still being handled.
HealthInOrder ==
  \A b \in Requests : report[b] # "none" =>
    LET last == {w \in Writers : ~\E a \in Writers \cap before[b] : w \in before[a]}
    IN  \/ \E w \in last : report[b] = Given(w)
        \/ report[b] = "OK" /\ Writers \cap before[b] = {}

\* An executed request is not answered before both its delays have passed.
LatencyAtLeastDelays ==
  \A r \in Requests :
    pc[r] = "closed" /\ input[r].path # "healthz" /\ input[r].flaw = "none" =>
      elapsed[r] >= input[r].predelay + input[r].postdelay

\* The steps a handler has before it at most, at place p.
Stage(p) ==
  CASE p = "idle" -> 8 [] p = "sampled" -> 7 [] p = "admitted" -> 6 [] p = "body" -> 5
    [] p = "predelay" -> 4 [] p = "calls" -> 3 [] p = "health" -> 2 [] p = "postdelay" -> 1
    [] OTHER -> 0

\* The ticks for which the sleeps of a request's handler will still hold it.
Due(p, in, t) ==
  CASE p \in {"idle", "sampled", "admitted", "body"} -> in.predelay + in.postdelay
    [] p = "predelay" -> t + in.postdelay
    [] p \in {"calls", "health"} -> in.postdelay
    [] p = "postdelay" -> t
    [] OTHER -> 0

Left(r) == Stage(pc[r]) + Due(pc[r], input[r], timer[r])

Asleep(r) == pc[r] \in {"predelay", "postdelay"} /\ timer[r] > 0

\* Every step of a handler, and every tick of a sleep, leaves it less to do, and
\* nothing else touches what it has left.
HandlersCountDown ==
  [][\A r \in Requests :
       /\ Arrive(r) \/ Handle(r) \/ (Tick /\ Asleep(r)) => Left(r)' < Left(r)
       /\ Left(r)' =< Left(r)]_vars

\* Every request that arrives is answered, dropped or given up, whatever goes
\* wrong in it and whatever the others do: its handler never goes back or round,
\* and never waits for anything but its own sleeps.
HandlersGetOn ==
  /\ HandlersCountDown
  /\ [](\A r \in Requests : InHandler(r) /\ ~Asleep(r) => ENABLED Handle(r))

\* The status a handler sets is the one the client gets.
StatusReachesClient ==
  \A r \in Requests : pc[r] = "closed" => wire[r] = status[r]
=============================================================================
