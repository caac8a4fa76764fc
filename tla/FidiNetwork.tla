---------------------------- MODULE FidiNetwork ----------------------------
(****************************************************************************)
(* Several instances of fidi_app calling each other.  The client's requests  *)
(* and all the calls they lead to form a forest: call c is made by the       *)
(* handler of call parent[c], or by the client if that is 0.                 *)
(*                                                                           *)
(* Handlers follow the promise of SequencedCalls; no sequence asks for more  *)
(* calls than a thread pool has threads, so that Execute does not throw (see *)
(* ExhaustionNeedsBigGroup in FidiExecute).  Poco's HTTP server is external: *)
(* a bounded number of worker threads behind a bounded queue of connections, *)
(* and a connection that finds the queue full is closed.  A worker stays     *)
(* with its connection until the caller closes it or it is idle for too      *)
(* long.  Neither the server nor a handler notices that a caller has gone    *)
(* before it is through with the request: abandoned work goes on.            *)
(****************************************************************************)
EXTENDS EdgeCalls, FiniteSets, Sequences

CONSTANTS Nodes,        \* the instances
          Workers,      \* worker threads of each HTTP server (16 by default)
          QueueLimit,   \* connections it lets wait for one (64 by default)
          MaxCalls,     \* bound: the calls of a forest
          MaxCrashes,   \* bound: how often an instance dies
          Forests       \* the forests of calls

ASSUME LimitsAssumption ==
  Workers \in Nat \ {0} /\ QueueLimit \in Nat \ {0} /\ MaxCalls \in Nat /\ MaxCrashes \in Nat

\* A call comes after the one it is made for; node is the instance it goes to.
ASSUME ForestAssumption ==
  \A f \in Forests : \E n \in 0 .. MaxCalls :
    /\ DOMAIN f.parent = 1 .. n /\ \A c \in 1 .. n : f.parent[c] \in 0 .. c - 1
    /\ f.seq \in [1 .. n -> Int]
    /\ f.node \in [1 .. n -> Nodes]

VARIABLES
  forest,    \* the calls to be made
  state,     \* state[c]: where call c is
  queue,     \* queue[n]: the connections instance n has not taken up yet
  returned,  \* calls that are over for their caller
  gaveUp,    \* those of them that timed out
  down,      \* the instances that are not running
  crashes    \* how many have died so far

vars == <<forest, state, queue, returned, gaveUp, down, crashes>>

Calls == DOMAIN forest.parent
Parent(c) == forest.parent[c]
Node(c) == forest.node[c]
Kids(c) == {k \in Calls : Parent(k) = c}

Made(c) == state[c] # "unmade"

\* The handler of the call is still to run, or running.
Pending(c) == state[c] \in {"queued", "running"}

\* Its worker waits for another request on the connection.
Idle(c) == state[c] \in {"answered", "silent"}

\* The response was sent, all of it.
Answered(c) == state[c] \in {"answered", "ended"}

\* The thread that would make call c, and wait for it, is there.
CallerRuns(c) == Parent(c) = 0 \/ (Parent(c) \in Calls /\ state[Parent(c)] = "running")

\* A caller waits for call c.
Waits(c) == Made(c) /\ c \notin returned /\ CallerRuns(c)

Init ==
  /\ forest \in Forests
  /\ state = [c \in Calls |-> "unmade"]
  /\ queue = [n \in Nodes |-> <<>>]
  /\ returned = {} /\ gaveUp = {} /\ down = {} /\ crashes = 0

-----------------------------------------------------------------------------
Become(c, s) == state' = [state EXCEPT ![c] = s]

\* Mutant: one connection too many.
HasRoomLate(n) == Len(queue[n]) =< QueueLimit

HasRoom(n) == Len(queue[n]) < QueueLimit

\* Mutant: the handler goes on after a call of this sequence has returned.
TurnAny(c) ==
  \A d \in Kids(Parent(c)) : forest.seq[d] < forest.seq[c] =>
    \E e \in Kids(Parent(c)) : forest.seq[e] = forest.seq[d] /\ e \in returned

\* The calls of smaller sequence numbers are over.  The client's requests are
\* independent of each other.
Turn(c) ==
  Parent(c) = 0 \/ \A d \in Kids(Parent(c)) : forest.seq[d] < forest.seq[c] => d \in returned

CanCall(c) == ~Made(c) /\ CallerRuns(c) /\ Turn(c)

\* An AppCaller, or the client, sends a request.
Call(c) ==
  /\ CanCall(c)
  /\ IF Node(c) \notin down /\ HasRoom(Node(c))
       THEN /\ Become(c, "queued")
            /\ queue' = [queue EXCEPT ![Node(c)] = Append(@, c)]
       ELSE Become(c, "refused") /\ UNCHANGED queue
  /\ UNCHANGED <<forest, returned, gaveUp, down, crashes>>

\* Mutant: the worker of a call that timed out does not come back.
BusyForGood(n) == {c \in Calls : /\ Node(c) = n
                                 /\ state[c] = "running" \/ Idle(c)
                                    \/ (state[c] = "ended" /\ c \in gaveUp)}

\* The calls that hold a worker of instance n.
Busy(n) == {c \in Calls : Node(c) = n /\ (state[c] = "running" \/ Idle(c))}

CanPickUp(n) == n \notin down /\ queue[n] # <<>> /\ Cardinality(Busy(n)) < Workers

\* A worker takes up the connection that has waited longest.
PickUp(n) ==
  /\ CanPickUp(n)
  /\ Become(Head(queue[n]), "running")
  /\ queue' = [queue EXCEPT ![n] = Tail(@)]
  /\ UNCHANGED <<forest, returned, gaveUp, down, crashes>>

Fresh(c) == state[c] = "running" /\ \A k \in Kids(c) : ~Made(k)

\* The instance is unresponsive: handleRequest returns and sends nothing.
StaySilent(c) ==
  /\ Fresh(c)
  /\ Become(c, "silent")
  /\ UNCHANGED <<forest, queue, returned, gaveUp, down, crashes>>

\* The request is refused with errors or warnings, or an exception leaves the
\* handler, before any call is made.
Reject(c) ==
  /\ Fresh(c)
  /\ Become(c, "answered")
  /\ UNCHANGED <<forest, queue, returned, gaveUp, down, crashes>>

\* Mutant: no joinAll at the end.
FinishUnjoined(c) ==
  /\ state[c] = "running"
  /\ \A k \in Kids(c) : Made(k)
  /\ Become(c, "answered")
  /\ UNCHANGED <<forest, queue, returned, gaveUp, down, crashes>>

CanFinish(c) == state[c] = "running" /\ Kids(c) \subseteq returned

\* Execute is through with all calls; the body is flushed.
Finish(c) ==
  /\ CanFinish(c)
  /\ Become(c, "answered")
  /\ UNCHANGED <<forest, queue, returned, gaveUp, down, crashes>>

\* The connection has been idle for too long, or the caller closed it: the
\* worker is free.
HangUp(c) ==
  /\ Idle(c)
  /\ Become(c, IF state[c] = "answered" THEN "ended" ELSE "lost")
  /\ UNCHANGED <<forest, queue, returned, gaveUp, down, crashes>>

\* Mutant: only an answer ends the task.
ReturnAnswered(c) ==
  /\ Waits(c) /\ Answered(c)
  /\ returned' = returned \cup {c}
  /\ UNCHANGED <<forest, state, queue, gaveUp, down, crashes>>

CanReturn(c) == Waits(c) /\ (Answered(c) \/ state[c] \in {"refused", "lost"})

\* runTask ends: it has read the answer, or caught an exception because the
\* connection was refused or is lost.
Return(c) ==
  /\ CanReturn(c)
  /\ returned' = returned \cup {c}
  /\ UNCHANGED <<forest, state, queue, gaveUp, down, crashes>>

\* Mutant: time only counts once the request has been taken up.
TimeOutOnceServed(c) ==
  /\ Waits(c) /\ state[c] # "queued"
  /\ returned' = returned \cup {c}
  /\ gaveUp' = gaveUp \cup {c}
  /\ UNCHANGED <<forest, state, queue, down, crashes>>

\* The session's timeout passes, wherever the call is by then: runTask catches
\* the exception and ends.  Nobody tells the instance.
TimeOut(c) ==
  /\ Waits(c)
  /\ returned' = returned \cup {c}
  /\ gaveUp' = gaveUp \cup {c}
  /\ UNCHANGED <<forest, state, queue, down, crashes>>

\* Instance n dies, with its handlers, their callers and its queue.
Crash(n) ==
  /\ n \notin down /\ crashes < MaxCrashes
  /\ state' = [c \in Calls |-> IF Node(c) = n /\ (Pending(c) \/ state[c] = "silent")
                               THEN "lost"
                               ELSE IF Node(c) = n /\ Idle(c) THEN "ended" ELSE state[c]]
  /\ queue' = [queue EXCEPT ![n] = <<>>]
  /\ down' = down \cup {n}
  /\ crashes' = crashes + 1
  /\ UNCHANGED <<forest, returned, gaveUp>>

Restart(n) ==
  /\ n \in down
  /\ down' = down \ {n}
  /\ UNCHANGED <<forest, state, queue, returned, gaveUp, crashes>>

\* What an instance does by itself.
Serve(n) ==
  \/ PickUp(n)
  \/ \E c \in Calls : /\ Node(c) = n
                      /\ \/ StaySilent(c) \/ Reject(c) \/ Finish(c) \/ HangUp(c)
                         \/ \E k \in Kids(c) : Call(k) \/ Return(k)

Client == \E c \in Kids(0) : Call(c) \/ Return(c)

TimeOuts == \E c \in Calls : TimeOut(c)

Next == Client \/ TimeOuts \/ \E n \in Nodes : Serve(n) \/ Crash(n) \/ Restart(n)

Spec == Init /\ [][Next]_vars

\* The threads of an instance run; a client reads its answers.
FairSpec == /\ Spec
            /\ \A n \in Nodes : WF_vars(Serve(n))
            /\ WF_vars(\E c \in Kids(0) : Return(c))

-----------------------------------------------------------------------------
\* A connection waits in one place, and only for a request of this instance;
\* the limits of the server are kept.
TypeOK ==
  /\ forest \in Forests
  /\ state \in [Calls -> {"unmade", "queued", "running", "silent", "answered", "ended",
                        "refused", "lost"}]
  /\ \A n \in Nodes :
       /\ queue[n] \in Seq(Calls)
       /\ Len(queue[n]) =< QueueLimit /\ Cardinality(Busy(n)) =< Workers
       /\ \A i \in DOMAIN queue[n] : Node(queue[n][i]) = n /\ state[queue[n][i]] = "queued"
  /\ gaveUp \subseteq returned /\ returned \subseteq {c \in Calls : Made(c)}
  /\ down \subseteq Nodes /\ crashes \in 0 .. MaxCrashes

\* The calls from c up to the client: the least set with c and with the parent
\* of every call in it.
Above == [f \in Forests |-> [c \in DOMAIN f.parent |->
  {a \in DOMAIN f.parent :
     \A S \in SUBSET DOMAIN f.parent :
       c \in S /\ (\A d \in S : f.parent[d] # 0 => f.parent[d] \in S) => a \in S}]]

\* The calls between e and x, which is below e; x included.
Between(e, x) == Above[forest][x] \ Above[forest][e]

\* A call whose caller may go on although work for it does, too.
Broken(c) == c \in gaveUp \/ state[c] = "lost"

\* When a request has been answered, nothing is still being done for it
\* anywhere in the network, unless on the way down to it a caller timed out or
\* an instance died (joinAll at every level of the forest, and runTask's wait
\* for the body of the answer).
NothingLeftBehind ==
  \A x \in Calls, e \in Calls :
    Pending(x) /\ e \in Above[forest][x] /\ Answered(e) =>
      \E c \in Between(e, x) : Broken(c)

\* The synchronisation point holds end to end: while a call is made, all work
\* for those of smaller sequence numbers of the same request is over, however
\* deep, with the same exceptions.
EndToEndOrder ==
  \A c \in Calls, x \in Calls :
    Made(c) /\ Parent(c) # 0 /\ Pending(x) =>
      \A d \in Kids(Parent(c)) \cap Above[forest][x] :
        forest.seq[d] < forest.seq[c] => \E b \in Between(Parent(c), x) : Broken(b)

\* Serve(n) is enabled.
CanServe(n) ==
  \/ CanPickUp(n)
  \/ \E c \in Calls : /\ Node(c) = n
                      /\ \/ Fresh(c) \/ CanFinish(c) \/ Idle(c)
                         \/ \E k \in Kids(c) : CanCall(k) \/ CanReturn(k)

\* No thread can take a step before a timeout or a restart.
Stalled == \A n \in Nodes : ~CanServe(n)

\* Handlers get into each other's way only by taking all the workers of an
\* instance: if there is work and nobody can go on, then at some instance
\* a connection waits and every worker's handler waits for a call of its own.
StallNeedsFullPool ==
  Stalled /\ (\E c \in Calls : Pending(c)) =>
    \E n \in Nodes :
      /\ queue[n] # <<>>
      /\ Cardinality({c \in Busy(n) : \E k \in Kids(c) : Waits(k)}) = Workers

\* Every handler makes its calls in the documented order, whatever its
\* callers, its callees and the other handlers of the instance are up to.
Promise(e) == INSTANCE SequencedCalls
  WITH Edges <- 1 .. MaxCalls, Repeats <- {1},
       Sequences <- UNION {{f.seq[c] : c \in DOMAIN f.seq} : f \in Forests},
       attr <- [k \in Kids(e) |-> [repeat |-> 1, sequence |-> forest.seq[k]]],
       made <- {<<k, 1>> : k \in {k \in Kids(e) : Made(k)}},
       done <- {<<k, 1>> : k \in Kids(e) \cap returned}
HandlersKeepPromise ==
  /\ \A e \in Calls : Promise(e)!Init
  /\ [][\A e \in Calls : [Promise(e)!Next]_(Promise(e)!promiseVars)]_vars

Quiet == \A c \in Calls : ~Pending(c) /\ ~Idle(c) /\ ~Waits(c)

\* With timeouts every call comes to an end, for its caller and for the
\* instance that serves it, even if requests that call back into an instance
\* have taken all its workers, and whatever dies on the way.
EveryCallEnds == WF_vars(TimeOuts) => <>[]Quiet

\* Every instance has a worker more than it gets calls that make calls themselves.
EnoughWorkers ==
  \A n \in Nodes : Cardinality({c \in Calls : Node(c) = n /\ Kids(c) # {}}) < Workers

\* Timeouts are not needed for that as long as there are enough workers.
EndsUnaided == EnoughWorkers => <>[]Quiet
=============================================================================
