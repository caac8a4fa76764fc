----------------------------- MODULE FidiExecute -----------------------------
(****************************************************************************)
(* The call loop of AppDriver::Execute: one handler thread drains the        *)
(* priority queue of edges, hands every copy of every edge to a task manager *)
(* over a thread pool of its own, and joins the pool at the end of each      *)
(* sequence number.  Each task is an AppCaller making one HTTP call.         *)
(*                                                                           *)
(* The handler and the callers interleave at every step.  Poco's TaskManager *)
(* and ThreadPool are external: start() takes an idle thread or a new one,   *)
(* throws NoThreadAvailableException when MaxThreads of them are busy, and   *)
(* joinAll() returns when no task is running.                                *)
(****************************************************************************)
EXTENDS EdgeCalls, FiniteSets

CONSTANTS Edges,       \* the edge statements a request may hold
          Repeats,     \* the repetition counts the parser may store
          Sequences,   \* the sequence numbers the parser may store
          MaxThreads   \* the maximum size of the thread pool (1024 in the code)

ASSUME RepeatsAssumption == Repeats \subseteq Int
ASSUME SequencesAssumption == Sequences \subseteq Int
ASSUME MaxThreadsAssumption == MaxThreads \in Nat \ {0}
ASSUME EdgesAssumption == IsFiniteSet(Edges)

VARIABLES attr,      \* the edges of the request, as parsed; never changes
          queue,     \* edge_attributes_: the edges not yet popped
          seqno,     \* downstream_call_sequence_number
          current,   \* call_details: the edge at the top of the queue
          copy,      \* i, the copy of it to start next
          pc,        \* where the handler thread is in the loop
          started,   \* calls whose task was handed to a pool thread
          sent,      \* calls whose request went out on the wire
          answered,  \* calls that ended with a response
          failed     \* calls that ended with an exception, caught and logged

handlerVars == <<attr, queue, seqno, current, copy, pc>>
callerVars == <<sent, answered, failed>>
vars == <<attr, queue, seqno, current, copy, pc, started, sent, answered, failed>>

-----------------------------------------------------------------------------
Calls == CallsOf(attr)
Seq(c) == SeqOf(attr, c)
Group(s) == GroupOf(attr, s)

Ended == answered \cup failed

\* The tasks that hold a thread of the pool.
Running == started \ Ended

\* Mutant: EdgeComparison the other way round.
TopLargest == {e \in queue : \A f \in queue : attr[e].sequence >= attr[f].sequence}

\* The edges that may be at the top of the queue: a least sequence number
\* first (EdgeComparison), in no particular order among equals.
Top == {e \in queue : \A f \in queue : attr[e].sequence =< attr[f].sequence}

TopHasSequence(s) == \E e \in Top : attr[e].sequence = s

-----------------------------------------------------------------------------
Init ==
  /\ attr \in UNION {[E -> EdgeAttr(Repeats, Sequences)] : E \in SUBSET Edges}
  /\ queue = DOMAIN attr
  /\ seqno \in Sequences          \* declared in the loop: no value yet
  /\ current \in Edges            \* likewise
  /\ copy = 1
  /\ pc = "sequence"
  /\ started = {} /\ sent = {} /\ answered = {} /\ failed = {}

\* The outer loop: take the sequence number at the top of the queue.
BeginSequence ==
  /\ pc = "sequence"
  /\ queue # {}
  /\ \E e \in Top : seqno' = attr[e].sequence
  /\ pc' = "group"
  /\ UNCHANGED <<attr, queue, current, copy, started, callerVars>>

\* The outer loop: nothing is left, go on to the log messages.
LeaveLoop ==
  /\ pc = "sequence"
  /\ queue = {}
  /\ pc' = "after"
  /\ UNCHANGED <<attr, queue, seqno, current, copy, started, callerVars>>

\* Mutant: the copies are numbered from zero.
TakeCallFromZero ==
  /\ pc = "group"
  /\ TopHasSequence(seqno)
  /\ current' \in Top
  /\ copy' = 0
  /\ pc' = "copies"
  /\ UNCHANGED <<attr, queue, seqno, started, callerVars>>

\* The inner loop: copy the details of the top edge of this sequence.
TakeCall ==
  /\ pc = "group"
  /\ TopHasSequence(seqno)
  /\ current' \in Top
  /\ copy' = 1
  /\ pc' = "copies"
  /\ UNCHANGED <<attr, queue, seqno, started, callerVars>>

\* Mutant: a call waits for the one before it.
StartCopyAlone ==
  /\ pc = "copies"
  /\ copy =< Copies(attr, current)
  /\ Running = {}
  /\ started' = started \cup {<<current, copy>>}
  /\ copy' = copy + 1
  /\ UNCHANGED <<attr, queue, seqno, current, pc, callerVars>>

\* The for loop over the repetitions: tm.start finds a thread.
StartCopy ==
  /\ pc = "copies"
  /\ copy =< Copies(attr, current)
  /\ Cardinality(Running) < MaxThreads
  /\ started' = started \cup {<<current, copy>>}
  /\ copy' = copy + 1
  /\ UNCHANGED <<attr, queue, seqno, current, pc, callerVars>>

\* tm.start finds every thread of the pool busy; the exception leaves Execute.
NoThread ==
  /\ pc = "copies"
  /\ copy =< Copies(attr, current)
  /\ Cardinality(Running) >= MaxThreads
  /\ pc' = "thrown"
  /\ UNCHANGED <<attr, queue, seqno, current, copy, started, callerVars>>

\* Mutant: the whole sequence is popped with the edge.
PopSequence ==
  /\ pc = "copies"
  /\ copy > Copies(attr, current)
  /\ queue' = {e \in queue : attr[e].sequence # seqno}
  /\ pc' = "group"
  /\ UNCHANGED <<attr, seqno, current, copy, started, callerVars>>

\* All the repetitions are started: pop the edge.
PopCall ==
  /\ pc = "copies"
  /\ copy > Copies(attr, current)
  /\ queue' = queue \ {current}
  /\ pc' = "group"
  /\ UNCHANGED <<attr, seqno, current, copy, started, callerVars>>

\* No edge of this sequence is left at the top: leave the inner loop.
EndSequence ==
  /\ pc = "group"
  /\ ~TopHasSequence(seqno)
  /\ pc' = "join"
  /\ UNCHANGED <<attr, queue, seqno, current, copy, started, callerVars>>

\* Mutant: no joinAll between sequence numbers.
JoinNothing ==
  /\ pc = "join"
  /\ pc' = "sequence"
  /\ UNCHANGED <<attr, queue, seqno, current, copy, started, callerVars>>

\* Mutant: the loop waits for an answer to every call.
JoinAnswered ==
  /\ pc = "join"
  /\ started \subseteq answered
  /\ pc' = "sequence"
  /\ UNCHANGED <<attr, queue, seqno, current, copy, started, callerVars>>

\* tm.joinAll() returns.
JoinAll ==
  /\ pc = "join"
  /\ Running = {}
  /\ pc' = "sequence"
  /\ UNCHANGED <<attr, queue, seqno, current, copy, started, callerVars>>

\* AppCaller::runTask: connect to the node and send the payload.
Send(c) ==
  /\ c \in Running \ sent
  /\ sent' = sent \cup {c}
  /\ UNCHANGED <<handlerVars, started, answered, failed>>

\* The response was received, whatever its status.
Answered(c) ==
  /\ c \in Running \cap sent
  /\ answered' = answered \cup {c}
  /\ UNCHANGED <<handlerVars, started, sent, failed>>

\* Resolving, connecting, sending or receiving failed or timed out: the
\* exception is caught in runTask, logged, and the task ends like any other.
Failed(c) ==
  /\ c \in Running
  /\ failed' = failed \cup {c}
  /\ UNCHANGED <<handlerVars, started, sent, answered>>

Handler ==
  \/ BeginSequence \/ LeaveLoop \/ TakeCall \/ StartCopy \/ NoThread
  \/ PopCall \/ EndSequence \/ JoinAll

Caller(c) == Send(c) \/ Answered(c) \/ Failed(c)

Callers == \E c \in started : Caller(c)

\* Execute returned or threw, and no task is running.
Quiet == pc \in {"after", "thrown"} /\ Running = {}

Stop == Quiet /\ UNCHANGED vars

Next == Handler \/ Callers \/ Stop

Spec == Init /\ [][Next]_vars

\* The handler thread is never held back for ever by the scheduler.
HandlerSpec == Spec /\ WF_vars(Handler)

\* Nor are the callers: every socket operation has a timeout, the one the
\* request gives or the default of the HTTP client session.
FairSpec == HandlerSpec /\ WF_vars(Callers)

-----------------------------------------------------------------------------
\* Every variable has a value of its type; tasks only belong to this request.
TypeOK ==
  /\ attr \in UNION {[E -> EdgeAttr(Repeats, Sequences)] : E \in SUBSET Edges}
  /\ queue \subseteq DOMAIN attr
  /\ seqno \in Sequences
  /\ current \in Edges
  /\ copy \in Nat \ {0}
  /\ pc \in {"sequence", "group", "copies", "join", "after", "thrown"}
  /\ started \subseteq Calls
  /\ sent \subseteq started
  /\ answered \subseteq sent
  /\ failed \subseteq started
  /\ answered \cap failed = {}

\* The synchronisation point between sequence numbers: no request is on the
\* wire while a call of a smaller sequence number is still to be made or to
\* end (the while loop of Execute with joinAll at its end).
SequencePoint ==
  \A c \in sent, d \in Calls : Seq(d) < Seq(c) => d \in Ended

\* Execute goes on to the health attribute, the second delay and the end of
\* the response only when every copy of every edge was made and has ended.
AllCallsMade == pc = "after" => Ended = Calls

\* tm.start can only throw in a sequence whose edges ask for more calls than
\* the pool has threads: threads are never lost from one sequence to the next.
ExhaustionNeedsBigGroup ==
  pc = "thrown" => Cardinality(Group(seqno)) > MaxThreads

\* The loop keeps the promise of the documentation about order.
Promise == INSTANCE SequencedCalls WITH made <- started, done <- Ended
KeepsPromise == Promise!Spec

\* Whatever fails or times out downstream, Execute comes to an end and leaves
\* no call running, as long as each call ends somehow: a failure is swallowed
\* by the caller that met it and its thread goes back to the pool.
Termination == WF_vars(Callers) => <>Quiet

\* The calls of a sequence number are all started by the handler alone: none
\* of them waits for another to be answered (unless the pool is exhausted).
GroupStartsUnaided ==
  \A s \in Sequences :
    (pc = "group" /\ seqno = s) ~> (Group(s) \subseteq started \/ pc = "thrown")

-----------------------------------------------------------------------------
(* The inductive invariant: what the loop keeps true between its steps.      *)

InLoop == pc \in {"group", "copies", "join", "thrown"}

\* Only popped edges have left the queue, and they left with every copy started.
PoppedAreStarted == \A c \in Calls : c[1] \notin queue => c \in started

\* Of the edges still queued only the current one has copies started, and
\* those are the ones below copy.
OnlyCurrentIsPartial ==
  \A c \in started : c[1] \in queue =>
    pc \in {"copies", "thrown"} /\ c[1] = current /\ c[2] < copy

CurrentIsTop ==
  pc \in {"copies", "thrown"} =>
    /\ current \in queue
    /\ attr[current].sequence = seqno
    /\ \A i \in 1 .. copy - 1 : <<current, i>> \in started

\* The queue only holds edges of this sequence number or a later one.
QueueIsAhead ==
  /\ \A c \in started, e \in queue : Seq(c) =< attr[e].sequence
  /\ InLoop => /\ \A e \in queue : seqno =< attr[e].sequence
               /\ \A c \in started : Seq(c) =< seqno

\* Every running task belongs to the sequence number of the loop.
RunningIsCurrent == \A c \in Running : InLoop /\ Seq(c) = seqno

DrainedAfter == pc = "after" => queue = {}

LoopInvariant ==
  /\ TypeOK /\ PoppedAreStarted /\ OnlyCurrentIsPartial /\ CurrentIsTop
  /\ QueueIsAhead /\ RunningIsCurrent /\ DrainedAfter /\ ExhaustionNeedsBigGroup
=============================================================================
