-------------------------- MODULE FidiExecuteProofs --------------------------
(****************************************************************************)
(* Proofs about the call loop of AppDriver::Execute, for every request and   *)
(* every size of the thread pool.                                            *)
(****************************************************************************)
EXTENDS FidiExecute, FiniteSetTheorems, TLAPS

-----------------------------------------------------------------------------
(* The calls of a request.                                                   *)

\* What the type of attr says of one edge.
LEMMA AttrFacts ==
  ASSUME attr \in UNION {[E -> EdgeAttr(Repeats, Sequences)] : E \in SUBSET Edges}
  PROVE  /\ DOMAIN attr \subseteq Edges
         /\ \A e \in DOMAIN attr : /\ attr[e].repeat \in Int
                                   /\ attr[e].sequence \in Sequences
                                   /\ attr[e].sequence \in Int
                                   /\ Copies(attr, e) \in Nat \ {0}
<1>1. PICK E \in SUBSET Edges : attr \in [E -> EdgeAttr(Repeats, Sequences)]
  OBVIOUS
<1>2. ASSUME NEW e \in E
      PROVE  attr[e].repeat \in Repeats /\ attr[e].sequence \in Sequences
  BY <1>1, <1>2 DEF EdgeAttr
<1>3. DOMAIN attr = E
  BY <1>1
<1>4. ASSUME NEW e \in DOMAIN attr
      PROVE  /\ attr[e].repeat \in Int
             /\ attr[e].sequence \in Sequences
             /\ attr[e].sequence \in Int
  BY <1>2, <1>3, <1>4, RepeatsAssumption, SequencesAssumption
<1>5. ASSUME NEW e \in DOMAIN attr
      PROVE  Copies(attr, e) \in Nat \ {0}
  BY <1>4, <1>5 DEF Copies
<1> QED BY <1>3, <1>4, <1>5

\* A call is a copy of an edge, numbered from one.
LEMMA CallFacts ==
  \A c : c \in Calls <=> \E e \in DOMAIN attr : \E i \in 1 .. Copies(attr, e) : c = <<e, i>>
BY DEF Calls, CallsOf

\* The same, as it is used of a call at hand.
LEMMA CallParts ==
  ASSUME NEW c \in Calls
  PROVE  c[1] \in DOMAIN attr /\ c[2] \in 1 .. Copies(attr, c[1]) /\ c = <<c[1], c[2]>>
BY CallFacts

\* A request makes finitely many calls.
LEMMA CallsFinite ==
  ASSUME attr \in UNION {[E -> EdgeAttr(Repeats, Sequences)] : E \in SUBSET Edges}
  PROVE  IsFiniteSet(Calls)
<1> DEFINE copiesOf == [e \in DOMAIN attr |-> {e} \X (1 .. Copies(attr, e))]
           all == {{e} \X (1 .. Copies(attr, e)) : e \in DOMAIN attr}
<1>1. IsFiniteSet(DOMAIN attr)
  BY AttrFacts, EdgesAssumption, FS_Subset
<1>2. copiesOf \in Surjection(DOMAIN attr, all)
  BY DEF Surjection
<1>3. IsFiniteSet(all)
  BY <1>1, <1>2, FS_Surjection
<1>4. ASSUME NEW e \in DOMAIN attr
      PROVE  IsFiniteSet({e} \X (1 .. Copies(attr, e)))
  <2>1. Copies(attr, e) \in Int
    BY AttrFacts
  <2>2. IsFiniteSet(1 .. Copies(attr, e))
    BY <2>1, FS_Interval
  <2>3. IsFiniteSet({e})
    BY FS_Singleton
  <2> QED BY <2>2, <2>3, FS_Product
<1>5. \A T \in all : IsFiniteSet(T)
  BY <1>4
<1> QED BY <1>3, <1>5, FS_UNION DEF Calls, CallsOf

-----------------------------------------------------------------------------
(* The loop invariant is inductive.                                          *)

\* It holds before the loop, when nothing was started.
LEMMA InitInvariant == Init => LoopInvariant
<1> SUFFICES ASSUME Init PROVE LoopInvariant
  OBVIOUS
<1> USE DEF Init
<1>1. TypeOK
  BY DEF TypeOK
<1>2. PoppedAreStarted
  BY CallParts DEF PoppedAreStarted
<1>3. /\ OnlyCurrentIsPartial /\ CurrentIsTop /\ QueueIsAhead /\ DrainedAfter
      /\ RunningIsCurrent /\ ExhaustionNeedsBigGroup
  BY DEF OnlyCurrentIsPartial, CurrentIsTop, QueueIsAhead, DrainedAfter,
         RunningIsCurrent, ExhaustionNeedsBigGroup, InLoop, Running
<1> QED BY <1>1, <1>2, <1>3 DEF LoopInvariant

\* Type correctness is kept by every step.
LEMMA TypeStep ==
  ASSUME LoopInvariant, [Next]_vars
  PROVE  TypeOK'
<1> USE DEF LoopInvariant, TypeOK
<1>1. CASE BeginSequence
  <2>1. seqno' \in Sequences
    BY <1>1, AttrFacts DEF BeginSequence, Top
  <2> QED BY <1>1, <2>1 DEF BeginSequence, callerVars, Calls
<1>2. CASE LeaveLoop
  BY <1>2 DEF LeaveLoop, callerVars, Calls
<1>3. CASE TakeCall
  <2>1. current' \in Edges
    BY <1>3, AttrFacts DEF TakeCall, Top
  <2> QED BY <1>3, <2>1 DEF TakeCall, callerVars, Calls
<1>4. CASE StartCopy
  <2>1. current \in DOMAIN attr /\ copy \in 1 .. Copies(attr, current)
    BY <1>4, AttrFacts DEF StartCopy, CurrentIsTop
  <2>2. <<current, copy>> \in Calls
    BY <2>1, CallFacts
  <2> QED BY <1>4, <2>2 DEF StartCopy, callerVars, Calls
<1>5. CASE NoThread
  BY <1>5 DEF NoThread, callerVars, Calls
<1>6. CASE PopCall
  BY <1>6 DEF PopCall, callerVars, Calls
<1>7. CASE EndSequence
  BY <1>7 DEF EndSequence, callerVars, Calls
<1>8. CASE JoinAll
  BY <1>8 DEF JoinAll, callerVars, Calls
<1>9. ASSUME NEW c \in started, Caller(c)
      PROVE  TypeOK'
  BY <1>9 DEF Caller, Send, Answered, Failed, Running, Ended, handlerVars, Calls
<1>10. CASE UNCHANGED vars
  BY <1>10 DEF vars, Calls
<1> QED BY <1>1, <1>2, <1>3, <1>4, <1>5, <1>6, <1>7, <1>8, <1>9, <1>10
        DEF Next, Handler, Callers, Stop

\* Popped edges stay popped, and PopCall pops an edge only with all its
\* copies started.
LEMMA PoppedStep ==
  ASSUME LoopInvariant, [Next]_vars
  PROVE  PoppedAreStarted'
<1> USE DEF LoopInvariant, PoppedAreStarted, Calls
<1>1. CASE BeginSequence
  BY <1>1 DEF BeginSequence
<1>2. CASE LeaveLoop
  BY <1>2 DEF LeaveLoop
<1>3. CASE TakeCall
  BY <1>3 DEF TakeCall
<1>4. CASE StartCopy
  BY <1>4 DEF StartCopy
<1>5. CASE NoThread
  BY <1>5 DEF NoThread
<1>6. CASE PopCall
  <2> SUFFICES ASSUME NEW c \in Calls, c[1] = current
               PROVE  c \in started
    BY <1>6 DEF PopCall
  <2>1. c[2] \in 1 .. Copies(attr, current) /\ c = <<current, c[2]>>
    BY CallParts
  <2>2. Copies(attr, current) \in Nat \ {0} /\ copy \in Nat \ {0}
    BY AttrFacts, CallParts DEF TypeOK
  <2>3. c[2] \in 1 .. copy - 1
    BY <1>6, <2>1, <2>2 DEF PopCall
  <2> QED BY <1>6, <2>1, <2>3 DEF PopCall, CurrentIsTop
<1>7. CASE EndSequence
  BY <1>7 DEF EndSequence
<1>8. CASE JoinAll
  BY <1>8 DEF JoinAll
<1>9. ASSUME NEW c \in started, Caller(c)
      PROVE  PoppedAreStarted'
  BY <1>9 DEF Caller, Send, Answered, Failed, handlerVars
<1>10. CASE UNCHANGED vars
  BY <1>10 DEF vars
<1> QED BY <1>1, <1>2, <1>3, <1>4, <1>5, <1>6, <1>7, <1>8, <1>9, <1>10
        DEF Next, Handler, Callers, Stop

\* The copies started of a queued edge are those of the current one below copy.
LEMMA PartialStep ==
  ASSUME LoopInvariant, [Next]_vars
  PROVE  OnlyCurrentIsPartial' /\ CurrentIsTop'
<1> USE DEF LoopInvariant, OnlyCurrentIsPartial, CurrentIsTop
<1>1. CASE BeginSequence
  BY <1>1 DEF BeginSequence
<1>2. CASE LeaveLoop
  BY <1>2 DEF LeaveLoop
<1>3. CASE TakeCall
  <2>1. current' \in queue /\ attr[current'].sequence = seqno
    <3>1. PICK e \in Top : attr[e].sequence = seqno
      BY <1>3 DEF TakeCall, TopHasSequence
    <3>2. current' \in Top
      BY <1>3 DEF TakeCall
    <3>3. /\ e \in queue /\ current' \in queue
          /\ attr[e].sequence =< attr[current'].sequence
          /\ attr[current'].sequence =< attr[e].sequence
      BY <3>1, <3>2 DEF Top
    <3>4. attr[e].sequence \in Int /\ attr[current'].sequence \in Int
      BY <3>3, AttrFacts DEF TypeOK
    <3> QED BY <3>1, <3>3, <3>4
  <2>2. started' = started /\ copy' = 1 /\ UNCHANGED <<queue, attr, seqno>> /\ pc' = "copies"
    BY <1>3 DEF TakeCall
  <2>3. \A c \in started : c[1] \notin queue
    BY <1>3 DEF TakeCall
  <2> QED BY <2>1, <2>2, <2>3
<1>4. CASE StartCopy
  <2>1. copy \in Nat \ {0} /\ copy' = copy + 1 /\ pc = "copies" /\ pc' = "copies"
    BY <1>4 DEF StartCopy, TypeOK
  <2>2. started' = started \cup {<<current, copy>>} /\ UNCHANGED <<queue, attr, seqno, current>>
    BY <1>4 DEF StartCopy
  <2>3. ASSUME NEW c \in started', c[1] \in queue
        PROVE  c[1] = current /\ c[2] < copy + 1
    <3>1. CASE c \in started
      <4>1. c \in Calls /\ c[2] < copy
        BY <2>1, <2>3, <3>1 DEF TypeOK
      <4>2. c[2] \in Int
        BY <4>1, CallParts, AttrFacts DEF TypeOK
      <4> QED BY <2>1, <2>3, <3>1, <4>1, <4>2
    <3>2. CASE c = <<current, copy>>
      BY <2>1, <3>2
    <3> QED BY <2>2, <2>3, <3>1, <3>2
  <2>4. ASSUME NEW i \in 1 .. copy' - 1
        PROVE  <<current, i>> \in started'
    <3>1. i \in 1 .. copy - 1 \/ i = copy
      BY <2>1, <2>4
    <3> QED BY <2>1, <2>2, <3>1
  <2> QED BY <2>1, <2>2, <2>3, <2>4
<1>5. CASE NoThread
  BY <1>5 DEF NoThread
<1>6. CASE PopCall
  BY <1>6 DEF PopCall
<1>7. CASE EndSequence
  BY <1>7 DEF EndSequence
<1>8. CASE JoinAll
  BY <1>8 DEF JoinAll
<1>9. ASSUME NEW c \in started, Caller(c)
      PROVE  OnlyCurrentIsPartial' /\ CurrentIsTop'
  BY <1>9 DEF Caller, Send, Answered, Failed, handlerVars
<1>10. CASE UNCHANGED vars
  BY <1>10 DEF vars
<1> QED BY <1>1, <1>2, <1>3, <1>4, <1>5, <1>6, <1>7, <1>8, <1>9, <1>10
        DEF Next, Handler, Callers, Stop

\* The sequence numbers in the queue only grow.
LEMMA AheadStep ==
  ASSUME LoopInvariant, [Next]_vars
  PROVE  QueueIsAhead'
<1> USE DEF LoopInvariant, QueueIsAhead, Seq, SeqOf, InLoop
<1>1. CASE BeginSequence
  <2>1. PICK e \in Top : seqno' = attr[e].sequence
    BY <1>1 DEF BeginSequence
  <2>2. e \in queue /\ \A f \in queue : seqno' =< attr[f].sequence
    BY <2>1 DEF Top
  <2> QED BY <1>1, <2>1, <2>2 DEF BeginSequence
<1>2. CASE LeaveLoop
  BY <1>2 DEF LeaveLoop
<1>3. CASE TakeCall
  BY <1>3 DEF TakeCall
<1>4. CASE StartCopy
  <2>1. /\ started' = started \cup {<<current, copy>>}
        /\ UNCHANGED <<queue, attr, seqno, pc>> /\ pc = "copies"
    BY <1>4 DEF StartCopy
  <2>2. attr[current].sequence = seqno /\ seqno \in Int
    BY <2>1, SequencesAssumption DEF CurrentIsTop, TypeOK
  <2> QED BY <2>1, <2>2
<1>5. CASE NoThread
  BY <1>5 DEF NoThread
<1>6. CASE PopCall
  BY <1>6 DEF PopCall
<1>7. CASE EndSequence
  BY <1>7 DEF EndSequence
<1>8. CASE JoinAll
  BY <1>8 DEF JoinAll
<1>9. ASSUME NEW c \in started, Caller(c)
      PROVE  QueueIsAhead'
  BY <1>9 DEF Caller, Send, Answered, Failed, handlerVars
<1>10. CASE UNCHANGED vars
  BY <1>10 DEF vars
<1> QED BY <1>1, <1>2, <1>3, <1>4, <1>5, <1>6, <1>7, <1>8, <1>9, <1>10
        DEF Next, Handler, Callers, Stop

\* Tasks run only inside the sequence that started them, and the loop is left
\* only with an empty queue.
LEMMA RunningStep ==
  ASSUME LoopInvariant, [Next]_vars
  PROVE  RunningIsCurrent' /\ DrainedAfter'
<1> USE DEF LoopInvariant, RunningIsCurrent, DrainedAfter, Running, Ended, Seq, SeqOf, InLoop
<1>1. CASE BeginSequence
  BY <1>1 DEF BeginSequence, callerVars
<1>2. CASE LeaveLoop
  BY <1>2 DEF LeaveLoop, callerVars
<1>3. CASE TakeCall
  BY <1>3 DEF TakeCall, callerVars
<1>4. CASE StartCopy
  <2>1. /\ started' = started \cup {<<current, copy>>}
        /\ UNCHANGED <<attr, seqno, pc, answered, failed>> /\ pc = "copies"
    BY <1>4 DEF StartCopy, callerVars
  <2>2. attr[current].sequence = seqno
    BY <2>1 DEF CurrentIsTop
  <2> QED BY <2>1, <2>2
<1>5. CASE NoThread
  BY <1>5 DEF NoThread, callerVars
<1>6. CASE PopCall
  BY <1>6 DEF PopCall, callerVars
<1>7. CASE EndSequence
  BY <1>7 DEF EndSequence, callerVars
<1>8. CASE JoinAll
  BY <1>8 DEF JoinAll, callerVars
<1>9. ASSUME NEW c \in started, Caller(c)
      PROVE  RunningIsCurrent' /\ DrainedAfter'
  BY <1>9 DEF Caller, Send, Answered, Failed, handlerVars
<1>10. CASE UNCHANGED vars
  BY <1>10 DEF vars
<1> QED BY <1>1, <1>2, <1>3, <1>4, <1>5, <1>6, <1>7, <1>8, <1>9, <1>10
        DEF Next, Handler, Callers, Stop


\* When tm.start finds no thread, MaxThreads tasks of this sequence are running
\* and the copy at hand is one more call of it.
LEMMA ExhaustionStep ==
  ASSUME LoopInvariant, [Next]_vars
  PROVE  ExhaustionNeedsBigGroup'
<1> USE DEF LoopInvariant, ExhaustionNeedsBigGroup, Group
<1>1. CASE BeginSequence \/ LeaveLoop \/ TakeCall \/ StartCopy \/ PopCall \/ EndSequence \/ JoinAll
  BY <1>1 DEF BeginSequence, LeaveLoop, TakeCall, StartCopy, PopCall, EndSequence, JoinAll
<1>2. CASE NoThread
  <2> DEFINE x == <<current, copy>>
  <2>1. /\ pc = "copies" /\ copy =< Copies(attr, current)
        /\ Cardinality(Running) >= MaxThreads
        /\ UNCHANGED <<attr, seqno>>
    BY <1>2 DEF NoThread
  <2>2. current \in DOMAIN attr /\ copy \in 1 .. Copies(attr, current)
    BY <2>1, AttrFacts DEF CurrentIsTop, TypeOK
  <2>3. x \in Group(seqno)
    BY <2>1, <2>2, CallFacts DEF GroupOf, SeqOf, CurrentIsTop, Calls
  <2>4. x \notin Running
    BY <2>1, <2>2, AttrFacts DEF OnlyCurrentIsPartial, CurrentIsTop, Running, TypeOK
  <2>5. Running \subseteq Group(seqno)
    BY DEF RunningIsCurrent, GroupOf, Seq, Calls, Running, TypeOK
  <2>6. IsFiniteSet(Calls) /\ Group(seqno) \subseteq Calls
    BY CallsFinite DEF TypeOK, GroupOf, Calls
  <2>7. IsFiniteSet(Group(seqno))
    BY <2>6, FS_Subset
  <2>8. IsFiniteSet(Running)
    BY <2>5, <2>7, FS_Subset
  <2>9. Cardinality(Running \cup {x}) = Cardinality(Running) + 1
    BY <2>4, <2>8, FS_AddElement
  <2>10. Running \cup {x} \subseteq Group(seqno)
    BY <2>3, <2>5
  <2>11. Cardinality(Running \cup {x}) =< Cardinality(Group(seqno))
    BY <2>7, <2>10, FS_Subset
  <2>12. Cardinality(Group(seqno)) \in Nat /\ Cardinality(Running) \in Nat
    BY <2>7, <2>8, FS_CardinalityType
  <2>13. Cardinality(Group(seqno)) > MaxThreads
    BY <2>1, <2>9, <2>11, <2>12, MaxThreadsAssumption
  <2> QED BY <2>1, <2>13
<1>3. ASSUME NEW c \in started, Caller(c)
      PROVE  ExhaustionNeedsBigGroup'
  BY <1>3 DEF Caller, Send, Answered, Failed, handlerVars
<1>4. CASE UNCHANGED vars
  BY <1>4 DEF vars
<1> QED BY <1>1, <1>2, <1>3, <1>4 DEF Next, Handler, Callers, Stop

\* The loop invariant holds in every reachable state.
THEOREM LoopInvariantHolds == Spec => []LoopInvariant
<1>1. Init => LoopInvariant
  BY InitInvariant
<1>2. LoopInvariant /\ [Next]_vars => LoopInvariant'
  BY TypeStep, PoppedStep, PartialStep, AheadStep, RunningStep, ExhaustionStep
     DEF LoopInvariant
<1> QED BY <1>1, <1>2, PTL DEF Spec

\* Type correctness, for every request and every pool.
THEOREM TypeCorrect == Spec => []TypeOK
<1>1. LoopInvariant => TypeOK
  BY DEF LoopInvariant
<1> QED BY <1>1, LoopInvariantHolds, PTL

-----------------------------------------------------------------------------
(* What the loop guarantees.                                                 *)

\* A call that can be on the wire, or be started, has everything of a smaller
\* sequence number behind it.
LEMMA SmallerHaveEnded ==
  ASSUME LoopInvariant, NEW c \in Calls, NEW d \in Calls, Seq(d) < Seq(c),
         c \in started \/ (pc = "copies" /\ c[1] = current)
  PROVE  d \in Ended
<1> USE DEF LoopInvariant
<1>1. /\ c[1] \in DOMAIN attr /\ d[1] \in DOMAIN attr
      /\ Seq(c) \in Int /\ Seq(d) \in Int /\ seqno \in Int
  BY CallParts, AttrFacts, SequencesAssumption DEF Seq, SeqOf, TypeOK
<1>2. d \in started
  <2>1. CASE d[1] \in queue
    <3>1. CASE c \in started
      BY <1>1, <2>1, <3>1 DEF QueueIsAhead, Seq, SeqOf
    <3>2. CASE pc = "copies" /\ c[1] = current
      <4>1. Seq(c) = seqno /\ seqno =< Seq(d)
        BY <2>1, <3>2 DEF CurrentIsTop, QueueIsAhead, InLoop, Seq, SeqOf
      <4> QED BY <1>1, <4>1
    <3> QED BY <3>1, <3>2
  <2>2. CASE d[1] \notin queue
    BY <2>2 DEF PoppedAreStarted
  <2> QED BY <2>1, <2>2
<1>3. ASSUME d \in Running
      PROVE  FALSE
  <2>1. InLoop /\ Seq(d) = seqno
    BY <1>3 DEF RunningIsCurrent
  <2>2. Seq(c) =< seqno
    BY <1>1, <2>1 DEF QueueIsAhead, CurrentIsTop, Seq, SeqOf
  <2> QED BY <1>1, <2>1, <2>2
<1> QED BY <1>2, <1>3 DEF Running

\* The synchronisation point between sequence numbers.
THEOREM SequencePointHolds == Spec => []SequencePoint
<1>1. LoopInvariant => SequencePoint
  <2> SUFFICES ASSUME LoopInvariant, NEW c \in sent, NEW d \in Calls, Seq(d) < Seq(c)
               PROVE  d \in Ended
    BY DEF SequencePoint
  <2>1. c \in Calls /\ c \in started
    BY DEF LoopInvariant, TypeOK
  <2> QED BY <2>1, SmallerHaveEnded
<1> QED BY <1>1, LoopInvariantHolds, PTL

\* Execute leaves the loop only with every copy of every edge made and ended.
THEOREM AllCallsMadeHolds == Spec => []AllCallsMade
<1>1. LoopInvariant => AllCallsMade
  <2> SUFFICES ASSUME LoopInvariant, pc = "after" PROVE Ended = Calls
    BY DEF AllCallsMade
  <2>1. Calls \subseteq started
    BY DEF LoopInvariant, DrainedAfter, PoppedAreStarted
  <2>2. Running = {}
    BY DEF LoopInvariant, RunningIsCurrent, InLoop
  <2> QED BY <2>1, <2>2 DEF LoopInvariant, TypeOK, Running, Ended
<1> QED BY <1>1, LoopInvariantHolds, PTL

\* The pool can only be exhausted by a single sequence larger than it.
THEOREM ExhaustionHolds == Spec => []ExhaustionNeedsBigGroup
<1>1. LoopInvariant => ExhaustionNeedsBigGroup
  BY DEF LoopInvariant
<1> QED BY <1>1, LoopInvariantHolds, PTL

\* The promise speaks of the same calls.
LEMMA SameCalls ==
  /\ Promise!EdgeAttr(Repeats, Sequences) = EdgeAttr(Repeats, Sequences)
  /\ Promise!CallsOf(attr) = CallsOf(attr)
  /\ \A c : Promise!SeqOf(attr, c) = SeqOf(attr, c)
<1>1. \A e : Promise!Copies(attr, e) = Copies(attr, e)
  BY DEF Copies, Promise!Copies
<1> QED BY <1>1 DEF EdgeAttr, Promise!EdgeAttr, CallsOf, Promise!CallsOf, SeqOf, Promise!SeqOf

\* The loop implements what the documentation promises about order: each of
\* its steps makes a call the promise allows, ends one, or is not visible.
THEOREM PromiseKept == Spec => KeepsPromise
<1>1. Init => Promise!Init
  BY SameCalls DEF Init, Promise!Init, Ended
<1>2. LoopInvariant /\ [Next]_vars => [Promise!Next]_(Promise!promiseVars)
  <2> SUFFICES ASSUME LoopInvariant, [Next]_vars
               PROVE  [Promise!Next]_(Promise!promiseVars)
    OBVIOUS
  <2> USE DEF Promise!promiseVars, Ended
  <2>1. CASE BeginSequence \/ LeaveLoop \/ TakeCall \/ NoThread \/ PopCall \/ EndSequence \/ JoinAll
    BY <2>1 DEF BeginSequence, LeaveLoop, TakeCall, NoThread, PopCall, EndSequence, JoinAll, callerVars
  <2>2. CASE StartCopy
    <3> DEFINE x == <<current, copy>>
    <3>1. /\ pc = "copies" /\ copy =< Copies(attr, current)
          /\ started' = started \cup {x} /\ UNCHANGED <<attr, answered, failed>>
      BY <2>2 DEF StartCopy, callerVars
    <3>2. current \in DOMAIN attr /\ copy \in 1 .. Copies(attr, current)
      BY <3>1, AttrFacts DEF LoopInvariant, CurrentIsTop, TypeOK
    <3>3. x \in Calls
      BY <3>2, CallFacts
    <3>4. x \notin started
      BY <3>1, <3>2, AttrFacts DEF LoopInvariant, OnlyCurrentIsPartial, CurrentIsTop, TypeOK
    <3>5. \A d \in Calls : Seq(d) < Seq(x) => d \in Ended
      BY <3>1, <3>3, SmallerHaveEnded
    <3>6. Promise!Make(x)
      BY <3>1, <3>4, <3>5, SameCalls DEF Promise!Make, Calls, Seq
    <3> QED BY <3>3, <3>6, SameCalls DEF Promise!Next, Calls
  <2>3. ASSUME NEW c \in started, Send(c)
        PROVE  UNCHANGED Promise!promiseVars
    BY <2>3 DEF Send, handlerVars
  <2>4. ASSUME NEW c \in started, Answered(c) \/ Failed(c)
        PROVE  Promise!Next
    <3>1. c \in Calls
      BY DEF LoopInvariant, TypeOK
    <3>2. Promise!Finish(c)
      BY <2>4 DEF Answered, Failed, Running, handlerVars, Promise!Finish
    <3> QED BY <3>1, <3>2, SameCalls DEF Promise!Next, Calls
  <2>5. CASE UNCHANGED vars
    BY <2>5 DEF vars
  <2> QED BY <2>1, <2>2, <2>3, <2>4, <2>5 DEF Next, Handler, Callers, Caller, Stop
<1> QED BY <1>1, <1>2, LoopInvariantHolds, PTL DEF Spec, KeepsPromise, Promise!Spec

-----------------------------------------------------------------------------
(* Execute comes to an end: until it has, the handler can go on or a task is *)
(* running, and every step leaves less to do.                                *)

\* What is left for the handler.  Every edge in the queue stands for a round of
\* five steps at most: a sequence that is begun has an edge of that number on top.
Place ==
  CASE pc = "sequence" -> 3
    [] pc = "group" -> IF TopHasSequence(seqno) THEN 2 ELSE 5
    [] pc = "copies" -> 1
    [] pc = "join" -> 4
    [] OTHER -> 0
ToLoop == 5 * Cardinality(queue) + Place

\* What is left of the calls: to start them, to send them, and to end them.
ToStart == Calls \ started
ToSend == Calls \ (sent \cup Ended)
ToEnd == Calls \ Ended
ToCall == Cardinality(ToStart) + Cardinality(ToSend) + Cardinality(ToEnd)

Left == ToLoop + ToCall

\* The sets that are counted are finite.
LEMMA Counted ==
  ASSUME TypeOK
  PROVE  /\ IsFiniteSet(queue) /\ Cardinality(queue) \in Nat
         /\ IsFiniteSet(Calls) /\ IsFiniteSet(ToStart) /\ IsFiniteSet(ToSend) /\ IsFiniteSet(ToEnd)
         /\ Cardinality(ToStart) \in Nat /\ Cardinality(ToSend) \in Nat
         /\ Cardinality(ToEnd) \in Nat
<1>1. IsFiniteSet(queue)
  <2>1. queue \subseteq Edges
    BY AttrFacts DEF TypeOK
  <2> QED BY <2>1, EdgesAssumption, FS_Subset
<1>2. IsFiniteSet(Calls)
  BY CallsFinite DEF TypeOK
<1>3. ToStart \subseteq Calls /\ ToSend \subseteq Calls /\ ToEnd \subseteq Calls
  BY DEF ToStart, ToSend, ToEnd
<1>4. IsFiniteSet(ToStart) /\ IsFiniteSet(ToSend) /\ IsFiniteSet(ToEnd)
  BY <1>2, <1>3, FS_Subset
<1> QED BY <1>1, <1>2, <1>4, FS_CardinalityType

LEMMA LeftIsNatural == LoopInvariant => Left \in Nat
<1> SUFFICES ASSUME LoopInvariant PROVE Left \in Nat
  OBVIOUS
<1>1. Place \in Nat
  BY DEF Place
<1>2. /\ Cardinality(queue) \in Nat /\ Cardinality(ToStart) \in Nat
      /\ Cardinality(ToSend) \in Nat /\ Cardinality(ToEnd) \in Nat
  BY Counted DEF LoopInvariant
<1> QED BY <1>1, <1>2 DEF Left, ToLoop, ToCall

\* A finite set that loses an element loses one of its number.
LEMMA OneLess ==
  ASSUME NEW S, IsFiniteSet(S), NEW T, T \subseteq S, T # S
  PROVE  Cardinality(T) < Cardinality(S)
<1>1. Cardinality(T) <= Cardinality(S) /\ (Cardinality(S) = Cardinality(T) => S = T)
  BY FS_Subset
<1>2. Cardinality(S) \in Nat /\ Cardinality(T) \in Nat
  BY FS_Subset, FS_CardinalityType
<1> QED BY <1>1, <1>2

\* A step of the handler other than starting a copy leaves the calls as they are
\* and the loop nearer to its end.
LEMMA LoopGoesOn ==
  ASSUME LoopInvariant,
         \/ BeginSequence \/ LeaveLoop \/ TakeCall \/ NoThread
         \/ PopCall \/ EndSequence \/ JoinAll
  PROVE  ToLoop' < ToLoop /\ UNCHANGED <<attr, started, sent, answered, failed>>
<1>1. PICK q \in Nat : q = Cardinality(queue) /\ IsFiniteSet(queue)
  BY Counted DEF LoopInvariant
<1>2. UNCHANGED <<attr, started, sent, answered, failed>>
  BY DEF BeginSequence, LeaveLoop, TakeCall, NoThread, PopCall, EndSequence, JoinAll, callerVars
<1>3. CASE BeginSequence
  <2>1. PICK e \in Top : seqno' = attr[e].sequence
    BY <1>3 DEF BeginSequence
  <2>2. UNCHANGED <<attr, queue>> /\ pc = "sequence" /\ pc' = "group"
    BY <1>3 DEF BeginSequence
  <2>3. TopHasSequence(seqno)'
    BY <2>1, <2>2 DEF TopHasSequence, Top
  <2>4. Place = 3 /\ Place' = 2
    BY <2>2, <2>3 DEF Place
  <2>5. ToLoop = 5 * q + 3 /\ ToLoop' = 5 * q + 2
    BY <1>1, <2>2, <2>4 DEF ToLoop
  <2> QED BY <1>1, <1>2, <2>5
<1>4. CASE LeaveLoop
  <2>1. queue' = queue /\ Place = 3 /\ Place' = 0
    BY <1>4 DEF LeaveLoop, Place
  <2>2. ToLoop = 5 * q + 3 /\ ToLoop' = 5 * q + 0
    BY <1>1, <2>1 DEF ToLoop
  <2> QED BY <1>1, <1>2, <2>2
<1>5. CASE TakeCall
  <2>1. queue' = queue /\ Place = 2 /\ Place' = 1
    BY <1>5 DEF TakeCall, Place
  <2>2. ToLoop = 5 * q + 2 /\ ToLoop' = 5 * q + 1
    BY <1>1, <2>1 DEF ToLoop
  <2> QED BY <1>1, <1>2, <2>2
<1>6. CASE NoThread
  <2>1. queue' = queue /\ Place = 1 /\ Place' = 0
    BY <1>6 DEF NoThread, Place
  <2>2. ToLoop = 5 * q + 1 /\ ToLoop' = 5 * q + 0
    BY <1>1, <2>1 DEF ToLoop
  <2> QED BY <1>1, <1>2, <2>2
<1>7. CASE PopCall
  <2>1. queue' = queue \ {current} /\ Place = 1 /\ Place' \in {2, 5} /\ pc = "copies"
    BY <1>7 DEF PopCall, Place
  <2>2. current \in queue
    BY <2>1 DEF LoopInvariant, CurrentIsTop
  <2>3. Cardinality(queue') = q - 1
    BY <1>1, <2>1, <2>2, FS_RemoveElement
  <2>4. ToLoop = 5 * q + 1 /\ ToLoop' = 5 * (q - 1) + Place'
    BY <1>1, <2>1, <2>3 DEF ToLoop
  <2> QED BY <1>1, <1>2, <2>1, <2>4
<1>8. CASE EndSequence
  <2>1. queue' = queue /\ Place = 5 /\ Place' = 4
    BY <1>8 DEF EndSequence, Place
  <2>2. ToLoop = 5 * q + 5 /\ ToLoop' = 5 * q + 4
    BY <1>1, <2>1 DEF ToLoop
  <2> QED BY <1>1, <1>2, <2>2
<1>9. CASE JoinAll
  <2>1. queue' = queue /\ Place = 4 /\ Place' = 3
    BY <1>9 DEF JoinAll, Place
  <2>2. ToLoop = 5 * q + 4 /\ ToLoop' = 5 * q + 3
    BY <1>1, <2>1 DEF ToLoop
  <2> QED BY <1>1, <1>2, <2>2
<1> QED BY <1>3, <1>4, <1>5, <1>6, <1>7, <1>8, <1>9

\* A call that is started, sent or ended leaves less of the calls.
LEMMA CallsGoOn ==
  ASSUME TypeOK, ToStart' \subseteq ToStart, ToSend' \subseteq ToSend, ToEnd' \subseteq ToEnd,
         ToStart' # ToStart \/ ToSend' # ToSend \/ ToEnd' # ToEnd
  PROVE  ToCall' < ToCall
<1> DEFINE a == Cardinality(ToStart)
           b == Cardinality(ToSend)
           c == Cardinality(ToEnd)
<1>1. a \in Nat /\ b \in Nat /\ c \in Nat
  BY Counted
<1>2. /\ Cardinality(ToStart') \in Nat /\ Cardinality(ToSend') \in Nat
      /\ Cardinality(ToEnd') \in Nat
      /\ Cardinality(ToStart') <= a /\ Cardinality(ToSend') <= b /\ Cardinality(ToEnd') <= c
  BY Counted, FS_Subset, FS_CardinalityType
<1>3. \/ Cardinality(ToStart') < a \/ Cardinality(ToSend') < b \/ Cardinality(ToEnd') < c
  BY Counted, OneLess
<1>4. ToCall = a + b + c
      /\ ToCall' = Cardinality(ToStart') + Cardinality(ToSend') + Cardinality(ToEnd')
  BY DEF ToCall
<1> HIDE DEF a, b, c
<1> QED BY <1>1, <1>2, <1>3, <1>4

LEMMA SmallerSum ==
  ASSUME NEW a \in Nat, NEW b \in Nat, NEW c \in Nat, NEW d \in Nat,
         \/ a < c /\ b = d
         \/ a = c /\ b < d
  PROVE  a + b < c + d
OBVIOUS

LEMMA EveryStepCounts == LoopInvariant /\ (Handler \/ Callers) => Left' < Left
<1> SUFFICES ASSUME LoopInvariant, Handler \/ Callers PROVE Left' < Left
  OBVIOUS
<1>1. /\ Cardinality(queue) \in Nat /\ Cardinality(ToStart) \in Nat
      /\ Cardinality(ToSend) \in Nat /\ Cardinality(ToEnd) \in Nat
      /\ Place \in Nat /\ Place' \in Nat
  BY Counted DEF LoopInvariant, Place
<1>2. ToLoop \in Nat /\ ToCall \in Nat
  BY <1>1 DEF ToLoop, ToCall
<1>3. TypeOK
  BY DEF LoopInvariant
<1>4. CASE \/ BeginSequence \/ LeaveLoop \/ TakeCall \/ NoThread
           \/ PopCall \/ EndSequence \/ JoinAll
  <2>1. ToLoop' < ToLoop /\ UNCHANGED <<attr, started, sent, answered, failed>>
    BY <1>4, LoopGoesOn
  <2>2. ToCall' = ToCall
    BY <2>1 DEF ToCall, ToStart, ToSend, ToEnd, Calls, Ended
  <2>3. Cardinality(queue') \in Nat
    <3>1. queue' \subseteq queue
      BY <1>4 DEF BeginSequence, LeaveLoop, TakeCall, NoThread, PopCall, EndSequence, JoinAll
    <3> QED BY <1>3, <3>1, Counted, FS_Subset, FS_CardinalityType
  <2>4. ToLoop' \in Nat
    BY <1>1, <2>3 DEF ToLoop
  <2>5. ToLoop' + ToCall' < ToLoop + ToCall
    BY <1>2, <2>1, <2>2, <2>4, SmallerSum
  <2>6. Left' = ToLoop' + ToCall' /\ Left = ToLoop + ToCall
    BY DEF Left
  <2> QED BY <2>5, <2>6
<1>5. ASSUME ToLoop' = ToLoop, ToCall' < ToCall, ToCall' \in Nat PROVE Left' < Left
  <2>1. ToLoop' + ToCall' < ToLoop + ToCall
    BY <1>2, <1>5, SmallerSum
  <2>2. Left' = ToLoop' + ToCall' /\ Left = ToLoop + ToCall
    BY DEF Left
  <2> QED BY <2>1, <2>2
<1>6. ASSUME ToStart' \subseteq ToStart, ToSend' \subseteq ToSend, ToEnd' \subseteq ToEnd
      PROVE  ToCall' \in Nat
  <2>1. /\ Cardinality(ToStart') \in Nat /\ Cardinality(ToSend') \in Nat
        /\ Cardinality(ToEnd') \in Nat
    BY <1>3, <1>6, Counted, FS_Subset, FS_CardinalityType
  <2> QED BY <2>1 DEF ToCall
<1>7. CASE StartCopy
  <2> DEFINE x == <<current, copy>>
  <2>1. /\ pc = "copies" /\ copy =< Copies(attr, current) /\ started' = started \cup {x}
        /\ UNCHANGED <<attr, queue, seqno, pc, sent, answered, failed>>
    BY <1>7 DEF StartCopy, callerVars
  <2>2. current \in DOMAIN attr /\ copy \in 1 .. Copies(attr, current)
    BY <2>1, AttrFacts DEF LoopInvariant, CurrentIsTop, TypeOK
  <2>3. x \in Calls
    BY <2>2, CallFacts
  <2>4. x \notin started
    BY <2>1, <2>2, AttrFacts DEF LoopInvariant, OnlyCurrentIsPartial, CurrentIsTop, TypeOK
  <2>5. x \in ToStart /\ x \notin ToStart' /\ ToStart' \subseteq ToStart
    BY <2>1, <2>3, <2>4 DEF ToStart, Calls
  <2>6. ToSend' = ToSend /\ ToEnd' = ToEnd
    BY <2>1 DEF ToSend, ToEnd, Calls, Ended
  <2>7. ToLoop' = ToLoop
    BY <2>1 DEF ToLoop, Place, TopHasSequence, Top
  <2>8. ToCall' < ToCall
    BY <1>3, <2>5, <2>6, CallsGoOn
  <2> QED BY <1>5, <1>6, <2>5, <2>6, <2>7, <2>8
<1>8. ASSUME NEW c \in started, Caller(c) PROVE Left' < Left
  <2>1. c \in Calls
    BY <1>3 DEF TypeOK
  <2>2. UNCHANGED <<attr, queue, seqno, pc, started>>
    BY <1>8 DEF Caller, Send, Answered, Failed, handlerVars
  <2>3. ToLoop' = ToLoop /\ ToStart' = ToStart
    BY <2>2 DEF ToLoop, Place, TopHasSequence, Top, ToStart, Calls
  <2>4. /\ ToSend' \subseteq ToSend /\ ToEnd' \subseteq ToEnd
        /\ ToSend' # ToSend \/ ToEnd' # ToEnd
    <3>1. CASE Send(c)
      <4>1. c \in ToSend /\ c \notin ToSend' /\ ToSend' \subseteq ToSend /\ ToEnd' = ToEnd
        BY <2>1, <2>2, <3>1 DEF Send, Running, ToSend, ToEnd, Ended, Calls, handlerVars
      <4> QED BY <4>1
    <3>2. CASE Answered(c) \/ Failed(c)
      <4>1. c \in ToEnd /\ c \notin ToEnd' /\ ToSend' \subseteq ToSend /\ ToEnd' \subseteq ToEnd
        BY <2>1, <2>2, <3>2 DEF Answered, Failed, Running, ToSend, ToEnd, Ended, Calls, handlerVars
      <4> QED BY <4>1
    <3> QED BY <1>8, <3>1, <3>2 DEF Caller
  <2>5. ToCall' < ToCall
    BY <1>3, <2>3, <2>4, CallsGoOn
  <2> QED BY <1>5, <1>6, <2>3, <2>4, <2>5
<1> QED BY <1>4, <1>7, <1>8 DEF Handler, Callers

\* Every step of the handler or of a caller leaves less to do than there was, so
\* the loop over the queue and the tasks of the pool come to an end, whatever
\* the edges repeat and however calls end.
THEOREM LeftDecreases == Spec => [](Left \in Nat) /\ [][Left' < Left]_vars
<1>1. LoopInvariant /\ [Next]_vars => [Left' < Left]_vars
  <2> SUFFICES ASSUME LoopInvariant, Next, ~UNCHANGED vars PROVE Left' < Left
    OBVIOUS
  <2> QED BY EveryStepCounts DEF Next, Stop
<1> QED BY <1>1, LeftIsNatural, LoopInvariantHolds, PTL DEF Spec

\* Some edge in the queue is at its top: the sets of the edges that come before
\* an edge are finite, and strict inclusion is well-founded on them.
LEMMA SomeOnTop ==
  ASSUME TypeOK, queue # {}
  PROVE  Top # {}
<1> DEFINE Before(e) == {f \in queue : attr[f].sequence < attr[e].sequence}
           W == {Before(e) : e \in queue}
<1>1. IsFiniteSet(queue) /\ \A e \in queue : attr[e].sequence \in Int
  <2>1. queue \subseteq DOMAIN attr
    BY DEF TypeOK
  <2> QED BY <2>1, Counted, AttrFacts DEF TypeOK
<1>2. W \in SUBSET FiniteSubsetsOf(queue) /\ W # {}
  <2>1. \A e \in queue : IsFiniteSet(Before(e)) /\ Before(e) \subseteq queue
    BY <1>1, FS_Subset
  <2>2. W \in SUBSET FiniteSubsetsOf(queue)
    BY <2>1 DEF FiniteSubsetsOf
  <2>3. PICK e \in queue : TRUE
    OBVIOUS
  <2>4. Before(e) \in W
    OBVIOUS
  <2> HIDE DEF W
  <2> QED BY <2>2, <2>4
<1>3. PICK x \in W : \A y \in W : ~ (<<y, x>> \in StrictSubsetOrdering(queue))
  <2> HIDE DEF W
  <2> QED BY <1>1, <1>2, WFMin, FS_StrictSubsetOrderingWellFounded
<1>4. PICK e \in queue : x = Before(e)
  OBVIOUS
<1>5. ASSUME NEW f \in queue, ~(attr[e].sequence =< attr[f].sequence) PROVE FALSE
  <2>1. f \in Before(e) /\ f \notin Before(f) /\ Before(f) \subseteq Before(e)
    BY <1>1, <1>5
  <2>2. Before(e) \in SUBSET queue /\ Before(f) \in SUBSET queue /\ Before(f) \in W
    OBVIOUS
  <2> HIDE DEF Before, W
  <2>3. <<Before(f), Before(e)>> \in StrictSubsetOrdering(queue)
    BY <2>1, <2>2 DEF StrictSubsetOrdering
  <2> QED BY <1>3, <1>4, <2>2, <2>3
<1> QED BY <1>4, <1>5 DEF Top

\* The handler's next step does not wait for anything.
Goes ==
  \/ pc = "sequence" /\ (queue = {} \/ Top # {})
  \/ pc = "group" /\ (TopHasSequence(seqno) => Top # {})
  \/ pc = "copies"
  \/ pc = "join" /\ Running = {}

\* While Execute has not ended, the handler can go on or a task is running, and
\* a running task can always fail: nobody waits for anybody in a circle.
NeverStuck == Quiet \/ Running # {} \/ Goes

THEOREM NeverStuckHolds == Spec => []NeverStuck
<1>1. LoopInvariant => NeverStuck
  <2> SUFFICES ASSUME LoopInvariant, ~Quiet, Running = {} PROVE Goes
    BY DEF NeverStuck
  <2>1. pc \in {"sequence", "group", "copies", "join"} /\ TypeOK
    BY DEF LoopInvariant, TypeOK, Quiet
  <2>2. CASE pc = "sequence"
    BY <2>1, <2>2, SomeOnTop DEF Goes
  <2>3. CASE pc = "group"
    BY <2>3 DEF Goes, TopHasSequence
  <2> QED BY <2>1, <2>2, <2>3 DEF Goes
<1> QED BY <1>1, LoopInvariantHolds, PTL
=============================================================================
