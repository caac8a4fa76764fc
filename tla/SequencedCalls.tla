--------------------------- MODULE SequencedCalls ---------------------------
(****************************************************************************)
(* What a request promises about its downstream calls, as the documentation  *)
(* states it: calls of one sequence number are made in parallel, in any      *)
(* order, and a synchronisation point separates successive sequence numbers. *)
(* Every copy of every edge is made at most once.  Nothing is said of how    *)
(* calls are queued, which thread makes them or how one ends.                *)
(****************************************************************************)
EXTENDS EdgeCalls

CONSTANTS Edges,      \* the edge statements a request may hold
          Repeats,    \* the repetition counts it may give them
          Sequences   \* the sequence numbers it may give them

VARIABLES attr,       \* the edges of this request and their attributes
          made,       \* the calls handed to a thread so far
          done        \* the calls that came to an end

promiseVars == <<attr, made, done>>

Init == /\ attr \in UNION {[E -> EdgeAttr(Repeats, Sequences)] : E \in SUBSET Edges}
        /\ made = {}
        /\ done = {}

Make(c) == /\ c \notin made
           /\ \A d \in CallsOf(attr) : SeqOf(attr, d) < SeqOf(attr, c) => d \in done
           /\ made' = made \cup {c}
           /\ UNCHANGED <<attr, done>>

Finish(c) == /\ c \in made \ done
             /\ done' = done \cup {c}
             /\ UNCHANGED <<attr, made>>

Next == \E c \in CallsOf(attr) : Make(c) \/ Finish(c)

Spec == Init /\ [][Next]_promiseVars
=============================================================================
