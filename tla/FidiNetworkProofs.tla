-------------------------- MODULE FidiNetworkProofs --------------------------
(****************************************************************************)
(* Proofs about FidiNetwork, for every forest of calls, any number of        *)
(* instances and any limits.                                                 *)
(****************************************************************************)
EXTENDS FidiNetwork, FiniteSetTheorems, TLAPS

-----------------------------------------------------------------------------
(* The forest.                                                               *)

LEMMA ForestFacts ==
  ASSUME forest \in Forests
  PROVE  /\ IsFiniteSet(Calls)
         /\ \A c \in Calls : /\ c \in Nat \ {0} /\ Node(c) \in Nodes
                             /\ Parent(c) \in 0 .. c - 1
                             /\ Parent(c) # 0 => Parent(c) \in Calls
                             /\ forest.seq[c] \in Int
<1>1. PICK n \in 0 .. MaxCalls :
        /\ Calls = 1 .. n /\ \A c \in 1 .. n : Parent(c) \in 0 .. c - 1
        /\ forest.seq \in [1 .. n -> Int]
        /\ forest.node \in [1 .. n -> Nodes]
  BY ForestAssumption DEF Calls, Parent
<1>2. n \in Nat
  BY <1>1, LimitsAssumption
<1>3. IsFiniteSet(Calls)
  <2>1. IsFiniteSet(1 .. n)
    BY <1>2, FS_Interval
  <2> QED BY <1>1, <2>1
<1>4. ASSUME NEW c \in 1 .. n
      PROVE  /\ c \in Nat \ {0} /\ Node(c) \in Nodes /\ forest.seq[c] \in Int
             /\ Parent(c) \in 0 .. c - 1 /\ (Parent(c) # 0 => Parent(c) \in 1 .. n)
  <2>1. c \in Nat \ {0} /\ Parent(c) \in 0 .. c - 1
    BY <1>1, <1>2
  <2>2. Parent(c) # 0 => Parent(c) \in 1 .. n
    BY <1>2, <2>1
  <2>3. Node(c) \in Nodes /\ forest.seq[c] \in Int
    BY <1>1 DEF Node
  <2> QED BY <2>1, <2>2, <2>3
<1> QED BY <1>1, <1>3, <1>4

LEMMA KidFacts ==
  ASSUME forest \in Forests, NEW c \in Calls, NEW k \in Kids(c)
  PROVE  k \in Calls /\ k # c /\ Parent(k) = c /\ c # 0
BY ForestFacts DEF Kids

-----------------------------------------------------------------------------
(* Types.                                                                    *)

States == {"unmade", "queued", "running", "silent", "answered", "ended", "refused", "lost"}

\* No connection is in a queue twice: that is what keeps those behind the head
\* queued when a worker takes it up.
TypeInv ==
  /\ TypeOK
  /\ queue \in [Nodes -> Seq(Calls)]
  /\ \A n \in Nodes : \A i, j \in DOMAIN queue[n] : queue[n][i] = queue[n][j] => i = j

LEMMA BusyFinite ==
  ASSUME forest \in Forests, NEW n
  PROVE  IsFiniteSet(Busy(n)) /\ Cardinality(Busy(n)) \in Nat
<1>1. Busy(n) \subseteq Calls
  BY DEF Busy
<1> QED BY <1>1, ForestFacts, FS_Subset, FS_CardinalityType

LEMMA InitType == Init => TypeInv
<1> SUFFICES ASSUME Init PROVE TypeInv
  OBVIOUS
<1>1. queue \in [Nodes -> Seq(Calls)]
  BY DEF Init
<1>2. ASSUME NEW n \in Nodes
      PROVE  Len(queue[n]) = 0 /\ Cardinality(Busy(n)) = 0
  <2>1. Busy(n) = {}
    BY DEF Init, Busy, Idle
  <2> QED BY <2>1, FS_EmptySet DEF Init
<1> QED BY <1>1, <1>2, LimitsAssumption DEF Init, TypeInv, TypeOK, States

\* What the actions that leave the queues alone have to show.
LEMMA StateOnly ==
  ASSUME TypeInv, NEW c \in Calls, NEW s \in {"silent", "answered", "ended", "lost"},
         state[c] = "running" \/ Idle(c), Become(c, s),
         UNCHANGED <<forest, queue, returned, gaveUp, down, crashes>>
  PROVE  TypeInv'
<1>1. state' \in [Calls' -> States]
  BY DEF TypeInv, TypeOK, Become, States, Calls
<1>2. ASSUME NEW n \in Nodes
      PROVE  Cardinality(Busy(n)') =< Workers
  <2>1. Busy(n)' \subseteq Busy(n)
    BY DEF Busy, Idle, Become, TypeInv, TypeOK, Calls, Node
  <2>2. Cardinality(Busy(n)') =< Cardinality(Busy(n))
    BY <2>1, BusyFinite, FS_Subset DEF TypeInv, TypeOK
  <2>3. Busy(n)' \subseteq Calls
    BY <2>1 DEF Busy
  <2>4. Cardinality(Busy(n)') \in Nat
    BY <2>3, ForestFacts, FS_Subset, FS_CardinalityType DEF TypeInv, TypeOK
  <2> QED BY <2>2, <2>4, BusyFinite, LimitsAssumption DEF TypeInv, TypeOK
<1>3. ASSUME NEW n \in Nodes, NEW i \in DOMAIN queue[n]
      PROVE  Node(queue[n][i])' = n /\ state'[queue[n][i]] = "queued"
  <2>1. queue[n][i] \in Calls /\ queue[n][i] # c
    BY DEF TypeInv, TypeOK, Idle
  <2> QED BY <2>1 DEF TypeInv, TypeOK, Become, Node
<1>4. ASSUME NEW d \in Calls, Made(d) PROVE Made(d)'
  <2>1. state \in [Calls -> States]
    BY DEF TypeInv, TypeOK, States
  <2> QED BY <1>4, <2>1 DEF Made, Become
<1> QED BY <1>1, <1>2, <1>3, <1>4 DEF TypeInv, TypeOK, States, Calls, Node

\* A connection joins a queue, or does not find room.
LEMMA CallType ==
  ASSUME TypeInv, NEW c \in Calls, Call(c)
  PROVE  TypeInv'
<1> DEFINE m == Node(c)
<1>1. m \in Nodes /\ state \in [Calls -> States] /\ queue \in [Nodes -> Seq(Calls)]
      /\ forest \in Forests
  BY ForestFacts DEF TypeInv, TypeOK, States
<1>2. state[c] = "unmade" /\ UNCHANGED <<forest, returned, gaveUp, down, crashes>>
  BY DEF Call, CanCall, Made
<1>3. PICK s \in {"queued", "refused"} :
        /\ state' = [state EXCEPT ![c] = s]
        /\ \/ queue' = queue
           \/ queue' = [queue EXCEPT ![m] = Append(@, c)] /\ s = "queued" /\ HasRoom(m)
  BY DEF Call, Become
<1>4. state' \in [Calls' -> States]
  BY <1>1, <1>2, <1>3 DEF States, Calls
<1>5. ASSUME NEW n \in Nodes PROVE Cardinality(Busy(n)') =< Workers
  <2>1. Busy(n)' = Busy(n)
    BY <1>1, <1>2, <1>3 DEF Busy, Idle, Calls, Node
  <2> QED BY <2>1 DEF TypeInv, TypeOK
<1>6. \A d \in Calls : Made(d) => Made(d)'
  BY <1>1, <1>2, <1>3 DEF Made
<1>7. \A n \in Nodes : \A i \in DOMAIN queue[n] : queue[n][i] \in Calls /\ queue[n][i] # c
  BY <1>1, <1>2 DEF TypeInv, TypeOK
<1>8. CASE queue' = queue
  BY <1>1, <1>2, <1>3, <1>4, <1>5, <1>6, <1>7, <1>8
     DEF TypeInv, TypeOK, States, Calls, Node
<1>9. CASE queue' = [queue EXCEPT ![m] = Append(@, c)] /\ s = "queued" /\ HasRoom(m)
  <2>1. queue' \in [Nodes -> Seq(Calls)]
    BY <1>1, <1>9
  <2>2. ASSUME NEW n \in Nodes, n # m PROVE queue'[n] = queue[n]
    BY <1>1, <1>9, <2>2
  <2>3. /\ Len(queue'[m]) = Len(queue[m]) + 1 /\ Len(queue[m]) \in Nat
        /\ DOMAIN queue[m] = 1 .. Len(queue[m])
        /\ DOMAIN queue'[m] = 1 .. Len(queue[m]) + 1
        /\ \A i \in DOMAIN queue[m] : queue'[m][i] = queue[m][i]
        /\ queue'[m][Len(queue[m]) + 1] = c
    BY <1>1, <1>9
  <2>4. Len(queue'[m]) =< QueueLimit
    BY <2>3, <1>9, LimitsAssumption DEF HasRoom
  <2>5. ASSUME NEW n \in Nodes, NEW i \in DOMAIN queue'[n]
        PROVE  (Node(queue[n][i]) = n /\ state[queue[n][i]] = "queued")'
    <3>1. CASE n = m /\ i = Len(queue[m]) + 1
      BY <1>1, <1>2, <1>3, <1>9, <2>3, <3>1 DEF Node
    <3>2. CASE ~(n = m /\ i = Len(queue[m]) + 1)
      <4>1. i \in DOMAIN queue[n] /\ queue'[n][i] = queue[n][i]
        BY <2>2, <2>3, <3>2
      <4>2. Node(queue[n][i]) = n /\ state[queue[n][i]] = "queued"
        BY <4>1 DEF TypeInv, TypeOK
      <4> QED BY <1>1, <1>2, <1>3, <1>7, <4>1, <4>2 DEF Node
    <3> QED BY <3>1, <3>2
  <2>6. ASSUME NEW n \in Nodes, NEW i \in DOMAIN queue'[n], NEW j \in DOMAIN queue'[n],
               queue'[n][i] = queue'[n][j]
        PROVE  i = j
    <3>1. CASE n # m
      BY <2>2, <2>6, <3>1 DEF TypeInv
    <3>2. CASE n = m
      <4> DEFINE l == Len(queue[m])
      <4>1. i \in 1 .. l + 1 /\ j \in 1 .. l + 1 /\ l \in Nat
        BY <2>3, <3>2
      <4>2. \A h \in 1 .. l : queue'[m][h] = queue[m][h] /\ queue[m][h] # c
        BY <1>1, <1>7, <2>3
      <4>3. CASE i = l + 1 \/ j = l + 1
        BY <2>3, <2>6, <3>2, <4>1, <4>2, <4>3
      <4>4. CASE i # l + 1 /\ j # l + 1
        <5>1. i \in DOMAIN queue[m] /\ j \in DOMAIN queue[m] /\ queue[m][i] = queue[m][j]
          BY <2>3, <2>6, <3>2, <4>1, <4>2, <4>4
        <5> QED BY <1>1, <5>1 DEF TypeInv
      <4> QED BY <4>3, <4>4
    <3> QED BY <3>1, <3>2, Zenon
  <2>7. ASSUME NEW n \in Nodes PROVE queue'[n] \in Seq(Calls) /\ Len(queue'[n]) =< QueueLimit
    BY <2>1, <2>2, <2>4 DEF TypeInv, TypeOK
  <2>8. Calls' = Calls
    BY <1>2 DEF Calls
  <2>9. TypeOK'
    BY <1>2, <1>4, <1>5, <1>6, <2>5, <2>7, <2>8 DEF TypeInv, TypeOK, States
  <2>10. \A n \in Nodes : \A i, j \in DOMAIN queue'[n] : queue'[n][i] = queue'[n][j] => i = j
    BY <2>6, Zenon
  <2> QED BY <2>1, <2>8, <2>9, <2>10, Zenon DEF TypeInv
<1> QED BY <1>3, <1>8, <1>9

\* The head of a queue gets a worker.
LEMMA PickUpType ==
  ASSUME TypeInv, NEW m \in Nodes, PickUp(m)
  PROVE  TypeInv'
<1> DEFINE c == Head(queue[m])
<1>1. /\ state \in [Calls -> States] /\ queue \in [Nodes -> Seq(Calls)]
      /\ forest \in Forests /\ queue[m] # <<>>
      /\ UNCHANGED <<forest, returned, gaveUp, down, crashes>>
  BY DEF TypeInv, TypeOK, States, PickUp, CanPickUp
<1>2. /\ Len(queue[m]) \in Nat \ {0} /\ c = queue[m][1]
      /\ DOMAIN queue[m] = 1 .. Len(queue[m])
  BY <1>1
<1>3. c \in Calls /\ Node(c) = m /\ state[c] = "queued"
  BY <1>1, <1>2 DEF TypeInv, TypeOK
<1>4. /\ state' = [state EXCEPT ![c] = "running"]
      /\ queue' = [queue EXCEPT ![m] = Tail(@)]
  BY DEF PickUp, Become
<1>5. state' \in [Calls' -> States]
  BY <1>1, <1>4 DEF States, Calls
<1>6. queue' \in [Nodes -> Seq(Calls)]
  BY <1>1, <1>4
<1>7. /\ Len(queue'[m]) = Len(queue[m]) - 1
      /\ DOMAIN queue'[m] = 1 .. Len(queue[m]) - 1
      /\ \A i \in 1 .. Len(queue[m]) - 1 : queue'[m][i] = queue[m][i + 1]
  BY <1>1, <1>2, <1>4
<1>8. \A n \in Nodes : n # m => queue'[n] = queue[n]
  BY <1>1, <1>4
<1>9. ASSUME NEW n \in Nodes PROVE Cardinality(Busy(n)') =< Workers
  <2>1. CASE n = m
    <3>1. Busy(n)' = Busy(n) \cup {c}
      BY <1>1, <1>3, <1>4, <2>1 DEF Busy, Idle, Calls, Node
    <3>2. c \notin Busy(n)
      BY <1>3 DEF Busy, Idle
    <3>3. Cardinality(Busy(n) \cup {c}) = Cardinality(Busy(n)) + 1
      BY <1>1, <3>2, BusyFinite, FS_AddElement
    <3>4. Cardinality(Busy(n)) < Workers
      BY <2>1 DEF PickUp, CanPickUp
    <3> QED BY <1>1, <3>1, <3>3, <3>4, BusyFinite, LimitsAssumption
  <2>2. CASE n # m
    <3>1. Busy(n)' = Busy(n)
      BY <1>1, <1>3, <1>4, <2>2 DEF Busy, Idle, Calls, Node
    <3> QED BY <3>1 DEF TypeInv, TypeOK
  <2> QED BY <2>1, <2>2
<1>10. \A d \in Calls : Made(d) => Made(d)'
  BY <1>1, <1>3, <1>4 DEF Made
\* What is now at i was there, or one further back, before.
<1>11. ASSUME NEW n \in Nodes, NEW i \in DOMAIN queue'[n]
       PROVE  \E h \in DOMAIN queue[n] : /\ queue'[n][i] = queue[n][h]
                                         /\ h = IF n = m THEN i + 1 ELSE i
  <2>1. CASE n = m
    <3>1. i \in 1 .. Len(queue[m]) - 1
      BY <1>7, <2>1
    <3>2. i + 1 \in DOMAIN queue[m] /\ queue'[m][i] = queue[m][i + 1]
      BY <1>2, <1>7, <3>1
    <3> QED BY <2>1, <3>2
  <2>2. CASE n # m
    BY <1>8, <2>2
  <2> QED BY <2>1, <2>2
<1>12. ASSUME NEW n \in Nodes, NEW i \in DOMAIN queue'[n]
       PROVE  (Node(queue[n][i]) = n /\ state[queue[n][i]] = "queued")'
  <2>1. PICK h \in DOMAIN queue[n] : /\ queue'[n][i] = queue[n][h]
                                     /\ h = IF n = m THEN i + 1 ELSE i
    BY <1>11
  <2>2. /\ queue[n][h] \in Calls /\ Node(queue[n][h]) = n
        /\ state[queue[n][h]] = "queued"
    BY <1>1 DEF TypeInv, TypeOK
  <2>3. queue[n][h] # c
    <3>1. CASE n = m
      <4>1. i \in Nat \ {0} /\ h = i + 1
        BY <1>2, <1>7, <2>1, <3>1
      <4>2. 1 \in DOMAIN queue[m] /\ h \in DOMAIN queue[m] /\ h # 1
        BY <1>2, <4>1, <3>1
      <4> QED BY <1>2, <3>1, <4>2 DEF TypeInv
    <3>2. CASE n # m
      BY <1>3, <2>2, <3>2
    <3> QED BY <3>1, <3>2
  <2> QED BY <1>1, <1>3, <1>4, <2>1, <2>2, <2>3 DEF Node
<1>13. ASSUME NEW n \in Nodes, NEW i \in DOMAIN queue'[n], NEW j \in DOMAIN queue'[n],
              queue'[n][i] = queue'[n][j]
       PROVE  i = j
  <2>1. CASE n = m
    <3>1. /\ i \in Nat /\ j \in Nat /\ i + 1 \in DOMAIN queue[m] /\ j + 1 \in DOMAIN queue[m]
          /\ queue[m][i + 1] = queue[m][j + 1]
      <4>1. i \in 1 .. Len(queue[m]) - 1 /\ j \in 1 .. Len(queue[m]) - 1
        BY <1>7, <2>1
      <4>2. queue[m][i + 1] = queue'[m][i] /\ queue[m][j + 1] = queue'[m][j]
        BY <1>7, <4>1
      <4> QED BY <1>2, <1>13, <2>1, <4>1, <4>2
    <3>2. i + 1 = j + 1
      BY <3>1 DEF TypeInv
    <3> QED BY <3>1, <3>2
  <2>2. CASE n # m
    BY <1>8, <1>13, <2>2 DEF TypeInv
  <2> QED BY <2>1, <2>2, Zenon
<1>14. ASSUME NEW n \in Nodes PROVE queue'[n] \in Seq(Calls) /\ Len(queue'[n]) =< QueueLimit
  <2>1. CASE n = m
    BY <1>2, <1>6, <1>7, <2>1, LimitsAssumption DEF TypeInv, TypeOK
  <2>2. CASE n # m
    BY <1>6, <1>8, <2>2 DEF TypeInv, TypeOK
  <2> QED BY <2>1, <2>2
<1>15. Calls' = Calls
  BY <1>1 DEF Calls
<1>16. TypeOK'
  BY <1>1, <1>5, <1>9, <1>10, <1>12, <1>14, <1>15 DEF TypeInv, TypeOK, States
<1>17. \A n \in Nodes : \A i, j \in DOMAIN queue'[n] : queue'[n][i] = queue'[n][j] => i = j
  BY <1>13, Zenon
<1> QED BY <1>6, <1>15, <1>16, <1>17, Zenon DEF TypeInv

LEMMA CrashType ==
  ASSUME TypeInv, NEW m \in Nodes, Crash(m)
  PROVE  TypeInv'
<1>1. /\ state \in [Calls -> States] /\ queue \in [Nodes -> Seq(Calls)]
      /\ forest \in Forests /\ crashes \in 0 .. MaxCrashes
      /\ UNCHANGED <<forest, returned, gaveUp>>
      /\ queue' = [queue EXCEPT ![m] = <<>>]
      /\ down' \subseteq Nodes
  BY DEF TypeInv, TypeOK, States, Crash
<1>2. crashes' \in 0 .. MaxCrashes
  BY <1>1, LimitsAssumption DEF Crash
<1>3. state' \in [Calls' -> States]
  BY <1>1 DEF States, Calls, Crash
<1>4. \A d \in Calls : Node(d) # m \/ ~(Pending(d) \/ Idle(d)) => state'[d] = state[d]
  BY <1>1 DEF Crash, Pending, Idle
<1>5. \A d \in Calls : Node(d) = m => state'[d] \notin {"queued", "running", "silent", "answered"}
  BY <1>1 DEF Crash, Pending, Idle
<1>6. \A d \in Calls : Made(d) => Made(d)'
  BY <1>1 DEF Crash, Pending, Idle, Made
<1>7. queue' \in [Nodes -> Seq(Calls)] /\ queue'[m] = <<>>
      /\ \A n \in Nodes : n # m => queue'[n] = queue[n]
  BY <1>1
<1>8. ASSUME NEW n \in Nodes
      PROVE  Cardinality(Busy(n)') =< Workers /\ Len(queue'[n]) =< QueueLimit
  <2>1. CASE n = m
    <3>1. Busy(n)' = {}
      BY <1>1, <1>5, <2>1 DEF Busy, Idle, Calls, Node
    <3> QED BY <1>7, <2>1, <3>1, FS_EmptySet, LimitsAssumption
  <2>2. CASE n # m
    <3>1. Busy(n)' = Busy(n)
      BY <1>1, <1>4, <2>2 DEF Busy, Idle, Calls, Node
    <3> QED BY <1>7, <2>2, <3>1 DEF TypeInv, TypeOK
  <2> QED BY <2>1, <2>2
<1>9. ASSUME NEW n \in Nodes, NEW i \in DOMAIN queue'[n]
      PROVE  /\ n # m /\ i \in DOMAIN queue[n] /\ queue'[n] = queue[n]
             /\ (Node(queue[n][i]) = n /\ state[queue[n][i]] = "queued")'
  <2>1. n # m /\ queue'[n] = queue[n]
    BY <1>7
  <2>2. queue[n][i] \in Calls /\ Node(queue[n][i]) = n /\ state[queue[n][i]] = "queued"
    BY <1>1, <2>1 DEF TypeInv, TypeOK
  <2> QED BY <1>1, <1>4, <2>1, <2>2 DEF Node
<1>10. Calls' = Calls
  BY <1>1 DEF Calls
<1>11. TypeOK'
  BY <1>1, <1>2, <1>3, <1>6, <1>7, <1>8, <1>9, <1>10 DEF TypeInv, TypeOK, States
<1>12. \A n \in Nodes : \A i, j \in DOMAIN queue'[n] : queue'[n][i] = queue'[n][j] => i = j
  BY <1>9 DEF TypeInv
<1> QED BY <1>7, <1>10, <1>11, <1>12, Zenon DEF TypeInv

\* Steps that move no call.
LEMMA SameState ==
  ASSUME TypeInv, UNCHANGED <<forest, state, queue>>,
         gaveUp' \subseteq returned', returned' \subseteq {d \in Calls : Made(d)},
         down' \subseteq Nodes, crashes' = crashes
  PROVE  TypeInv'
<1>1. \A n \in Nodes : Busy(n)' = Busy(n)
  BY DEF Busy, Idle, Calls, Node
<1> QED BY <1>1 DEF TypeInv, TypeOK, Calls, Node, Made

\* A caller is through with a call.
LEMMA ReturnType ==
  ASSUME TypeInv, NEW c \in Calls, Return(c) \/ TimeOut(c)
  PROVE  TypeInv'
<1>1. /\ UNCHANGED <<forest, state, queue, down, crashes>> /\ Made(c)
      /\ returned' = returned \cup {c}
      /\ gaveUp' = gaveUp \/ gaveUp' = gaveUp \cup {c}
  BY DEF Return, CanReturn, TimeOut, Waits
<1>2. gaveUp' \subseteq returned' /\ returned' \subseteq {d \in Calls : Made(d)}
  BY <1>1 DEF TypeInv, TypeOK
<1> QED BY <1>1, <1>2, SameState DEF TypeInv, TypeOK

\* The steps of the model, by who takes them.
OfCall(c) == \/ Call(c) \/ Return(c) \/ TimeOut(c)
             \/ StaySilent(c) \/ Reject(c) \/ Finish(c) \/ HangUp(c)

OfNode(n) == PickUp(n) \/ Crash(n) \/ Restart(n)

LEMMA StepOf == Next => (\E c \in Calls : OfCall(c)) \/ (\E n \in Nodes : OfNode(n))
<1> SUFFICES ASSUME Next
             PROVE  (\E c \in Calls : OfCall(c)) \/ (\E n \in Nodes : OfNode(n))
  OBVIOUS
<1>1. CASE Client
  BY <1>1 DEF Client, OfCall, Kids
<1>2. CASE TimeOuts
  BY <1>2 DEF TimeOuts, OfCall
<1>3. ASSUME NEW n \in Nodes, Serve(n)
      PROVE  (\E c \in Calls : OfCall(c)) \/ OfNode(n)
  BY <1>3 DEF Serve, OfCall, OfNode, Kids
<1>4. ASSUME NEW n \in Nodes, Crash(n) \/ Restart(n)
      PROVE  OfNode(n)
  BY <1>4 DEF OfNode
<1> QED BY <1>1, <1>2, <1>3, <1>4 DEF Next

LEMMA TypeStep == TypeInv /\ [Next]_vars => TypeInv'
<1> SUFFICES ASSUME TypeInv, [Next]_vars PROVE TypeInv'
  OBVIOUS
<1>1. CASE UNCHANGED vars
  BY <1>1, SameState DEF vars, TypeInv, TypeOK
<1>2. ASSUME NEW c \in Calls, OfCall(c)
      PROVE  TypeInv'
  <2>1. CASE Call(c)
    BY <2>1, CallType
  <2>2. CASE Return(c) \/ TimeOut(c)
    BY <2>2, ReturnType
  <2>3. CASE StaySilent(c)
    BY <2>3, StateOnly DEF StaySilent, Fresh
  <2>4. CASE Reject(c)
    BY <2>4, StateOnly DEF Reject, Fresh
  <2>5. CASE Finish(c)
    BY <2>5, StateOnly DEF Finish, CanFinish
  <2>6. CASE HangUp(c)
    BY <2>6, StateOnly DEF HangUp
  <2> QED BY <1>2, <2>1, <2>2, <2>3, <2>4, <2>5, <2>6 DEF OfCall
<1>3. ASSUME NEW n \in Nodes, OfNode(n)
      PROVE  TypeInv'
  <2>1. CASE Restart(n)
    BY <2>1, SameState DEF Restart, TypeInv, TypeOK
  <2> QED BY <1>3, <2>1, PickUpType, CrashType DEF OfNode
<1> QED BY <1>1, <1>2, <1>3, StepOf

LEMMA TypeInvHolds == Spec => []TypeInv
BY InitType, TypeStep, PTL DEF Spec

\* Every reachable state is well-typed: connections wait in one place, and the
\* limits of every server are kept.
THEOREM TypeCorrect == Spec => []TypeOK
<1>1. TypeInv => TypeOK
  BY DEF TypeInv
<1> QED BY <1>1, TypeInvHolds, PTL

-----------------------------------------------------------------------------
(* Callers and what they call.                                               *)

\* What a handler has to do with a call it makes: it is still there while work
\* for the call is, or gave up on it; a call that returned otherwise is over;
\* and calls of smaller sequence numbers have returned.
Bond(k) ==
  /\ Pending(k) /\ Parent(k) # 0 =>
       k \in gaveUp \/ state[Parent(k)] \in {"running", "lost"}
  /\ k \in returned \ gaveUp => state[k] \in {"answered", "ended", "refused", "lost"}
  /\ Made(k) /\ Parent(k) # 0 =>
       \A d \in Kids(Parent(k)) : forest.seq[d] < forest.seq[k] => d \in returned

Bonds == \A k \in Calls : Bond(k)

LEMMA BondsInit == Init => Bonds
BY DEF Init, Bonds, Bond, Pending, Made

LEMMA BondsStep == TypeInv /\ Bonds /\ [Next]_vars => Bonds'
<1> SUFFICES ASSUME TypeInv, Bonds, [Next]_vars PROVE Bonds'
  OBVIOUS
<1>1. forest' = forest /\ Calls' = Calls
  BY StepOf DEF vars, OfCall, OfNode, Call, Return, TimeOut, StaySilent, Reject, Finish, HangUp,
                PickUp, Crash, Restart, Calls
<1> SUFFICES ASSUME NEW k \in Calls PROVE Bond(k)'
  BY <1>1 DEF Bonds
<1> DEFINE p == Parent(k)
<1>2. /\ state \in [Calls -> States] /\ gaveUp \subseteq returned
      /\ \A d \in returned : d \in Calls /\ Made(d)
      /\ p \in Nat /\ (p # 0 => p \in Calls /\ p # k)
  BY ForestFacts DEF TypeInv, TypeOK, States
<1>3. p' = p /\ Kids(p)' = Kids(p)
  BY <1>1 DEF Kids, Parent
<1>4. Bond(k)
  BY DEF Bonds
<1>5. CASE UNCHANGED <<state, returned, gaveUp>>
  BY <1>1, <1>3, <1>4, <1>5 DEF Bond, Pending, Made, Parent, Kids, Calls
<1>6. ASSUME NEW c \in Calls, OfCall(c)
      PROVE  Bond(k)'
  <2>1. CASE Call(c)
    <3>1. PICK s \in {"queued", "refused"} : state' = [state EXCEPT ![c] = s]
      BY <2>1 DEF Call, Become
    <3>2. state[c] = "unmade" /\ UNCHANGED <<returned, gaveUp>>
      BY <2>1 DEF Call, CanCall, Made
    <3>3. CASE k = c
      <4>1. p # 0 => state[p] = "running" /\ state'[p] = "running"
        BY <1>2, <2>1, <3>1, <3>3 DEF Call, CanCall, CallerRuns
      <4>2. p # 0 => \A d \in Kids(p) : forest.seq[d] < forest.seq[k] => d \in returned
        BY <2>1, <3>3 DEF Call, CanCall, Turn
      <4>3. k \notin returned
        BY <1>2, <3>2, <3>3 DEF Made
      <4> QED BY <1>1, <1>3, <3>2, <4>1, <4>2, <4>3 DEF Bond, Parent
    <3>4. CASE k # c
      <4>1. state'[k] = state[k]
        BY <1>2, <3>1, <3>4
      <4>2. p # 0 /\ state[p] \in {"running", "lost"} => state'[p] = state[p]
        BY <1>2, <3>1, <3>2
      <4> QED BY <1>1, <1>3, <1>4, <3>2, <4>1, <4>2 DEF Bond, Pending, Made, Parent
    <3> QED BY <3>3, <3>4
  <2>2. CASE Return(c) \/ TimeOut(c)
    <3>1. state' = state /\ returned' = returned \cup {c}
      BY <2>2 DEF Return, TimeOut
    <3>2. \/ gaveUp' = gaveUp \cup {c}
          \/ gaveUp' = gaveUp /\ state[c] \in {"answered", "ended", "refused", "lost"}
      BY <2>2 DEF Return, CanReturn, TimeOut, Answered
    <3> QED BY <1>1, <1>3, <1>4, <3>1, <3>2 DEF Bond, Pending, Made, Parent
  <2>3. CASE StaySilent(c) \/ Reject(c) \/ Finish(c) \/ HangUp(c)
    <3>1. /\ state[c] \in {"running", "answered", "silent"}
          /\ UNCHANGED <<returned, gaveUp>>
      BY <2>3 DEF StaySilent, Reject, Finish, CanFinish, HangUp, Fresh, Idle
    <3>2. PICK s \in {"silent", "answered", "ended", "lost"} :
            /\ state' = [state EXCEPT ![c] = s]
            /\ state[c] = "answered" => s = "ended"
      BY <2>3, <3>1 DEF StaySilent, Reject, Finish, CanFinish, HangUp, Fresh, Become
    <3>3. ASSUME Pending(k)', p # 0
          PROVE  k \in gaveUp' \/ state'[p] \in {"running", "lost"}
      <4>1. k # c /\ Pending(k)
        BY <1>2, <3>2, <3>3 DEF Pending
      <4>2. CASE c # p \/ state[c] # "running"
        BY <1>2, <1>4, <3>1, <3>2, <3>3, <4>1, <4>2 DEF Bond
      <4>3. CASE c = p /\ state[c] = "running"
        <5>1. Made(k) /\ k \in Kids(c)
          BY <4>1, <4>3 DEF Pending, Made, Kids
        <5>2. ~(StaySilent(c) \/ Reject(c) \/ HangUp(c))
          BY <4>3, <5>1 DEF StaySilent, Reject, HangUp, Fresh, Idle
        <5>3. k \in returned
          BY <2>3, <5>1, <5>2 DEF Finish, CanFinish
        <5> QED BY <1>4, <3>1, <4>1, <5>3 DEF Bond, Pending
      <4> QED BY <4>2, <4>3
    <3>4. k \in (returned \ gaveUp)' => state'[k] \in {"answered", "ended", "refused", "lost"}
      BY <1>2, <1>4, <3>1, <3>2 DEF Bond
    <3>5. Made(k)' => Made(k)
      BY <1>2, <3>1, <3>2 DEF Made
    <3> QED BY <1>1, <1>3, <1>4, <3>1, <3>3, <3>4, <3>5 DEF Bond, Parent
  <2> QED BY <1>6, <2>1, <2>2, <2>3 DEF OfCall
<1>7. ASSUME NEW n \in Nodes, OfNode(n)
      PROVE  Bond(k)'
  <2>1. CASE Restart(n)
    BY <1>5, <2>1 DEF Restart
  <2>2. CASE PickUp(n)
    <3> DEFINE c == Head(queue[n])
    <3>1. c \in Calls /\ state[c] = "queued"
      <4>1. queue[n] \in Seq(Calls) /\ queue[n] # <<>>
        BY <2>2 DEF PickUp, CanPickUp, TypeInv, TypeOK
      <4>2. 1 \in DOMAIN queue[n] /\ c = queue[n][1] /\ c \in Calls
        BY <4>1
      <4> QED BY <4>2 DEF TypeInv, TypeOK
    <3>2. state' = [state EXCEPT ![c] = "running"] /\ UNCHANGED <<returned, gaveUp>>
      BY <2>2 DEF PickUp, Become
    <3>3. /\ Pending(k)' => Pending(k)
          /\ Made(k)' => Made(k)
          /\ state[k] # "queued" => state'[k] = state[k]
          /\ p # 0 /\ state[p] # "queued" => state'[p] = state[p]
      BY <1>2, <3>1, <3>2 DEF Pending, Made
    <3> QED BY <1>1, <1>3, <1>4, <3>2, <3>3 DEF Bond, Parent
  <2>3. CASE Crash(n)
    <3>1. UNCHANGED <<returned, gaveUp>>
      BY <2>3 DEF Crash
    <3>2. ASSUME NEW d \in Calls
          PROVE  /\ Pending(d)' => Pending(d)
                 /\ Made(d)' => Made(d)
                 /\ state[d] \in {"running", "lost"} => state'[d] \in {"running", "lost"}
                 /\ state[d] \in {"answered", "ended", "refused", "lost"} =>
                      state'[d] \in {"answered", "ended", "refused", "lost"}
      BY <2>3 DEF Crash, Pending, Made, Idle
    <3> QED BY <1>1, <1>2, <1>3, <1>4, <3>1, <3>2 DEF Bond, Parent
  <2> QED BY <1>7, <2>1, <2>2, <2>3 DEF OfNode
<1> QED BY <1>5, <1>6, <1>7, StepOf DEF vars

LEMMA BondsHold == Spec => []Bonds
BY BondsInit, BondsStep, TypeInvHolds, PTL DEF Spec

-----------------------------------------------------------------------------
(* Paths through the forest.                                                 *)

\* A set that holds the parent of each of its calls.
Closed(S) == \A d \in S : Parent(d) # 0 => Parent(d) \in S

Up(x) == Above[forest][x]

\* Above[forest][x] is the least closed set with x; it holds nothing behind x.
LEMMA UpFacts ==
  ASSUME forest \in Forests, NEW x \in Calls
  PROVE  /\ Up(x) \subseteq Calls /\ x \in Up(x) /\ Closed(Up(x))
         /\ \A S \in SUBSET Calls : x \in S /\ Closed(S) => Up(x) \subseteq S
         /\ \A a \in Up(x) : a =< x
<1>1. Up(x) = {a \in Calls : \A S \in SUBSET Calls : x \in S /\ Closed(S) => a \in S}
  BY DEF Up, Above, Closed, Calls, Parent
<1>2. Closed(Up(x))
  <2>1. ASSUME NEW d \in Up(x), Parent(d) # 0,
               NEW S \in SUBSET Calls, x \in S, Closed(S)
        PROVE  Parent(d) \in S
    BY <1>1, <2>1 DEF Closed
  <2>2. ASSUME NEW d \in Up(x), Parent(d) # 0 PROVE Parent(d) \in Calls
    BY <1>1, <2>2, ForestFacts
  <2> QED BY <1>1, <2>1, <2>2 DEF Closed
<1>3. \A a \in Up(x) : a =< x
  <2> DEFINE S == {a \in Calls : a =< x}
  <2>1. x \in S
    BY ForestFacts
  <2>2. Closed(S)
    <3> SUFFICES ASSUME NEW d \in S, Parent(d) # 0 PROVE Parent(d) \in S
      BY DEF Closed
    <3>1. Parent(d) \in Calls /\ Parent(d) \in 0 .. d - 1 /\ d \in Nat /\ x \in Nat
      BY ForestFacts
    <3> QED BY <3>1
  <2> QED BY <1>1, <2>1, <2>2
<1> QED BY <1>1, <1>2, <1>3

\* From work that is still going on one gets up to a call that is over only
\* past one whose caller may have let go of it: otherwise the calls on the way
\* that are still pending, with what is above e, would be a closed set
\* without e.
LEMMA BrokenOnTheWay ==
  ASSUME TypeInv, Bonds, NEW x \in Calls, NEW e \in Up(x),
         Pending(x), state[e] \notin {"queued", "running", "lost"}
  PROVE  \E c \in Between(e, x) : Broken(c)
<1> SUFFICES ASSUME \A c \in Between(e, x) : ~Broken(c) PROVE FALSE
  OBVIOUS
<1> DEFINE S == {d \in Up(x) : (Pending(d) \/ d \in Up(e)) /\ d # e}
<1>1. /\ forest \in Forests /\ Up(x) \subseteq Calls /\ e \in Calls /\ x \in Up(x)
      /\ Closed(Up(x)) /\ Closed(Up(e)) /\ e \in Up(e)
      /\ \A a \in Up(e) : a =< e
      /\ Between(e, x) = Up(x) \ Up(e)
  BY UpFacts DEF TypeInv, TypeOK, Between, Up
<1>2. x \in S
  BY <1>1 DEF Pending
<1>3. ASSUME NEW d \in S, Parent(d) # 0
      PROVE  Parent(d) \in S
  <2> DEFINE p == Parent(d)
  <2>1. p \in Calls /\ p \in 0 .. d - 1 /\ d \in Nat /\ d \in Up(x) /\ p \in Up(x)
    BY <1>1, <1>3, ForestFacts DEF Closed
  <2>2. CASE d \in Up(e)
    <3>1. p \in Up(e) /\ d =< e
      BY <1>1, <1>3, <2>2 DEF Closed
    <3>2. p # e
      BY <1>1, <2>1, <3>1, ForestFacts
    <3> QED BY <2>1, <3>1, <3>2
  <2>3. CASE d \notin Up(e)
    <3>1. Pending(d) /\ ~Broken(d)
      BY <1>1, <2>1, <2>3
    <3>2. state[p] \in {"running", "lost"}
      <4>1. Bond(d)
        BY <1>1, <2>1 DEF Bonds
      <4> QED BY <1>3, <3>1, <4>1 DEF Bond, Broken
    <3>3. p # e
      BY <3>2
    <3>4. p \in Up(e) \/ Pending(p)
      BY <1>1, <2>1, <3>2 DEF Broken, Pending
    <3> QED BY <2>1, <3>3, <3>4
  <2> QED BY <2>2, <2>3
<1>4. Closed(S) /\ S \in SUBSET Calls
  BY <1>1, <1>3 DEF Closed
<1>5. Up(x) \subseteq S
  BY <1>1, <1>2, <1>4, UpFacts
<1> QED BY <1>5

-----------------------------------------------------------------------------
(* What an answer says of the work below it.                                 *)

\* When a request has been answered, nothing is still being done for it
\* anywhere in the network, unless on the way down to it a caller timed out
\* or an instance died.
THEOREM NothingLeftBehindHolds == Spec => []NothingLeftBehind
<1>1. TypeInv /\ Bonds => NothingLeftBehind
  BY BrokenOnTheWay DEF NothingLeftBehind, Answered, Up
<1> QED BY <1>1, TypeInvHolds, BondsHold, PTL

\* The synchronisation point holds end to end: while a call is made, all work
\* for those of smaller sequence numbers of the same request is over, at any
\* depth, with the same exceptions.
THEOREM EndToEndOrderHolds == Spec => []EndToEndOrder
<1>1. ASSUME TypeInv, Bonds, NEW c \in Calls, NEW x \in Calls,
             Made(c), Parent(c) # 0, Pending(x),
             NEW d \in Kids(Parent(c)) \cap Up(x), forest.seq[d] < forest.seq[c]
      PROVE  \E b \in Between(Parent(c), x) : Broken(b)
  <2> DEFINE p == Parent(c)
  <2>1. /\ forest \in Forests /\ p \in Calls /\ d \in Calls /\ Parent(d) = p
        /\ d \in Nat /\ p \in 0 .. d - 1
    BY <1>1, ForestFacts DEF TypeInv, TypeOK, Kids
  <2>2. d \notin Up(p)
    BY <2>1, UpFacts
  <2>3. d \in Between(p, x)
    BY <2>2 DEF Between, Up
  <2>4. d \in returned
    BY <1>1 DEF Bonds, Bond
  <2>5. Up(p) \subseteq Up(d)
    <3>1. Up(d) \subseteq Calls /\ Closed(Up(d)) /\ p \in Up(d)
      BY <1>1, <2>1, UpFacts DEF Closed
    <3> QED BY <2>1, <3>1, UpFacts
  <2>6. CASE Broken(d)
    BY <2>3, <2>6
  <2>7. CASE ~Broken(d)
    <3>1. state[d] \notin {"queued", "running", "lost"}
      <4>1. Bond(d)
        BY <1>1, <2>1 DEF Bonds
      <4> QED BY <2>4, <2>7, <4>1 DEF Bond, Broken
    <3>2. PICK b \in Between(d, x) : Broken(b)
      BY <1>1, <3>1, BrokenOnTheWay
    <3>3. b \in Between(p, x)
      BY <2>5 DEF Between, Up
    <3> QED BY <3>2, <3>3
  <2> QED BY <2>6, <2>7
<1>2. TypeInv /\ Bonds => EndToEndOrder
  BY <1>1 DEF EndToEndOrder, Up
<1> QED BY <1>2, TypeInvHolds, BondsHold, PTL

-----------------------------------------------------------------------------
(* Why the network may stall.                                                *)

\* A connection that waits is in the queue of its instance, and there is none
\* at an instance that is down: the converse of what TypeOK says of queues.
Enqueued(c) ==
  state[c] = "queued" => \E i \in DOMAIN queue[Node(c)] : queue[Node(c)][i] = c

QueuesInv ==
  /\ \A c \in Calls : Enqueued(c)
  /\ \A n \in down : queue[n] = <<>>

LEMMA QueuesInit == Init => QueuesInv
BY DEF Init, QueuesInv, Enqueued

LEMMA QueuesStep == TypeInv /\ QueuesInv /\ [Next]_vars => QueuesInv'
<1> SUFFICES ASSUME TypeInv, QueuesInv, [Next]_vars PROVE QueuesInv'
  OBVIOUS
<1>1. forest' = forest /\ Calls' = Calls /\ \A c : Node(c)' = Node(c)
  BY StepOf DEF vars, OfCall, OfNode, Call, Return, TimeOut, StaySilent, Reject, Finish, HangUp,
                PickUp, Crash, Restart, Calls, Node
<1>2. /\ state \in [Calls -> States] /\ queue \in [Nodes -> Seq(Calls)] /\ down \subseteq Nodes
      /\ \A c \in Calls : Node(c) \in Nodes
  BY ForestFacts DEF TypeInv, TypeOK, States
\* Steps that put no connection into a queue and take none out of it.
<1>3. ASSUME queue' = queue, down' \subseteq down,
             \A c \in Calls : state'[c] = "queued" => state[c] = "queued"
      PROVE  QueuesInv'
  BY <1>1, <1>3 DEF QueuesInv, Enqueued
<1>4. CASE UNCHANGED vars
  BY <1>3, <1>4 DEF vars
<1>5. ASSUME NEW c \in Calls, OfCall(c)
      PROVE  QueuesInv'
  <2>1. CASE Call(c)
    <3> DEFINE m == Node(c)
    <3>1. down' = down
      BY <2>1 DEF Call
    <3>2. CASE m \notin down /\ HasRoom(m)
      <4>1. state' = [state EXCEPT ![c] = "queued"] /\ queue' = [queue EXCEPT ![m] = Append(@, c)]
        BY <2>1, <3>2 DEF Call, Become
      <4>2. /\ queue'[m] = Append(queue[m], c) /\ queue[m] \in Seq(Calls)
            /\ \A n \in Nodes : n # m => queue'[n] = queue[n]
        BY <1>2, <4>1
      <4>3. /\ \A i \in DOMAIN queue[m] : i \in DOMAIN queue'[m] /\ queue'[m][i] = queue[m][i]
            /\ \E i \in DOMAIN queue'[m] : queue'[m][i] = c
        <5>1. /\ Len(queue[m]) \in Nat /\ DOMAIN queue[m] = 1 .. Len(queue[m])
              /\ DOMAIN queue'[m] = 1 .. Len(queue[m]) + 1
              /\ \A i \in DOMAIN queue[m] : queue'[m][i] = queue[m][i]
              /\ queue'[m][Len(queue[m]) + 1] = c
          BY <4>2
        <5>2. Len(queue[m]) + 1 \in DOMAIN queue'[m] /\ DOMAIN queue[m] \subseteq DOMAIN queue'[m]
          BY <5>1
        <5> QED BY <5>1, <5>2
      <4>4. ASSUME NEW d \in Calls, state'[d] = "queued"
            PROVE  \E i \in DOMAIN queue'[Node(d)] : queue'[Node(d)][i] = d
        <5>1. CASE d = c
          BY <4>3, <5>1
        <5>2. CASE d # c
          <6>1. \E i \in DOMAIN queue[Node(d)] : queue[Node(d)][i] = d
            BY <1>2, <4>1, <4>4, <5>2 DEF QueuesInv, Enqueued
          <6> QED BY <1>2, <4>2, <4>3, <6>1
        <5> QED BY <5>1, <5>2
      <4>5. \A n \in down : queue'[n] = <<>>
        BY <1>2, <3>2, <4>2 DEF QueuesInv
      <4> QED BY <1>1, <3>1, <4>4, <4>5 DEF QueuesInv, Enqueued
    <3>3. CASE ~(m \notin down /\ HasRoom(m))
      <4>1. state' = [state EXCEPT ![c] = "refused"] /\ queue' = queue
        BY <2>1, <3>3 DEF Call, Become
      <4> QED BY <1>2, <1>3, <3>1, <4>1
    <3> QED BY <3>2, <3>3
  <2>2. CASE Return(c) \/ TimeOut(c)
    BY <1>3, <2>2 DEF Return, TimeOut
  <2>3. CASE StaySilent(c) \/ Reject(c) \/ Finish(c) \/ HangUp(c)
    <3>1. PICK s \in {"silent", "answered", "ended", "lost"} : state' = [state EXCEPT ![c] = s]
      BY <2>3 DEF StaySilent, Reject, Finish, HangUp, Become
    <3>2. queue' = queue /\ down' = down
      BY <2>3 DEF StaySilent, Reject, Finish, HangUp
    <3> QED BY <1>2, <1>3, <3>1, <3>2
  <2> QED BY <1>5, <2>1, <2>2, <2>3 DEF OfCall
<1>6. ASSUME NEW m \in Nodes, OfNode(m)
      PROVE  QueuesInv'
  <2>1. CASE Restart(m)
    BY <1>3, <2>1 DEF Restart
  <2>2. CASE PickUp(m)
    <3> DEFINE c == Head(queue[m])
    <3>1. /\ state' = [state EXCEPT ![c] = "running"] /\ queue' = [queue EXCEPT ![m] = Tail(@)]
          /\ down' = down /\ queue[m] # <<>> /\ queue[m] \in Seq(Calls) /\ m \notin down
      BY <1>2, <2>2 DEF PickUp, CanPickUp, Become
    <3>2. /\ Len(queue[m]) \in Nat \ {0} /\ c = queue[m][1] /\ c \in Calls
          /\ DOMAIN queue[m] = 1 .. Len(queue[m])
      BY <3>1
    <3>3. queue'[m] = Tail(queue[m]) /\ \A n \in Nodes : n # m => queue'[n] = queue[n]
      BY <1>2, <3>1
    <3>4. /\ DOMAIN queue'[m] = 1 .. Len(queue[m]) - 1
          /\ \A i \in 1 .. Len(queue[m]) - 1 : queue'[m][i] = queue[m][i + 1]
      <4>1. PICK q : q = queue[m]
        OBVIOUS
      <4>2. q \in Seq(Calls) /\ q # <<>> /\ Len(q) \in Nat \ {0} /\ queue'[m] = Tail(q)
        BY <3>1, <3>2, <3>3, <4>1
      <4>3. /\ DOMAIN Tail(q) = 1 .. Len(q) - 1
            /\ \A i \in 1 .. Len(q) - 1 : Tail(q)[i] = q[i + 1]
        BY <4>2
      <4> QED BY <4>1, <4>2, <4>3
    <3>5. ASSUME NEW d \in Calls, state'[d] = "queued"
          PROVE  \E i \in DOMAIN queue'[Node(d)] : queue'[Node(d)][i] = d
      <4>1. d # c /\ state[d] = "queued"
        BY <1>2, <3>1, <3>2, <3>5
      <4>2. PICK i \in DOMAIN queue[Node(d)] : queue[Node(d)][i] = d
        BY <4>1 DEF QueuesInv, Enqueued
      <4>3. CASE Node(d) # m
        BY <1>2, <3>3, <4>2, <4>3
      <4>4. CASE Node(d) = m
        <5>1. i \in 1 .. Len(queue[m]) /\ i # 1
          BY <3>2, <4>1, <4>2, <4>4
        <5>2. i - 1 \in 1 .. Len(queue[m]) - 1 /\ (i - 1) + 1 = i
          BY <3>2, <5>1
        <5> QED BY <3>4, <4>2, <4>4, <5>2
      <4> QED BY <4>3, <4>4
    <3>6. \A n \in down : queue'[n] = <<>>
      BY <1>2, <3>1, <3>3 DEF QueuesInv
    <3> QED BY <1>1, <3>1, <3>5, <3>6 DEF QueuesInv, Enqueued
  <2>3. CASE Crash(m)
    <3>1. /\ queue' = [queue EXCEPT ![m] = <<>>] /\ down' = down \cup {m}
          /\ \A d \in Calls : state'[d] = "queued" => state[d] = "queued" /\ Node(d) # m
      BY <2>3 DEF Crash, Pending, Idle
    <3>2. queue'[m] = <<>> /\ \A n \in Nodes : n # m => queue'[n] = queue[n]
      BY <1>2, <3>1
    <3>3. \A d \in Calls : Enqueued(d)'
      BY <1>1, <1>2, <3>1, <3>2 DEF QueuesInv, Enqueued
    <3>4. \A n \in down' : queue'[n] = <<>>
      BY <1>2, <3>1, <3>2 DEF QueuesInv
    <3> QED BY <1>1, <3>3, <3>4 DEF QueuesInv
  <2> QED BY <1>6, <2>1, <2>2, <2>3 DEF OfNode
<1> QED BY <1>4, <1>5, <1>6, StepOf

LEMMA QueuesHold == Spec => []QueuesInv
BY QueuesInit, QueuesStep, TypeInvHolds, PTL DEF Spec

\* In a finite set one element has the smallest rank: the sets of the elements
\* of smaller rank are finite, and strict inclusion is well-founded on them.
LEMMA LeastRank ==
  ASSUME NEW K, IsFiniteSet(K), K # {}, NEW rank \in [K -> Int]
  PROVE  \E c \in K : \A d \in K : rank[c] =< rank[d]
<1> DEFINE Below(c) == {d \in K : rank[d] < rank[c]}
           W == {Below(c) : c \in K}
<1>1. W \in SUBSET FiniteSubsetsOf(K)
  <2>1. \A c \in K : IsFiniteSet(Below(c)) /\ Below(c) \subseteq K
    BY FS_Subset
  <2> QED BY <2>1 DEF FiniteSubsetsOf
<1>2. W # {}
  <2>1. PICK c \in K : TRUE
    OBVIOUS
  <2>2. Below(c) \in W
    BY <2>1
  <2> HIDE DEF W
  <2> QED BY <2>2
<1>3. PICK x \in W : \A y \in W : ~ (<<y, x>> \in StrictSubsetOrdering(K))
  <2> HIDE DEF W
  <2> QED BY <1>1, <1>2, WFMin, FS_StrictSubsetOrderingWellFounded
<1>4. PICK c \in K : x = Below(c)
  OBVIOUS
<1>5. ASSUME NEW d \in K, ~ (rank[c] =< rank[d]) PROVE FALSE
  <2>1. d \in Below(c) /\ d \notin Below(d) /\ Below(d) \subseteq Below(c)
    BY <1>5
  <2>2. Below(c) \in SUBSET K /\ Below(d) \in SUBSET K
    OBVIOUS
  <2>3. Below(d) \in W
    OBVIOUS
  <2> HIDE DEF Below, W
  <2>4. <<Below(d), Below(c)>> \in StrictSubsetOrdering(K)
    BY <2>1, <2>2 DEF StrictSubsetOrdering
  <2> QED BY <1>3, <1>4, <2>3, <2>4
<1> QED BY <1>4, <1>5

\* A handler that runs and cannot take a step waits for a call of its own, one
\* of those with the smallest number that have not returned, and that call is
\* still to be served or being served.
LEMMA StuckHandler ==
  ASSUME TypeInv, Stalled, NEW c \in Calls, state[c] = "running"
  PROVE  \E k \in Kids(c) : Waits(k) /\ Pending(k)
<1> DEFINE K == Kids(c) \ returned
           rank == [k \in K |-> forest.seq[k]]
<1>1. forest \in Forests /\ state \in [Calls -> States] /\ Node(c) \in Nodes /\ c # 0
  BY ForestFacts DEF TypeInv, TypeOK, States
<1>2. /\ ~CanFinish(c)
      /\ \A k \in Kids(c) : ~CanCall(k) /\ ~CanReturn(k)
  BY <1>1 DEF Stalled, CanServe
<1>3. K # {}
  BY <1>2 DEF CanFinish
<1>4. IsFiniteSet(K) /\ K \subseteq Calls /\ \A k \in Calls : forest.seq[k] \in Int
  <2>1. K \subseteq Calls /\ IsFiniteSet(Calls)
    BY <1>1, ForestFacts DEF Kids
  <2> HIDE DEF K
  <2> QED BY <1>1, <2>1, ForestFacts, FS_Subset
<1>5. PICK k \in K : \A d \in K : forest.seq[k] =< forest.seq[d]
  <2>1. rank \in [K -> Int] /\ \A d \in K : rank[d] = forest.seq[d]
    BY <1>4
  <2> HIDE DEF K, rank
  <2>2. \E k \in K : \A d \in K : rank[k] =< rank[d]
    BY <1>3, <1>4, <2>1, LeastRank
  <2> QED BY <2>1, <2>2
<1>6. k \in Kids(c) /\ k \in Calls /\ k \notin returned /\ Parent(k) = c /\ CallerRuns(k)
  BY <1>4 DEF Kids, CallerRuns
<1>7. Turn(k)
  <2>1. ASSUME NEW d \in Kids(c), forest.seq[d] < forest.seq[k] PROVE d \in returned
    <3>1. d \in Calls
      BY DEF Kids
    <3>2. forest.seq[d] \in Int /\ forest.seq[k] \in Int
      BY <1>4, <1>6, <3>1
    <3> QED BY <1>5, <2>1, <3>2
  <2> QED BY <1>6, <2>1 DEF Turn
<1>8. Waits(k)
  BY <1>2, <1>6, <1>7 DEF CanCall, Waits
<1>9. ~Idle(k) /\ state[k] \in States
  BY <1>1, <1>6, ForestFacts DEF Stalled, CanServe
<1>10. Pending(k)
  BY <1>2, <1>6, <1>8, <1>9 DEF CanReturn, Answered, Waits, Made, Idle, Pending, States
<1> QED BY <1>6, <1>8, <1>10

\* The pending call with the largest number has nothing pending below it, so it
\* is queued, at an instance that is up and has no worker free.
LEMMA StallAtFullPool ==
  ASSUME TypeInv, QueuesInv, Stalled, NEW c0 \in Calls, Pending(c0)
  PROVE  \E n \in Nodes : /\ queue[n] # <<>>
                          /\ Cardinality(Busy(n)) = Workers
                          /\ \A b \in Busy(n) : b \in Calls /\ state[b] = "running"
<1> DEFINE P == {c \in Calls : Pending(c)}
           rank == [c \in P |-> 0 - c]
<1>1. forest \in Forests /\ IsFiniteSet(Calls)
      /\ \A c \in Calls : c \in Nat /\ Node(c) \in Nodes
  BY ForestFacts DEF TypeInv, TypeOK
<1>2. PICK c \in P : \A d \in P : d =< c
  <2>1. IsFiniteSet(P) /\ P # {} /\ P \subseteq Nat
    BY <1>1, FS_Subset
  <2>2. rank \in [P -> Int] /\ \A d \in P : rank[d] = 0 - d
    BY <2>1
  <2> HIDE DEF P, rank
  <2>3. PICK c \in P : \A d \in P : rank[c] =< rank[d]
    BY <2>1, <2>2, LeastRank
  <2>4. ASSUME NEW d \in P PROVE d =< c
    <3>1. d \in Nat /\ c \in Nat /\ 0 - c =< 0 - d
      BY <2>1, <2>2, <2>3
    <3> QED BY <3>1
  <2> QED BY <2>4
<1>3. state[c] = "queued"
  <2>1. ASSUME state[c] = "running" PROVE FALSE
    <3>1. PICK k \in Kids(c) : Pending(k)
      BY <2>1, StuckHandler
    <3>2. k \in P /\ Parent(k) = c /\ k \in Nat /\ Parent(k) \in 0 .. k - 1 /\ c \in Nat
      BY <1>1, <3>1, ForestFacts DEF Kids
    <3>3. k =< c
      BY <1>2, <3>2
    <3> QED BY <3>2, <3>3
  <2> QED BY <2>1 DEF Pending
<1> DEFINE n == Node(c)
<1>4. n \in Nodes /\ queue[n] \in Seq(Calls) /\ queue[n] # <<>> /\ n \notin down
  <2>1. n \in Nodes /\ queue[n] \in Seq(Calls)
    BY <1>1 DEF TypeInv, TypeOK
  <2>2. \E i \in DOMAIN queue[n] : queue[n][i] = c
    BY <1>3 DEF QueuesInv, Enqueued
  <2>3. queue[n] # <<>>
    BY <2>2
  <2> QED BY <2>1, <2>3 DEF QueuesInv
<1>5. Cardinality(Busy(n)) = Workers
  <2>1. ~(Cardinality(Busy(n)) < Workers) /\ Cardinality(Busy(n)) =< Workers
    BY <1>4 DEF Stalled, CanServe, CanPickUp, TypeInv, TypeOK
  <2>2. Cardinality(Busy(n)) \in Nat /\ Workers \in Nat
    BY <1>1, BusyFinite, LimitsAssumption
  <2> QED BY <2>1, <2>2
<1>6. ASSUME NEW b \in Busy(n)
      PROVE  b \in Calls /\ state[b] = "running"
  <2>1. b \in Calls /\ Node(b) = n /\ (state[b] = "running" \/ Idle(b))
    BY DEF Busy
  <2>2. ~Idle(b)
    BY <1>4, <2>1 DEF Stalled, CanServe
  <2> QED BY <2>1, <2>2
<1> QED BY <1>4, <1>5, <1>6

\* Handlers get into each other's way only by taking all the workers of an
\* instance: if there is work and nobody can go on, at some instance
\* a connection waits and every worker's handler waits for a call of its own.
THEOREM StallNeedsFullPoolHolds == Spec => []StallNeedsFullPool
<1>1. TypeInv /\ QueuesInv => StallNeedsFullPool
  <2> SUFFICES ASSUME TypeInv, QueuesInv, Stalled, NEW c \in Calls, Pending(c)
               PROVE  \E n \in Nodes :
                        /\ queue[n] # <<>>
                        /\ Cardinality({b \in Busy(n) : \E k \in Kids(b) : Waits(k)}) = Workers
    BY DEF StallNeedsFullPool
  <2>1. PICK n \in Nodes : /\ queue[n] # <<>>
                          /\ Cardinality(Busy(n)) = Workers
                          /\ \A b \in Busy(n) : b \in Calls /\ state[b] = "running"
    BY StallAtFullPool
  <2>2. \A b \in Busy(n) : \E k \in Kids(b) : Waits(k)
    BY <2>1, StuckHandler
  <2>3. {b \in Busy(n) : \E k \in Kids(b) : Waits(k)} = Busy(n)
    BY <2>2
  <2> QED BY <2>1, <2>3
<1> QED BY <1>1, TypeInvHolds, QueuesHold, PTL

\* With a worker more at every instance than it gets calls that make calls, no
\* handler is ever kept from going on by others: when no thread can take a step,
\* there is nothing left to do at any instance.
NoStall == EnoughWorkers /\ Stalled => \A c \in Calls : ~Pending(c) /\ ~Idle(c)

\* Instances with enough workers do not need timeouts to get out of each other's
\* way, however requests call back into an instance (the worker threads of
\* Poco's server, all of which wait in joinAll or for an answer).
THEOREM NoStallHolds == Spec => []NoStall
<1>1. TypeInv /\ QueuesInv => NoStall
  <2> SUFFICES ASSUME TypeInv, QueuesInv, EnoughWorkers, Stalled, NEW c \in Calls
               PROVE  ~Pending(c) /\ ~Idle(c)
    BY DEF NoStall
  <2>1. forest \in Forests /\ IsFiniteSet(Calls) /\ Workers \in Nat
    BY ForestFacts, LimitsAssumption DEF TypeInv, TypeOK
  <2>2. ~Idle(c)
    <3>1. Node(c) \in Nodes
      BY <2>1, ForestFacts
    <3> QED BY <3>1 DEF Stalled, CanServe
  <2>3. ASSUME Pending(c) PROVE FALSE
    <3>1. PICK n \in Nodes : /\ queue[n] # <<>>
                            /\ Cardinality(Busy(n)) = Workers
                            /\ \A b \in Busy(n) : b \in Calls /\ state[b] = "running"
      BY <2>3, StallAtFullPool
    <3> DEFINE Nesting == {b \in Calls : Node(b) = n /\ Kids(b) # {}}
    <3>2. ASSUME NEW b \in Busy(n) PROVE b \in Nesting
      <4>1. b \in Calls /\ Node(b) = n /\ state[b] = "running"
        BY <3>1 DEF Busy
      <4>2. Kids(b) # {}
        BY <4>1, StuckHandler
      <4> QED BY <4>1, <4>2
    <3>3. Cardinality(Nesting) < Workers
      BY DEF EnoughWorkers
    <3>4. Nesting \subseteq Calls
      OBVIOUS
    <3> HIDE DEF Nesting
    <3>5. IsFiniteSet(Nesting)
      BY <2>1, <3>4, FS_Subset
    <3>6. Cardinality(Busy(n)) <= Cardinality(Nesting)
      BY <3>2, <3>5, FS_Subset
    <3>7. Cardinality(Nesting) \in Nat
      BY <3>5, FS_CardinalityType
    <3> QED BY <2>1, <3>1, <3>3, <3>6, <3>7
  <2> QED BY <2>2, <2>3
<1> QED BY <1>1, TypeInvHolds, QueuesHold, PTL

-----------------------------------------------------------------------------
(* Every handler follows the documented promise.                             *)

Attr(e) == [k \in Kids(e) |-> [repeat |-> 1, sequence |-> forest.seq[k]]]
MadeOf(e) == {<<k, 1>> : k \in {k \in Kids(e) : Made(k)}}
DoneOf(e) == {<<k, 1>> : k \in Kids(e) \cap returned}

\* As no call is repeated, each is its own copy one.
LEMMA CallsOfHandler ==
  ASSUME NEW e
  PROVE  /\ Promise(e)!CallsOf(Attr(e)) = {<<k, 1>> : k \in Kids(e)}
         /\ \A k \in Kids(e) : Promise(e)!SeqOf(Attr(e), <<k, 1>>) = forest.seq[k]
<1>1. ASSUME NEW k \in Kids(e)
      PROVE  Promise(e)!Copies(Attr(e), k) = 1
  BY DEF Promise!Copies, Attr
<1>2. DOMAIN Attr(e) = Kids(e)
  BY DEF Attr
<1>3. 1 .. 1 = {1}
  OBVIOUS
<1>4. Promise(e)!CallsOf(Attr(e)) = UNION {{k} \X {1} : k \in Kids(e)}
  BY <1>1, <1>2, <1>3 DEF Promise!CallsOf
<1> QED BY <1>4 DEF Promise!SeqOf, Attr

LEMMA PromiseInit ==
  ASSUME Init, NEW e \in Calls
  PROVE  Promise(e)!Init
<1> DEFINE Seqs == UNION {{f.seq[c] : c \in DOMAIN f.seq} : f \in Forests}
<1>1. PICK n \in 0 .. MaxCalls : Calls = 1 .. n /\ forest.seq \in [1 .. n -> Int]
  BY ForestAssumption DEF Init, Calls
<1>2. Kids(e) \in SUBSET (1 .. MaxCalls)
  BY <1>1, LimitsAssumption DEF Kids
<1>3. \A k \in Kids(e) : forest.seq[k] \in Seqs
  BY <1>1 DEF Init, Kids
<1>4. Attr(e) \in [Kids(e) -> Promise(e)!EdgeAttr({1}, Seqs)]
  BY <1>3 DEF Attr, Promise!EdgeAttr
<1>5. MadeOf(e) = {} /\ DoneOf(e) = {}
  BY DEF MadeOf, DoneOf, Init, Made, Kids
<1> QED BY <1>2, <1>4, <1>5 DEF Promise!Init, Attr, MadeOf, DoneOf

LEMMA PromiseStep ==
  ASSUME TypeInv, [Next]_vars, NEW e \in Calls
  PROVE  [Promise(e)!Next]_(Promise(e)!promiseVars)
<1>1. forest' = forest /\ Kids(e)' = Kids(e) /\ Attr(e)' = Attr(e)
  BY StepOf DEF vars, OfCall, OfNode, Call, Return, TimeOut, StaySilent, Reject, Finish, HangUp,
                PickUp, Crash, Restart, Calls, Kids, Parent, Attr
<1>2. /\ state \in [Calls -> States] /\ Kids(e) \subseteq Calls
      /\ \A k \in Kids(e) : Parent(k) = e
      /\ \A d \in returned : d \in Calls /\ Made(d)
  BY DEF TypeInv, TypeOK, States, Kids
<1>3. ASSUME MadeOf(e)' = MadeOf(e), DoneOf(e)' = DoneOf(e)
      PROVE  UNCHANGED Promise(e)!promiseVars
  BY <1>1, <1>3 DEF Promise!promiseVars, Attr, MadeOf, DoneOf
<1>4. ASSUME NEW c \in Calls, Call(c)
      PROVE  [Promise(e)!Next]_(Promise(e)!promiseVars)
  <2>1. /\ ~Made(c) /\ returned' = returned
        /\ \E s \in {"queued", "refused"} : state' = [state EXCEPT ![c] = s]
    BY <1>4 DEF Call, CanCall, Become
  <2>2. Made(c)' /\ \A k \in Calls : k # c => (Made(k)' <=> Made(k))
    BY <1>2, <2>1 DEF Made
  <2>3. DoneOf(e)' = DoneOf(e)
    BY <1>1, <2>1 DEF DoneOf
  <2>4. CASE c \in Kids(e)
    <3>1. MadeOf(e)' = MadeOf(e) \cup {<<c, 1>>} /\ <<c, 1>> \notin MadeOf(e)
      BY <1>1, <1>2, <2>1, <2>2, <2>4 DEF MadeOf
    <3>2. \A k \in Kids(e) : forest.seq[k] < forest.seq[c] => <<k, 1>> \in DoneOf(e)
      <4>1. e # 0
        BY ForestFacts DEF TypeInv, TypeOK
      <4> QED BY <1>2, <1>4, <2>4, <4>1 DEF Call, CanCall, Turn, DoneOf
    <3>3. \A d \in Promise(e)!CallsOf(Attr(e)) :
            Promise(e)!SeqOf(Attr(e), d) < Promise(e)!SeqOf(Attr(e), <<c, 1>>) => d \in DoneOf(e)
      BY <2>4, <3>2, CallsOfHandler
    <3>4. Promise(e)!Make(<<c, 1>>)
      BY <1>1, <2>3, <3>1, <3>3 DEF Promise!Make, Attr, MadeOf, DoneOf
    <3>5. <<c, 1>> \in Promise(e)!CallsOf(Attr(e))
      BY <2>4, CallsOfHandler
    <3> QED BY <3>4, <3>5 DEF Promise!Next, Attr
  <2>5. CASE c \notin Kids(e)
    <3>1. MadeOf(e)' = MadeOf(e)
      BY <1>1, <1>2, <2>2, <2>5 DEF MadeOf
    <3> QED BY <1>3, <2>3, <3>1
  <2> QED BY <2>4, <2>5
<1>5. ASSUME NEW c \in Calls, Return(c) \/ TimeOut(c)
      PROVE  [Promise(e)!Next]_(Promise(e)!promiseVars)
  <2>1. Made(c) /\ c \notin returned /\ state' = state /\ returned' = returned \cup {c}
    BY <1>5 DEF Return, CanReturn, TimeOut, Waits
  <2>2. MadeOf(e)' = MadeOf(e)
    BY <1>1, <2>1 DEF MadeOf, Made
  <2>3. CASE c \in Kids(e)
    <3>1. /\ DoneOf(e)' = DoneOf(e) \cup {<<c, 1>>}
          /\ <<c, 1>> \in MadeOf(e) \ DoneOf(e)
      BY <1>1, <2>1, <2>3 DEF MadeOf, DoneOf
    <3>2. Promise(e)!Finish(<<c, 1>>)
      BY <1>1, <2>2, <3>1 DEF Promise!Finish, Attr, MadeOf, DoneOf
    <3>3. <<c, 1>> \in Promise(e)!CallsOf(Attr(e))
      BY <2>3, CallsOfHandler
    <3> QED BY <3>2, <3>3 DEF Promise!Next, Attr
  <2>4. CASE c \notin Kids(e)
    <3>1. DoneOf(e)' = DoneOf(e)
      BY <1>1, <2>1, <2>4 DEF DoneOf
    <3> QED BY <1>3, <2>2, <3>1
  <2> QED BY <2>3, <2>4
<1>6. ASSUME returned' = returned, \A k \in Calls : Made(k)' <=> Made(k)
      PROVE  UNCHANGED Promise(e)!promiseVars
  <2>1. MadeOf(e)' = MadeOf(e) /\ DoneOf(e)' = DoneOf(e)
    BY <1>1, <1>2, <1>6 DEF MadeOf, DoneOf
  <2> QED BY <1>3, <2>1
<1>7. ASSUME NEW c \in Calls, StaySilent(c) \/ Reject(c) \/ Finish(c) \/ HangUp(c)
      PROVE  UNCHANGED Promise(e)!promiseVars
  <2>1. returned' = returned /\ Made(c)
    BY <1>7 DEF StaySilent, Reject, Finish, CanFinish, HangUp, Fresh, Idle, Made
  <2>2. PICK s \in {"silent", "answered", "ended", "lost"} : state' = [state EXCEPT ![c] = s]
    BY <1>7 DEF StaySilent, Reject, Finish, HangUp, Become
  <2> QED BY <1>2, <1>6, <2>1, <2>2 DEF Made
<1>8. ASSUME NEW n \in Nodes, OfNode(n)
      PROVE  UNCHANGED Promise(e)!promiseVars
  <2>1. CASE Restart(n)
    BY <1>6, <2>1 DEF Restart, Made
  <2>2. CASE PickUp(n)
    <3> DEFINE c == Head(queue[n])
    <3>1. queue[n] \in Seq(Calls) /\ queue[n] # <<>>
      BY <2>2 DEF PickUp, CanPickUp, TypeInv, TypeOK
    <3>2. 1 \in DOMAIN queue[n] /\ c = queue[n][1] /\ c \in Calls
      BY <3>1
    <3>3. state[c] = "queued"
      BY <3>2 DEF TypeInv, TypeOK
    <3>4. state' = [state EXCEPT ![c] = "running"] /\ returned' = returned
      BY <2>2 DEF PickUp, Become
    <3> QED BY <1>2, <1>6, <3>2, <3>3, <3>4 DEF Made
  <2>3. CASE Crash(n)
    <3>1. \A k \in Calls : Made(k)' <=> Made(k)
      BY <2>3 DEF Crash, Made, Pending, Idle
    <3> QED BY <1>6, <2>3, <3>1 DEF Crash
  <2> QED BY <1>8, <2>1, <2>2, <2>3 DEF OfNode
<1>9. CASE UNCHANGED vars
  BY <1>6, <1>9 DEF vars, Made
<1> QED BY <1>4, <1>5, <1>7, <1>8, <1>9, StepOf DEF OfCall

\* Every handler makes its calls in the documented order, whatever its
\* callers, its callees and the other handlers of the instance are up to.
THEOREM PromisesKept == Spec => HandlersKeepPromise
<1> DEFINE Step == \A e \in Calls : [Promise(e)!Next]_(Promise(e)!promiseVars)
<1>1. Init => \A e \in Calls : Promise(e)!Init
  BY PromiseInit
<1>2. TypeInv /\ [Next]_vars => [Step]_vars
  BY PromiseStep
<1> QED BY <1>1, <1>2, TypeInvHolds, PTL DEF Spec, HandlersKeepPromise
-----------------------------------------------------------------------------
(* The network comes to rest.                                                *)

\* The steps of its own a call has before it at most, in each state.
StepsLeft(s) ==
  CASE s = "unmade" -> 4 [] s = "queued" -> 3 [] s = "running" -> 2
    [] s \in {"silent", "answered"} -> 1 [] OTHER -> 0

\* Something there is a bounded number of gets less: the steps the calls have
\* before them, the calls that are not over for their callers, the crashes to
\* come or, between two crashes, the instances that are down.
UsedUp ==
  \/ \E c \in Calls : StepsLeft(state'[c]) < StepsLeft(state[c])
  \/ \E c \in Calls : c \in returned' \ returned
  \/ crashes < crashes'
  \/ \E n \in down : n \notin down'

\* And nothing of it gets more.
NothingRegained ==
  /\ Calls' = Calls
  /\ \A c \in Calls : StepsLeft(state'[c]) =< StepsLeft(state[c])
  /\ returned \subseteq returned'
  /\ crashes =< crashes' /\ crashes' =< MaxCrashes
  /\ crashes' = crashes => down' \subseteq down

CallsGoForward == [][UsedUp /\ NothingRegained]_vars

LEMMA StepsLeftFacts ==
  /\ StepsLeft("unmade") = 4 /\ StepsLeft("queued") = 3 /\ StepsLeft("running") = 2
  /\ StepsLeft("silent") = 1 /\ StepsLeft("answered") = 1
  /\ StepsLeft("ended") = 0 /\ StepsLeft("refused") = 0 /\ StepsLeft("lost") = 0
  /\ \A s : StepsLeft(s) \in 0 .. 4
BY DEF StepsLeft

\* A step that takes call c from its state to one further on, and nobody else.
LEMMA OneGoesOn ==
  ASSUME TypeInv, NEW c \in Calls, NEW s, Become(c, s), StepsLeft(s) < StepsLeft(state[c]),
         UNCHANGED <<forest, returned, down, crashes>>
  PROVE  UsedUp /\ NothingRegained
<1>1. state \in [Calls -> States] /\ crashes \in 0 .. MaxCrashes
  BY DEF TypeInv, TypeOK, States
<1>2. state'[c] = s /\ \A d \in Calls : d # c => state'[d] = state[d]
  BY <1>1 DEF Become
<1>3. \A d \in Calls : StepsLeft(state'[d]) =< StepsLeft(state[d])
  BY <1>2, StepsLeftFacts
<1>4. crashes =< crashes' /\ crashes' =< MaxCrashes
  BY <1>1, LimitsAssumption
<1>5. UsedUp
  BY <1>2 DEF UsedUp
<1> QED BY <1>3, <1>4, <1>5 DEF NothingRegained, Calls

\* A step that moves no call and lets nobody die.
LEMMA NobodyMoves ==
  ASSUME TypeInv, UNCHANGED <<forest, state, crashes>>,
         returned \subseteq returned', down' \subseteq down
  PROVE  NothingRegained
<1>1. crashes \in 0 .. MaxCrashes
  BY DEF TypeInv, TypeOK
<1>2. crashes =< crashes' /\ crashes' =< MaxCrashes
  BY <1>1, LimitsAssumption
<1>3. \A d \in Calls : StepsLeft(state'[d]) =< StepsLeft(state[d])
  BY StepsLeftFacts
<1> QED BY <1>2, <1>3 DEF NothingRegained, Calls

LEMMA CallGoesForward ==
  ASSUME TypeInv, NEW c \in Calls, OfCall(c)
  PROVE  UsedUp /\ NothingRegained
<1>1. CASE Call(c)
  <2>1. state[c] = "unmade" /\ UNCHANGED <<forest, returned, down, crashes>>
    BY <1>1 DEF Call, CanCall, Made
  <2>2. Become(c, "queued") \/ Become(c, "refused")
    BY <1>1 DEF Call
  <2> QED BY <2>1, <2>2, StepsLeftFacts, OneGoesOn
<1>2. CASE Return(c) \/ TimeOut(c)
  <2>1. /\ UNCHANGED <<forest, state, down, crashes>>
        /\ c \notin returned /\ returned' = returned \cup {c}
    BY <1>2 DEF Return, CanReturn, TimeOut, Waits
  <2>2. UsedUp
    BY <2>1 DEF UsedUp
  <2> QED BY <2>1, <2>2, NobodyMoves
<1>3. CASE StaySilent(c) \/ Reject(c) \/ Finish(c)
  <2>1. state[c] = "running" /\ UNCHANGED <<forest, returned, down, crashes>>
    BY <1>3 DEF StaySilent, Reject, Finish, Fresh, CanFinish
  <2>2. Become(c, "silent") \/ Become(c, "answered")
    BY <1>3 DEF StaySilent, Reject, Finish
  <2> QED BY <2>1, <2>2, StepsLeftFacts, OneGoesOn
<1>4. CASE HangUp(c)
  <2>1. state[c] \in {"answered", "silent"} /\ UNCHANGED <<forest, returned, down, crashes>>
    BY <1>4 DEF HangUp, Idle
  <2>2. Become(c, "ended") \/ Become(c, "lost")
    BY <1>4 DEF HangUp
  <2> QED BY <2>1, <2>2, StepsLeftFacts, OneGoesOn
<1> QED BY <1>1, <1>2, <1>3, <1>4 DEF OfCall

LEMMA InstanceGoesForward ==
  ASSUME TypeInv, NEW n \in Nodes, OfNode(n)
  PROVE  UsedUp /\ NothingRegained
<1>1. CASE PickUp(n)
  <2>1. /\ queue[n] # <<>> /\ Become(Head(queue[n]), "running")
        /\ UNCHANGED <<forest, returned, down, crashes>>
    BY <1>1 DEF PickUp, CanPickUp
  <2>2. 1 \in DOMAIN queue[n] /\ Head(queue[n]) = queue[n][1] /\ queue[n][1] \in Calls
    BY <2>1 DEF TypeInv
  <2>3. Head(queue[n]) \in Calls /\ state[Head(queue[n])] = "queued"
    BY <2>2 DEF TypeInv, TypeOK
  <2> QED BY <2>1, <2>3, StepsLeftFacts, OneGoesOn
<1>2. CASE Crash(n)
  <2>1. /\ crashes < MaxCrashes /\ crashes' = crashes + 1 /\ crashes \in Nat
        /\ UNCHANGED <<forest, returned>>
    BY <1>2, LimitsAssumption DEF Crash, TypeInv, TypeOK
  <2>2. crashes < crashes' /\ crashes' =< MaxCrashes
    BY <2>1, LimitsAssumption
  <2>3. ASSUME NEW d \in Calls PROVE StepsLeft(state'[d]) =< StepsLeft(state[d])
    <3>1. \/ state'[d] = state[d] \/ state'[d] \in {"lost", "ended"}
      BY <1>2 DEF Crash
    <3> QED BY <3>1, StepsLeftFacts
  <2>4. UsedUp
    BY <2>2 DEF UsedUp
  <2> QED BY <2>1, <2>2, <2>3, <2>4 DEF NothingRegained, Calls
<1>3. CASE Restart(n)
  <2>1. UNCHANGED <<forest, state, returned, crashes>> /\ n \in down /\ down' = down \ {n}
    BY <1>3 DEF Restart
  <2>2. UsedUp
    BY <2>1 DEF UsedUp
  <2> QED BY <2>1, <2>2, NobodyMoves
<1> QED BY <1>1, <1>2, <1>3 DEF OfNode

\* Every step of the network uses up something there is a bounded number of, and
\* none gets any of it back: no call is made or taken up a second time, none
\* comes back from its caller's point of view, whatever times out, dies or
\* is restarted in between.  So the calls of a forest come to rest.
THEOREM CallsGoForwardHolds == Spec => CallsGoForward
<1>1. TypeInv /\ [Next]_vars => [UsedUp /\ NothingRegained]_vars
  BY StepOf, CallGoesForward, InstanceGoesForward
<1> QED BY <1>1, TypeInvHolds, PTL DEF Spec, CallsGoForward

\* Until everything is over some thread can take a step, or a call waits whose
\* timeout will let its caller go on.
AlwaysAWayOn ==
  Quiet \/ (\E n \in Nodes : CanServe(n)) \/ (\E c \in Calls : Waits(c))

\* Requests that call back into instances until all their workers wait for each
\* other leave a caller whose timeout frees one of them (runTask's catch): with
\* CallsGoForward the safety half of EveryCallEnds.
THEOREM AlwaysAWayOnHolds == Spec => []AlwaysAWayOn
<1>1. TypeInv /\ QueuesInv => AlwaysAWayOn
  <2> SUFFICES ASSUME TypeInv, QueuesInv, Stalled, NEW c \in Calls, Pending(c) \/ Idle(c)
               PROVE  \E k \in Calls : Waits(k)
    BY DEF AlwaysAWayOn, Quiet, Stalled
  <2>1. forest \in Forests /\ Node(c) \in Nodes /\ Workers \in Nat /\ Workers # 0
    BY ForestFacts, LimitsAssumption DEF TypeInv, TypeOK
  <2>2. Pending(c)
    BY <2>1 DEF Stalled, CanServe
  <2>3. PICK n \in Nodes : /\ Cardinality(Busy(n)) = Workers
                          /\ \A b \in Busy(n) : b \in Calls /\ state[b] = "running"
    BY <2>2, StallAtFullPool
  <2>4. Busy(n) # {}
    BY <2>1, <2>3, FS_EmptySet
  <2>5. PICK b \in Busy(n) : b \in Calls /\ state[b] = "running"
    BY <2>3, <2>4
  <2>6. \E k \in Kids(b) : Waits(k)
    BY <2>5, StuckHandler
  <2> QED BY <2>6 DEF Kids
<1> QED BY <1>1, TypeInvHolds, QueuesHold, PTL
=============================================================================
