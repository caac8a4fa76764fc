--------------------------- MODULE MCFidiNetwork ---------------------------
(* Small instances of FidiNetwork. *)
EXTENDS FidiNetwork

MCForests ==
  LET Forests4(parent, seq, A, B, C, D) ==
        {[parent |-> parent, seq |-> seq, node |-> <<a, b, c, d>>] :
           a \in A, b \in B, c \in C, d \in D}
  IN \* two calls in sequence, the first of which makes one of its own
     Forests4(<<0, 1, 1, 2>>, <<1, 1, 2, 1>>, {"a"}, Nodes, Nodes, Nodes)
     \* two requests, each with a call; all four may meet in one instance
     \cup Forests4(<<0, 0, 1, 2>>, <<1, 1, 1, 1>>, {"a"}, {"a"}, Nodes, Nodes)
     \* a chain that comes back to where it began
     \cup Forests4(<<0, 1, 2, 3>>, <<1, 1, 1, 1>>, {"a"}, Nodes, {"a"}, Nodes)
     \* a group of three, which is more than a queue takes
     \cup Forests4(<<0, 1, 1, 1>>, <<1, 1, 1, 1>>, {"a"}, {"b"}, {"b"}, {"b"})
     \* a group of two and its successor
     \cup Forests4(<<0, 1, 1, 1>>, <<1, 1, 1, 2>>, {"a"}, {"b"}, Nodes, Nodes)
=============================================================================
