------------------------------ MODULE EdgeCalls ------------------------------
(****************************************************************************)
(* The downstream calls one request asks for.  A request holds any number of *)
(* edge statements "-> node repeat=R sequence=S [...]"; attr maps each of    *)
(* them to the pair the parser stores in EdgeDetails::edge_attr.             *)
(* A call is a pair <<e, i>>: copy i of edge e.                              *)
(****************************************************************************)
EXTENDS Integers

\* std::pair<int, int> edge_attr: first is the repetition, second the sequence
EdgeAttr(Repeats, Sequences) == [repeat : Repeats, sequence : Sequences]

\* A repetition below one is taken as one.
Copies(attr, e) == IF attr[e].repeat < 1 THEN 1 ELSE attr[e].repeat

\* All the calls of a request.
CallsOf(attr) == UNION {{e} \X (1 .. Copies(attr, e)) : e \in DOMAIN attr}

SeqOf(attr, c) == attr[c[1]].sequence

\* The calls that share sequence number s.
GroupOf(attr, s) == {c \in CallsOf(attr) : SeqOf(attr, c) = s}
=============================================================================
