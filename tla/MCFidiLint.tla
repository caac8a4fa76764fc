----------------------------- MODULE MCFidiLint -----------------------------
(* Small instances of FidiLint. *)
EXTENDS FidiLint

\* All trees of up to three payloads below the request, with two sequence
\* numbers and at most one warning in each payload; the checks of the request or
\* of the last payload may throw.
MCTrees ==
  UNION {[parent : {p \in [1 .. n -> 0 .. n - 1] : \A e \in 1 .. n : p[e] < e},
          seq : [1 .. n -> 0 .. 1],
          warns : [0 .. n -> 0 .. 1],
          syntax : {{}},
          throws : {{}, {0}, {n}},
          sources : {{}} \cup {{e} : e \in 1 .. n}] : n \in 0 .. 3}

\* For the exit code: syntax errors somewhere, nothing else wrong.
SyntaxTrees ==
  UNION {[parent : {p \in [1 .. n -> 0 .. n - 1] : \A e \in 1 .. n : p[e] < e},
          seq : [1 .. n -> {1}], warns : [0 .. n -> {0}],
          syntax : SUBSET (0 .. n), throws : {{}}, sources : {{}}] : n \in 0 .. 2}

\* No argument, two of them, and one of each kind.
MCCommandLines ==
  {<<>>, <<"request", "request">>}
    \cup {<<a>> : a \in {"-h", "-v", "-", "request", "missing", "unreadable"}}
=============================================================================
