-------------------------- MODULE MCFidiLifecycle --------------------------
(* Small instances of FidiLifecycle. *)
EXTENDS FidiLifecycle

AnyOption ==
  {[name |-> n, value |-> ""] : n \in {"help", "version", "log-file", "nonsense"}}
    \cup {[name |-> "port", value |-> p] : p \in {8001, 65536}}
    \cup {[name |-> "log-dir", value |-> d] : d \in Dirs}

MCCommandLines == UNION {[1 .. n -> AnyOption] : n \in 0 .. 3}
=============================================================================
