---------------------------- MODULE MCFidiServer ----------------------------
(* Small instances of FidiServer. *)
EXTENDS FidiServer, TLC

Plain == [path |-> "other", flaw |-> "none", response |-> 200, predelay |-> 0,
          postdelay |-> 0, window |-> 0, healthy |-> "absent"]

\* A health check; requests that set the health, before and after sleeping;
\* windows of one and two ticks; one request for every flaw, each also asking
\* for a health and a window so that a wrongly executed one would be noticed.
MCInputs ==
  {[Plain EXCEPT !.path = "healthz"],
   [Plain EXCEPT !.healthy = "other", !.predelay = 1],
   [Plain EXCEPT !.healthy = "true", !.postdelay = 1, !.window = 1],
   [Plain EXCEPT !.window = 2, !.predelay = 1, !.postdelay = 1, !.response = 503]}
  \cup {[Plain EXCEPT !.flaw = f, !.healthy = "other", !.window = 1] :
          f \in Flaws \ {"none"}}

\* For the status that reaches the client.
StatusInputs == {Plain, [Plain EXCEPT !.response = 503], [Plain EXCEPT !.flaw = "syntax"]}

RequestSymmetry == Permutations(Requests)
=============================================================================
