---------------------------- MODULE MCFidiDriver ----------------------------
(* Small instances of FidiDriver. *)
EXTENDS FidiDriver

V(k, i) == [kind |-> k, n |-> i]
Num(i) == V("number", i)

\* Complete and partial addresses, two hosts for one name, an address with
\* hostname quotes and one without, a port that is not a number.
MCNodeLists ==
  {[hostname |-> V("string", 1), port |-> Num(8001)],
   [hostname |-> V("ident", 2)],
   [port |-> Num(8002)],
   [port |-> V("ident", 0)],
   [hostname |-> V("string", 2), path |-> V("string", 0)],
   [url |-> V("string", 3)]}

\* A good request, one with no response, and one with each kind of bad number.
MCTopLists ==
  {[response |-> Num(200), timeout_usec |-> Num(10)],
   [predelay |-> Num(10)],
   [response |-> Num(600)],
   [response |-> Num(200), predelay |-> V("ident", 0)],
   [response |-> Num(200), timeout_usec |-> Num(1000000)],
   [response |-> V("ident", 0), timeout_usec |-> V("ident", 0)],
   [response |-> Num(200), timeout_usec |-> V("string", 0)]}
=============================================================================
