----------------------------- MODULE MCFrontEnd -----------------------------
(***************************************************************************)
(* FrontEnd for TLC.  Sizes are in units of which a datagram holds four    *)
(* and a length prefix counts seven.                                       *)
(***************************************************************************)
EXTENDS FrontEnd

M(form, len, http) == [form |-> form, len |-> len, tc |-> FALSE, http |-> http]
Ok(records, ttl) == [rcode |-> "NoError", records |-> records, ttl |-> ttl]

\* with the TC flag set, which comes back with the whole answer
Short   == [M("plain", 1, "get") EXCEPT !.tc = TRUE]
Long    == M("plain", 2, "post")
Wide    == M("plain", 5, "get")
Hanging == M("plain", 3, "get")
Odd     == M("odd", 2, "get_bare")

Mixed ==
  { Short, Long, Wide, Hanging, Odd, M("garbled", 1, "post"), M("empty", 1, "get") }

\* a short answer and an error for one query, a long one for the others
MCOutcome(q) ==
  CASE q = Hanging -> {}
    [] q.len = 1 -> {Ok(1, 60), [rcode |-> "NameError", records |-> 0, ttl |-> 0]}
    [] OTHER -> {Ok(6, 60)}
=============================================================================
