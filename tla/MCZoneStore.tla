---------------------------- MODULE MCZoneStore ----------------------------
(***************************************************************************)
(* ZoneStore for TLC: zones inside one another, one next to another whose   *)
(* name ends in the same letters, one defined twice, and one refused.       *)
(***************************************************************************)
EXTENDS ZoneStore

Rec(host, type, value) == [host |-> host, type |-> type, value |-> value]
Def(name, recs) == [name |-> name, records |-> recs]

\* the zone example.local of the sample file
Example == Def(<<"example", "local">>,
  { Rec(<<>>, "NS", "ns1"), Rec(<<>>, "A", "127.0.0.1"),
    Rec(<<"www">>, "CNAME", "example.local"), Rec(<<"a", "sub">>, "A", "outer") })

\* the same zone defined again, with less in it
Again == Def(<<"example", "local">>, { Rec(<<"www">>, "A", "again") })

\* a zone below it, which holds one of its names
Sub == Def(<<"sub", "example", "local">>,
  { Rec(<<"a">>, "A", "inner"), Rec(<<>>, "A", "apex") })

\* its parent, and a neighbour with the same last label
Local == Def(<<"local">>, { Rec(<<"www", "example">>, "A", "far"),
                            Rec(<<"x", "myexample">>, "A", "far") })
Neighbour == Def(<<"myexample", "local">>, { Rec(<<"x">>, "A", "near") })

\* the root, whose host names get an empty label
Root == Def(<<>>, { Rec(<<"www">>, "A", "root"), Rec(<<>>, "TXT", "root") })

\* a definition from_config refuses
Refused == Def(<<"bad">>, { Rec(<<>>, "SPF", "v") })

Files == { <<>> } \cup
  UNION { [1..n -> {Example, Again, Sub, Local, Neighbour, Root, Refused}] : n \in 1..3 }

Names ==
  { <<"example", "local">>, <<"www", "example", "local">>,
    <<"a", "sub", "example", "local">>, <<"sub", "example", "local">>,
    <<"x", "myexample", "local">>, <<"local">>, <<"bad">>,
    <<"example">>, <<"www">>, <<"www", "">>, <<>> }
=============================================================================
