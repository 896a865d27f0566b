---------------------------- MODULE MCSampleZone ----------------------------
(***************************************************************************)
(* Resolver with the sample zone of config/zones.toml, in a network that   *)
(* knows nothing of it.                                                    *)
(***************************************************************************)
EXTENDS MCResolver

local  == <<"example", "local">>
www    == <<"www", "example", "local">>

SampleZones ==
  << [FromConfig([name |-> local,
        records |-> { [host |-> <<>>, type |-> "A", value |-> "127.0.0.1"],
                      [host |-> <<"www">>, type |-> "CNAME", value |-> local] }])
      EXCEPT !.soa = [name |-> local, type |-> "SOA", value |-> "other"]] >>

SampleNames == {local, www}
SampleAddrs == {"root", "127.0.0.1"}
SampleRoots == {"root"}
AliasQuestion == { Q(www, "A") }

\* The public root knows no .local.
SampleReply(a, name, type) == {NxReply}

\* An alias inside the zone leads to the zone's own data (README.md:9, "CNAME
\* Chasing - Automatically follows CNAME chains to resolve final answers").
ZoneAliasAnswered ==
  \A t \in Task : Done(t) /\ asked[t] = Q(www, "A") =>
    /\ result[t].status = "Ok"
    /\ ZoneData(local, "A") \subseteq result[t].records
=============================================================================
