---------------------------- MODULE MCHonestNet ----------------------------
(***************************************************************************)
(* Resolver in a network whose servers tell the truth.  The zone ex is     *)
(* delegated without glue to two name servers below net, the first of      *)
(* which does not exist; net is delegated with glue.  al.ex is an alias of *)
(* w.ex, and its server may answer with the alias alone or with the        *)
(* address besides it, as servers do.  c.home, in a zone of the resolver's *)
(* own, is an alias of al.ex.                                              *)
(***************************************************************************)
EXTENDS MCResolver, HonestNet

al == <<"al", "ex">>
w  == <<"w", "ex">>
no == <<"no", "ex">>
ex == <<"ex">>
n1 == <<"n1", "net">>
n2 == <<"n2", "net">>
g  == <<"g", "net">>
net == <<"net">>
home == <<"home">>
ch == <<"c", "home">>
th == <<"t", "home">>

HonestNames == {al, w, no, ex, n1, n2, g, net, home, ch, th}
HonestAddrs == {"root", "tnet", "tex", "web"}
HonestRoots == {"root"}

\* Everything there is.
TrueRecords ==
  { R(al, "CNAME", w), R(w, "A", "web"),
    R(n2, "A", "tex"), R(g, "A", "tnet"),
    R(ex, "NS", n1), R(ex, "NS", n2), R(net, "NS", g),
    R(home, "SOA", "other"), R(ch, "CNAME", al), R(th, "TXT", "other") }

\* The zone home, which the resolver serves itself.
HomeZone ==
  FromConfig([name |-> home,
     records |-> { [host |-> <<"c">>, type |-> "CNAME", value |-> al],
                   [host |-> <<"t">>, type |-> "TXT", value |-> "other"] }])

HonestZones == << [HomeZone EXCEPT !.soa = R(home, "SOA", "other")] >>

\* The server in charge of a name: its records, its alias with or without the
\* records of the target, an empty answer, or a name error.
Charge(name, type) ==
  IF ~Exists(name) THEN {NxReply}
  ELSE IF Of(name, type) # {} THEN {Answers(Of(name, type))}
  ELSE IF Of(name, "CNAME") # {}
       THEN UNION { {Answers({r}), Answers({r} \cup Of(r.value, type))} :
                      r \in Of(name, "CNAME") }
  ELSE {NoDataReply}

TrueReply(a, name, type) ==
  CASE a = "root" /\ IsSubdomainOf(name, ex) ->
         {Referral(<<R(ex, "NS", n1), R(ex, "NS", n2)>>, <<>>)}
    [] a = "root" /\ IsSubdomainOf(name, net) ->
         {Referral(<<R(net, "NS", g)>>, <<R(g, "A", "tnet")>>)}
    [] a = "tex" /\ IsSubdomainOf(name, ex) -> Charge(name, type)
    [] a = "tnet" /\ IsSubdomainOf(name, net) -> Charge(name, type)
    [] OTHER -> {RefusedReply}

\* The same, by servers that may be out of reach or refuse to answer.
LossyReply(a, name, type) == TrueReply(a, name, type) \cup {Nothing, RefusedReply}

HonestQuestions == { Q(al, "A"), Q(al, "TXT"), Q(w, "A"), Q(no, "A"), Q(al, "CNAME"),
                     Q(ch, "A"), Q(ch, "TXT"), Q(th, "A") }
AliasQuestions == { Q(al, "A"), Q(w, "A"), Q(ch, "A") }
NsQuestions == { Q(w, "A"), Q(ex, "NS") }

\* The networks are honest, and so are the zones.
ASSUME HonestyAssumption == NetworkHonest

\* With servers that answer, everything that exists is found, though one of the
\* two name servers of the delegation cannot be resolved: no error for a name
\* that exists, and the records of the end of its chain in the answer
\* (Err(_) => continue in the loop over the NS names).
AnswersComplete ==
  \A t \in Task : Done(t) =>
    LET q == asked[t] IN
    \A e \in Ends(q.name, q.type) : Exists(e) =>
      /\ result[t].status = "Ok"
      /\ Of(e, q.type) \subseteq result[t].records

\* An NS question is answered with all the NS records there are, whether the
\* network or the cache answers it (src/resolver/mod.rs:212, "Cache NS
\* records").
NsAnswerWhole ==
  \A t \in Task :
    Done(t) /\ asked[t].type = "NS" /\ result[t].status = "Ok" =>
      result[t].records = Of(asked[t].name, "NS")
=============================================================================
