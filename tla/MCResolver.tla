----------------------------- MODULE MCResolver -----------------------------
(***************************************************************************)
(* Resolver for TLC: what all the networks below share, and the wild one,  *)
(* in which any server may answer anything.                                *)
(***************************************************************************)
EXTENDS Resolver

Q(n, type) == [name |-> n, type |-> type]
R(n, type, value) == [name |-> n, type |-> type, value |-> value]

Empty == [rcode |-> "NoError", answers |-> {}, ns |-> <<>>, soa |-> FALSE,
          additional |-> <<>>]

Answers(recs)      == [Empty EXCEPT !.answers = recs]
NoDataReply        == [Empty EXCEPT !.soa = TRUE]
NxReply            == [Empty EXCEPT !.rcode = "NameError", !.soa = TRUE]
RefusedReply       == [Empty EXCEPT !.rcode = "Other"]
Nothing            == [Empty EXCEPT !.rcode = "none"]
Referral(ns, glue) == [Empty EXCEPT !.ns = ns, !.additional = glue]

NoZones == <<>>
NoneUncached == {}
MCOther == {"other"}
MCType == {"A", "NS", "CNAME", "TXT", "SOA"}

-----------------------------------------------------------------------------
(***************************************************************************)
(* The wild network: one name x outside the zones, one name server n.      *)
(***************************************************************************)
NX == <<"x">>
NN == <<"n">>
NZ == <<"z">>
NCZ == <<"c", "z">>
NTZ == <<"t", "z">>

WildZone ==
  << FromConfig([name |-> NZ,
       records |-> { [host |-> <<>>, type |-> "A", value |-> "a0"],
                     [host |-> <<"c">>, type |-> "CNAME", value |-> NX],
                     [host |-> <<"t">>, type |-> "TXT", value |-> "other"] }]) >>

WildSoa == [name |-> NZ, type |-> "SOA", value |-> "other"]

WildZones == << [WildZone[1] EXCEPT !.soa = WildSoa] >>

WildNames == {NX, NN, NZ, NCZ, NTZ}
WildAddrs == {"a0", "a1"}
WildRoots == {"a0"}

WildQuestions == { Q(NX, "A"), Q(NX, "CNAME"), Q(NZ, "A"), Q(NCZ, "A"), Q(NTZ, "A") }

\* the address records of n come with a zero TTL at a1
WildUncached == { R(NN, "A", "a1") }

WildReply(a, name, type) ==
  { Nothing, NxReply, RefusedReply, NoDataReply,
    Answers({R(name, "TXT", "other")}),
    Answers({R(name, "A", "a0"), R(NN, "A", "a1")}),
    Answers({R(name, "CNAME", NX)}),
    Answers({R(name, "CNAME", NN), R(NN, "A", "a0")}),
    Referral(<<R(NX, "NS", NN)>>, <<>>),
    Referral(<<R(NX, "NS", NX), R(NX, "NS", NN)>>, <<>>),
    Referral(<<R(NX, "NS", NN)>>, <<R(NN, "A", "a1"), R(NN, "A", "a0"), R(NX, "A", "a0")>>) }
=============================================================================
