----------------------------- MODULE MCLoopNet -----------------------------
(***************************************************************************)
(* Resolver in a network where the two name servers of a zone each refer   *)
(* to the other.                                                           *)
(***************************************************************************)
EXTENDS MCResolver

host == <<"h", "ex">>
ex   == <<"ex">>
nsa  == <<"a", "ex">>
nsb  == <<"b", "ex">>

LoopNames == {host, ex, nsa, nsb}
LoopAddrs == {"root", "sa", "sb"}
LoopRoots == {"root"}
LoopQuestions == { Q(host, "A") }

ToA == Referral(<<R(ex, "NS", nsa)>>, <<R(nsa, "A", "sa")>>)
ToB == Referral(<<R(ex, "NS", nsb)>>, <<R(nsb, "A", "sb")>>)

LoopReply(a, name, type) == IF a = "sa" THEN {ToB} ELSE {ToA}

\* A referral that goes in a circle is noticed and the question still answered,
\* where every query is (src/resolver/mod.rs:250, "Prevent loops").
ReferralLoopsEnd == \A t \in Task : Answered(t)
=============================================================================
