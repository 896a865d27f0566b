------------------------------ MODULE Received ------------------------------
(***************************************************************************)
(* What becomes of a message that has been parsed: the server answers it    *)
(* (WireReply), or the resolver has its records validated and uses or       *)
(* rejects it (resolve_recursive, with enable_dnssec).                     *)
(***************************************************************************)
EXTENDS WireReply, Dnssec

ReceivedInit == Init /\ DnssecInit

\* A response with answers, and no name error.
ToValidate == pc = "done" /\ ~sent.reply /\ header.code # 3 /\ sections[2] # <<>>

\* The records of all its sections.
Validate ==
  /\ ToValidate
  /\ StartValidation(sections[2] \o sections[3] \o sections[4])

Validating ==
  /\ Validate \/ Loop \/ UseOrReject \/ (ToValidate /\ Tick)
  /\ UNCHANGED vars

AllVars == <<vars, dnssecVars>>

Finished == Ended \/ stage \in {"used", "rejected"}

\* The server does not look at the clock: now = 0 is a bound.
ReceivedNext ==
  \/ Next /\ UNCHANGED dnssecVars
  \/ stage = "idle" /\ now = 0 /\ Respond /\ UNCHANGED dnssecVars
  \/ Validating
  \/ Finished /\ UNCHANGED AllVars

\* Parser and validator run by themselves: nothing suspends them, and the clock
\* does not run faster than they do for ever.
ReceivedSpec == ReceivedInit /\ [][ReceivedNext]_AllVars /\ WF_AllVars(ReceivedNext)

-----------------------------------------------------------------------------
\* Every message is parsed to an end, pointers in circles included, and every
\* validation comes to a result, whatever is in them.
Terminates == <>Finished
=============================================================================
