------------------------------ MODULE Resolver ------------------------------
(***************************************************************************)
(* Resolver of src/resolver/mod.rs: resolve, resolve_recursive and         *)
(* follow_cname_chain, run by several tasks that share the cache.          *)
(*                                                                         *)
(* The async functions call one another to a depth that matters, so a task *)
(* has an explicit stack with one frame per call in progress.  A step runs *)
(* from one await of the code to the next: it takes the message that       *)
(* query_nameservers came back with, or the result of the call above it,   *)
(* updates the cache, and ends in another query, a call or a return.       *)
(* follow_cname_chain is always the last thing its caller does, so its     *)
(* frame takes the caller's place.                                         *)
(*                                                                         *)
(* The cache is SoftCache without its clock: Forget is expiry, eviction    *)
(* and clear.  The servers of the network are what Reply says they are;    *)
(* how one query reaches them is module Upstream.                          *)
(***************************************************************************)
EXTENDS Zones

CONSTANTS
  Task,           \* the tasks, each resolving for one client at a time
  Question,       \* what clients ask: [name, type]
  Name, Addr, Type,
  Other,          \* values of the other record types
  Roots,          \* the addresses of ROOT_SERVERS
  ZoneList,       \* the zones of ZoneStore
  Uncached,       \* the records that come with a TTL of zero
  Reply(_, _, _), \* the messages an address may answer a question with
  MaxDepth,       \* MAX_RECURSION_DEPTH
  MaxChain        \* MAX_CNAME_CHAIN

\* The record types the resolver itself reads.
Value(type) ==
  CASE type \in {"CNAME", "NS"} -> Name
    [] type = "A" -> Addr
    [] OTHER -> Other

Record == {r \in [name : Name, type : Type, value : Name \cup Addr \cup Other] :
             r.value \in Value(r.type)}

\* A message as the resolver reads it: the answer section, the NS records of
\* the authority section in their order, whether a SOA is there, and the A
\* records of the additional section.  "none" is no message at all: the error
\* query_nameservers ends with.
Message == [rcode : {"none", "NoError", "NameError", "Other"},
            answers : SUBSET Record, ns : Seq(Record), soa : BOOLEAN,
            additional : Seq(Record)]

ASSUME TypeAssumption == {"A", "NS", "CNAME"} \subseteq Type
ASSUME RootAssumption == Roots \subseteq Addr /\ Roots # {}
ASSUME QuestionAssumption == Question \subseteq [name : Name, type : Type]
ASSUME LimitAssumption == MaxDepth \in Nat /\ MaxChain \in Nat \ {0}
ASSUME NameAssumption == \A n \in Name : Len(n) \in Nat
ASSUME ZoneAssumption ==
  /\ Len(ZoneList) \in Nat
  /\ \A i \in 1..Len(ZoneList) :
       /\ ZoneList[i].name \in Name
       /\ ZoneList[i].records \subseteq Record
       /\ ZoneList[i].soa \in Record
       /\ ZoneList[i].ns_records \subseteq ZoneList[i].records
ASSUME ReplyAssumption ==
  \A a \in Addr, n \in Name, type \in Type : \A m \in Reply(a, n, type) :
    /\ m \in Message
    /\ \A i \in 1..Len(m.ns) : m.ns[i].type = "NS"
    /\ \A i \in 1..Len(m.additional) : m.additional[i].type = "A"

VARIABLES
  asked,   \* the question each task works on, or worked on last
  phase,   \* how far resolve has got with it
  stack,   \* the calls in progress below resolve, the innermost last
  result,  \* what the last call to end returned, until its caller takes it
  cache,   \* a function on the (name, type) pairs that are cached
  owed     \* the records of a referral that each task has yet to cache, with
           \* their places in the message

vars == <<asked, phase, stack, result, cache, owed>>

-----------------------------------------------------------------------------
Ok(recs)  == [status |-> "Ok", records |-> recs]
Err(code) == [status |-> code, records |-> {}]
Pending   == [status |-> "pending", records |-> {}]

Result == [status : {"Ok", "NameError", "ServerFailure", "pending"},
           records : SUBSET Record]

\* A call of resolve_recursive, and one of follow_cname_chain.
RecFrame(n, type, d) ==
  [pc |-> "query", name |-> n, type |-> type, depth |-> d,
   servers |-> Roots, last_ns |-> <<>>, todo |-> <<>>]

\* Variant: the call below a CNAME made at the depth of its caller.
ChainCalls_SameDepth(alias, recs, type, d) ==
  << [pc |-> "target", name |-> alias.value, type |-> type, depth |-> d,
      chain |-> recs, iter |-> 0],
     RecFrame(alias.value, type, d) >>

\* follow_cname_chain as it starts: its frame and its first call.  alias is
\* the last of the CNAME records recs.
ChainCalls(alias, recs, type, d) ==
  << [pc |-> "target", name |-> alias.value, type |-> type, depth |-> d,
      chain |-> recs, iter |-> 0],
     RecFrame(alias.value, type, d + 1) >>

Top(t) == stack[t][Len(stack[t])]
Below(t) == SubSeq(stack[t], 1, Len(stack[t]) - 1)

\* The innermost call of t is a resolve_recursive about to query, is in the
\* loop over the NS names, or is a follow_cname_chain that has its result.
Active(t) == phase[t] = "calls" /\ stack[t] # <<>> /\ owed[t] = {}
TooDeep(t) == Active(t) /\ result[t] = Pending /\ Top(t).pc = "query"
              /\ Top(t).depth > MaxDepth
Querying(t) == Active(t) /\ result[t] = Pending /\ Top(t).pc = "query"
               /\ Top(t).depth <= MaxDepth
Choosing(t) == Active(t) /\ result[t] = Pending /\ Top(t).pc = "ns"
Returned(t, pc) == Active(t) /\ result[t] # Pending /\ Top(t).pc = pc

Done(t) == phase[t] = "calls" /\ stack[t] = <<>> /\ owed[t] = {}

Return(t, r) ==
  /\ stack' = [stack EXCEPT ![t] = Below(t)]
  /\ result' = [result EXCEPT ![t] = r]
  /\ UNCHANGED <<asked, phase>>

\* The innermost frame becomes the frames fs, the last of which runs next.
Continue(t, fs) ==
  /\ stack' = [stack EXCEPT ![t] = Below(t) \o fs]
  /\ result' = [result EXCEPT ![t] = Pending]
  /\ UNCHANGED <<asked, phase>>

-----------------------------------------------------------------------------
(***************************************************************************)
(* The cache as the resolver uses it.  An insert with a zero TTL in it, or *)
(* with no record, leaves the cache as it was.                             *)
(***************************************************************************)
Cached(n, type) == <<n, type>> \in DOMAIN cache

Insert(n, type, recs) ==
  IF recs = {} \/ recs \cap Uncached # {} THEN cache
  ELSE [k \in DOMAIN cache \cup {<<n, type>>} |->
          IF k = <<n, type>> THEN recs ELSE cache[k]]

-----------------------------------------------------------------------------
Init ==
  /\ asked \in [Task -> Question]
  /\ phase = [t \in Task |-> "idle"]
  /\ stack = [t \in Task |-> <<>>]
  /\ result = [t \in Task |-> Pending]
  /\ cache = [k \in {} |-> {}]
  /\ owed = [t \in Task |-> {}]

Free(t) == phase[t] = "idle" \/ Done(t)

Begin(t, q, ph, frames, r) ==
  /\ asked' = [asked EXCEPT ![t] = q]
  /\ phase' = [phase EXCEPT ![t] = ph]
  /\ stack' = [stack EXCEPT ![t] = frames]
  /\ result' = [result EXCEPT ![t] = r]
  /\ UNCHANGED <<cache, owed>>

(***************************************************************************)
(* resolve: the zones first.                                               *)
(***************************************************************************)
ZoneData(n, type) == StoreLookup(ZoneList, n, type)

InZone(n) == Enclosing(ZoneList, n) # {}
NameInZone(n) == InZone(n) /\ HasName(ZoneList[FindZone(ZoneList, n)], n)

AskFound(t, q) ==
  /\ Free(t)
  /\ ZoneData(q.name, q.type) # {}
  /\ Begin(t, q, "calls", <<>>, Ok(ZoneData(q.name, q.type)))

AskAlias(t, q) ==
  /\ Free(t)
  /\ ZoneData(q.name, q.type) = {}
  /\ NameInZone(q.name) /\ q.type # "CNAME"
  /\ \E alias \in ZoneData(q.name, "CNAME") :
       Begin(t, q, "calls",
             ChainCalls(alias, ZoneData(q.name, "CNAME"), q.type, 0), Pending)

AskNoData(t, q) ==
  /\ Free(t)
  /\ ZoneData(q.name, q.type) = {}
  /\ NameInZone(q.name) /\ q.type # "CNAME"
  /\ ZoneData(q.name, "CNAME") = {}
  /\ Begin(t, q, "calls", <<>>, Ok({}))

AskOutside(t, q) ==
  /\ Free(t)
  /\ ZoneData(q.name, q.type) = {}
  /\ ~NameInZone(q.name) \/ q.type = "CNAME"
  /\ Begin(t, q, "cache", <<>>, Pending)

Ask(t, q) == AskFound(t, q) \/ AskAlias(t, q) \/ AskNoData(t, q) \/ AskOutside(t, q)

(***************************************************************************)
(* resolve: then the cache, for the type and for a CNAME.                  *)
(***************************************************************************)
Calls(t, frames, r) ==
  /\ phase' = [phase EXCEPT ![t] = "calls"]
  /\ stack' = [stack EXCEPT ![t] = frames]
  /\ result' = [result EXCEPT ![t] = r]
  /\ UNCHANGED <<asked, cache, owed>>

LookupHit(t) ==
  /\ phase[t] = "cache"
  /\ Cached(asked[t].name, asked[t].type)
  /\ Calls(t, <<>>, Ok(cache[<<asked[t].name, asked[t].type>>]))

LookupMiss(t) ==
  /\ phase[t] = "cache"
  /\ ~Cached(asked[t].name, asked[t].type)
  /\ phase' = [phase EXCEPT ![t] = "alias"]
  /\ UNCHANGED <<asked, stack, result, cache, owed>>

LookupAlias(t) ==
  LET n == asked[t].name IN
  /\ phase[t] = "alias"
  /\ asked[t].type # "CNAME" /\ Cached(n, "CNAME")
  /\ \E alias \in cache[<<n, "CNAME">>] :
       Calls(t, ChainCalls(alias, cache[<<n, "CNAME">>], asked[t].type, 0), Pending)

Recurse(t) ==
  /\ phase[t] = "alias"
  /\ asked[t].type = "CNAME" \/ ~Cached(asked[t].name, "CNAME")
  /\ Calls(t, << RecFrame(asked[t].name, asked[t].type, 0) >>, Pending)

-----------------------------------------------------------------------------
(***************************************************************************)
(* resolve_recursive: what becomes of the message query_nameservers        *)
(* returns.  DNSSEC validation comes between an answer and its use and     *)
(* changes nothing: validate_response has no outcome the resolver rejects. *)
(***************************************************************************)
GiveUpTooDeep(t) ==
  /\ TooDeep(t)
  /\ Return(t, Err("ServerFailure"))
  /\ UNCHANGED <<cache, owed>>

Wanted(t, m) == {r \in m.answers : r.type = Top(t).type}

\* Variant: every record that was not asked for taken for a CNAME.
Aliases_AnyOther(t, m) == {r \in m.answers : r.type # Top(t).type}

Aliases(t, m) == {r \in m.answers : r.type = "CNAME" /\ r.type # Top(t).type}

NsNames(m) == [i \in 1..Len(m.ns) |-> m.ns[i].value]
GlueAt(m) == {i \in 1..Len(m.additional) :
                \E j \in 1..Len(m.ns) : m.ns[j].value = m.additional[i].name}
GlueAddrs(m) == {m.additional[i].value : i \in GlueAt(m)}

\* What a referral brings is cached by one insert for each NS record, and then
\* for each glue record, and others may read the cache between two of them.
\* Meanwhile the task does nothing else.
Inserts(m) ==
  {[at |-> i, record |-> m.ns[i]] : i \in 1..Len(m.ns)}
  \cup {[at |-> Len(m.ns) + i, record |-> m.additional[i]] : i \in GlueAt(m)}

CacheReferral(t, m) ==
  /\ owed' = [owed EXCEPT ![t] = Inserts(m)]
  /\ UNCHANGED cache

InsertNext(t) ==
  \E e \in owed[t] :
    /\ \A x \in owed[t] : e.at <= x.at
    /\ cache' = Insert(e.record.name, e.record.type, {e.record})
    /\ owed' = [owed EXCEPT ![t] = @ \ {e}]
    /\ UNCHANGED <<asked, phase, stack, result>>

NoMessage(t, m) ==
  /\ m.rcode = "none"
  /\ Return(t, Err("ServerFailure"))
  /\ UNCHANGED <<cache, owed>>

NoSuchName(t, m) ==
  /\ m.rcode = "NameError"
  /\ Return(t, Err("NameError"))
  /\ UNCHANGED <<cache, owed>>

Usable(m) == m.rcode \in {"NoError", "Other"}

Answer(t, m) ==
  /\ Usable(m) /\ Wanted(t, m) # {}
  /\ cache' = Insert(Top(t).name, Top(t).type, Wanted(t, m))
  /\ UNCHANGED owed
  /\ Return(t, Ok(Wanted(t, m)))

\* Variant: the CNAME cached under the type that was asked for.
AnswerAlias_WrongKey(t, m) ==
  /\ Usable(m) /\ Wanted(t, m) = {}
  /\ cache' = Insert(Top(t).name, Top(t).type, Aliases(t, m))
  /\ UNCHANGED owed
  /\ \E alias \in Aliases(t, m) :
       Continue(t, ChainCalls(alias, Aliases(t, m), Top(t).type, Top(t).depth))

AnswerAlias(t, m) ==
  /\ Usable(m) /\ Wanted(t, m) = {}
  /\ cache' = Insert(Top(t).name, "CNAME", Aliases(t, m))
  /\ UNCHANGED owed
  /\ \E alias \in Aliases(t, m) :
       Continue(t, ChainCalls(alias, Aliases(t, m), Top(t).type, Top(t).depth))

AnswerOther(t, m) ==
  /\ Usable(m) /\ m.answers # {} /\ Wanted(t, m) = {} /\ Aliases(t, m) = {}
  /\ Return(t, Ok({}))
  /\ UNCHANGED <<cache, owed>>

NoData(t, m) ==
  /\ Usable(m) /\ m.answers = {} /\ m.ns = <<>> /\ m.soa
  /\ Return(t, Ok({}))
  /\ UNCHANGED <<cache, owed>>

Lame(t, m) ==
  /\ Usable(m) /\ m.answers = {} /\ m.ns = <<>> /\ ~m.soa
  /\ Return(t, Err("ServerFailure"))
  /\ UNCHANGED <<cache, owed>>

IsReferral(m) == Usable(m) /\ m.answers = {} /\ m.ns # <<>>

SameReferral(t, m) ==
  /\ IsReferral(m) /\ NsNames(m) = Top(t).last_ns
  /\ CacheReferral(t, m)
  /\ Return(t, Err("ServerFailure"))

\* Variant: the glue taken without a look at whether there is any.
ReferralGlue_Unchecked(t, m) ==
  /\ IsReferral(m) /\ NsNames(m) # Top(t).last_ns
  /\ CacheReferral(t, m)
  /\ Continue(t, << [Top(t) EXCEPT !.last_ns = NsNames(m),
                                   !.servers = GlueAddrs(m)] >>)

ReferralGlue(t, m) ==
  /\ IsReferral(m) /\ NsNames(m) # Top(t).last_ns
  /\ GlueAt(m) # {}
  /\ CacheReferral(t, m)
  /\ Continue(t, << [Top(t) EXCEPT !.last_ns = NsNames(m),
                                   !.servers = GlueAddrs(m)] >>)

ReferralNames(t, m) ==
  /\ IsReferral(m) /\ NsNames(m) # Top(t).last_ns
  /\ GlueAt(m) = {}
  /\ CacheReferral(t, m)
  /\ Continue(t, << [Top(t) EXCEPT !.last_ns = NsNames(m),
                                   !.pc = "ns", !.todo = NsNames(m)] >>)

Receive(t, m) ==
  \/ NoMessage(t, m) \/ NoSuchName(t, m)
  \/ Answer(t, m) \/ AnswerAlias(t, m) \/ AnswerOther(t, m)
  \/ NoData(t, m) \/ Lame(t, m)
  \/ SameReferral(t, m) \/ ReferralGlue(t, m) \/ ReferralNames(t, m)

Query(t) ==
  /\ Querying(t)
  /\ \E a \in Top(t).servers : \E m \in Reply(a, Top(t).name, Top(t).type) :
       Receive(t, m)

(***************************************************************************)
(* resolve_recursive: the loop over the NS names of a referral without     *)
(* glue.  It stops at the first name that yields an address.               *)
(***************************************************************************)
Addresses(recs) == {r.value : r \in {x \in recs : x.type = "A"}}

\* Variant: a name that yields no address left in the list.
NextServer_Retry(f, recs) ==
  IF Addresses(recs) # {}
  THEN [f EXCEPT !.pc = "query", !.servers = Addresses(recs), !.todo = <<>>]
  ELSE f

\* The frame after the records recs of the first name in todo.
NextServer(f, recs) ==
  IF Addresses(recs) # {}
  THEN [f EXCEPT !.pc = "query", !.servers = Addresses(recs), !.todo = <<>>]
  ELSE [f EXCEPT !.todo = Tail(f.todo)]

NsCached(t) ==
  /\ Choosing(t) /\ Top(t).todo # <<>>
  /\ Cached(Head(Top(t).todo), "A")
  /\ Continue(t, << NextServer(Top(t), cache[<<Head(Top(t).todo), "A">>]) >>)
  /\ UNCHANGED <<cache, owed>>

NsResolve(t) ==
  /\ Choosing(t) /\ Top(t).todo # <<>>
  /\ ~Cached(Head(Top(t).todo), "A")
  /\ Continue(t, << Top(t), RecFrame(Head(Top(t).todo), "A", Top(t).depth + 1) >>)
  /\ UNCHANGED <<cache, owed>>

\* Variant: the first name server that cannot be resolved ends the search.
NsReturned_FailFast(t) ==
  /\ Returned(t, "ns")
  /\ IF result[t].status = "Ok"
     THEN Continue(t, << NextServer(Top(t), result[t].records) >>)
     ELSE Return(t, result[t])
  /\ UNCHANGED <<cache, owed>>

\* An error is an empty list of records: the loop goes on.
NsReturned(t) ==
  /\ Returned(t, "ns")
  /\ Continue(t, << NextServer(Top(t), result[t].records) >>)
  /\ UNCHANGED <<cache, owed>>

NsExhausted(t) ==
  /\ Choosing(t) /\ Top(t).todo = <<>>
  /\ Return(t, Err("ServerFailure"))
  /\ UNCHANGED <<cache, owed>>

(***************************************************************************)
(* follow_cname_chain: the target, and where it has no data its CNAME.     *)
(***************************************************************************)
TargetFound(t) ==
  /\ Returned(t, "target")
  /\ result[t].status = "Ok" /\ result[t].records # {}
  /\ Return(t, Ok(Top(t).chain \cup result[t].records))
  /\ UNCHANGED <<cache, owed>>

TargetEmpty(t) ==
  /\ Returned(t, "target")
  /\ result[t].status = "Ok" /\ result[t].records = {}
  /\ Continue(t, << [Top(t) EXCEPT !.pc = "alias"],
                    RecFrame(Top(t).name, "CNAME", Top(t).depth + 1) >>)
  /\ UNCHANGED <<cache, owed>>

\* Variant: what has been followed so far returned as an answer.
TargetFails_Swallow(t) ==
  /\ Returned(t, "target")
  /\ result[t].status # "Ok"
  /\ Return(t, Ok(Top(t).chain))
  /\ UNCHANGED <<cache, owed>>

TargetFails(t) ==
  /\ Returned(t, "target")
  /\ result[t].status # "Ok"
  /\ Return(t, result[t])
  /\ UNCHANGED <<cache, owed>>

\* The frame after the CNAME lookup: the chain grows by the CNAME records and
\* the last of them says where to go on; without any it stays where it is.
Cnames(recs) == {r \in recs : r.type = "CNAME"}

Followed(f, n, recs) ==
  [f EXCEPT !.pc = "target", !.name = n, !.chain = f.chain \cup Cnames(recs),
            !.iter = f.iter + 1]

NextName(f, recs) ==
  IF Cnames(recs) = {} THEN {f.name} ELSE {r.value : r \in Cnames(recs)}

AliasAgain(t) ==
  /\ Returned(t, "alias")
  /\ result[t].status = "Ok" /\ Top(t).iter + 1 < MaxChain
  /\ \E n \in NextName(Top(t), result[t].records) :
       Continue(t, << Followed(Top(t), n, result[t].records),
                      RecFrame(n, Top(t).type, Top(t).depth + 1) >>)
  /\ UNCHANGED <<cache, owed>>

AliasLimit(t) ==
  /\ Returned(t, "alias")
  /\ result[t].status = "Ok" /\ Top(t).iter + 1 = MaxChain
  /\ Return(t, Ok(Top(t).chain \cup Cnames(result[t].records)))
  /\ UNCHANGED <<cache, owed>>

AliasFails(t) ==
  /\ Returned(t, "alias")
  /\ result[t].status # "Ok"
  /\ Return(t, Ok(Top(t).chain))
  /\ UNCHANGED <<cache, owed>>

-----------------------------------------------------------------------------
\* The cache may lose any entry.
Forget(k) ==
  /\ k \in DOMAIN cache
  /\ cache' = [x \in DOMAIN cache \ {k} |-> cache[x]]
  /\ UNCHANGED <<asked, phase, stack, result, owed>>

\* What a task does between its queries.
Step(t) ==
  \/ LookupHit(t) \/ LookupMiss(t) \/ LookupAlias(t) \/ Recurse(t)
  \/ InsertNext(t) \/ GiveUpTooDeep(t)
  \/ NsCached(t) \/ NsResolve(t) \/ NsReturned(t) \/ NsExhausted(t)
  \/ TargetFound(t) \/ TargetEmpty(t) \/ TargetFails(t)
  \/ AliasAgain(t) \/ AliasLimit(t) \/ AliasFails(t)

Work(t) == Step(t) \/ Query(t)

Next ==
  \/ \E t \in Task, q \in Question : Ask(t, q)
  \/ \E t \in Task : Work(t)
  \/ \E k \in Name \X Type : Forget(k)

(***************************************************************************)
(* A spawned task is polled as long as it does not wait for the network.   *)
(* Nothing makes a query end: query_tcp writes and reads without a timeout *)
(* (module Upstream).  Nothing makes a client ask.                         *)
(***************************************************************************)
Fairness == \A t \in Task : WF_vars(Step(t))

Spec == Init /\ [][Next]_vars /\ Fairness

-----------------------------------------------------------------------------
Frame ==
  [pc : {"query", "ns"}, name : Name, type : Type, depth : Nat,
   servers : SUBSET Addr, last_ns : Seq(Name), todo : Seq(Name)]
  \cup
  [pc : {"target", "alias"}, name : Name, type : Type, depth : Nat,
   chain : SUBSET Record, iter : Nat]

\* Type invariant of the tasks and the cache.
TypeOK ==
  /\ asked \in [Task -> Question]
  /\ phase \in [Task -> {"idle", "cache", "alias", "calls"}]
  /\ stack \in [Task -> Seq(Frame)]
  /\ result \in [Task -> Result]
  /\ DOMAIN cache \subseteq Name \X Type
  /\ \A k \in DOMAIN cache : cache[k] \subseteq Record
  /\ owed \in [Task -> SUBSET [at : Nat, record : Record]]

\* The calls of a task never nest deeper than MAX_RECURSION_DEPTH allows,
\* whatever the network answers: the three ways of going deeper - a name
\* server's address, the target of a CNAME, the CNAME of that target - all
\* count, and through one another (the depth arguments of resolve_recursive
\* and follow_cname_chain).  The call that finds the limit passed is the last.
CallsBounded ==
  \A t \in Task :
    /\ Len(stack[t]) <= MaxDepth + 2
    /\ \A i \in 1..Len(stack[t]) : stack[t][i].depth = i - 1

\* query_nameservers always gets a server to ask: an empty list would be a
\* remainder by zero where it picks one (src/resolver/mod.rs:375).
ServersKnown ==
  \A t \in Task : Querying(t) => Top(t).servers # {}

\* What is cached under a key has the key's type, and is never an empty list,
\* whichever section of whichever message it came from: a cached CNAME can be
\* followed and a cached address used (the early ServerFailure returns of
\* follow_cname_chain are out of reach).
CacheTyped ==
  \A k \in DOMAIN cache : cache[k] # {} /\ \A r \in cache[k] : r.type = k[2]

\* Every question that is taken up is answered, one way or the other, if every
\* query it needs comes to an end, in a message or in none: neither what the
\* messages say nor what the cache forgets keeps it going for ever.
Answered(t) == WF_vars(Query(t)) => (phase[t] # "idle" /\ ~Done(t) ~> Done(t))

Terminates == \A t \in Task : Answered(t)
=============================================================================
