# A TLA+ development of the DNS server

Specifications of the recursive DNS server in `src/` (Rust, Tokio), the TLC
configurations that check them on small instances, and TLAPS proofs about the
answer cache, the zones, the resolver, its queries to other servers, the listeners,
the message parser and the DNSSEC validator. Paths below are relative
to the repository; `resolver` stands for `src/resolver/mod.rs`, `cache`, `zone`,
`server`, `doh`, `dnssec` likewise.

## 1. The system

| Part | State | Operations | Talks to |
|---|---|---|---|
| Answer cache (`cache`) | an LRU map (name, type) → entry behind one `RwLock` | `lookup`, `insert`, `clear`, `len` | called by every resolver task |
| Zones (`zone`) | the zones loaded at start, read only afterwards | `from_config`, `load_config`, `find_zone`, `lookup`, `has_name` | loaded by `main`, read by `resolve` |
| Resolver (`resolver`) | none of its own: the calls in progress | `resolve`, `resolve_recursive`, `follow_cname_chain` | zones, cache, upstream |
| Upstream (`resolver`, `query_nameservers`, `query_tcp`) | one socket and one query id per call | three attempts over UDP, TCP when the reply is truncated | the network |
| DNS server (`server`) | a UDP socket with its buffer, a TCP listener | `run_udp`, `run_tcp`, `handle_query` | one spawned task per query, which calls `resolve` |
| DoH server (`doh`) | an HTTP listener | `handle_request`, `handle_get`, `handle_post`, `process_dns_query` | as above |
| DNSSEC (`dnssec`) | none | `validate_response`, `verify_rrsig`, `verify_ds` | called by `resolve_recursive`, outcome not acted upon |
| Names, messages, record data (`dns/`) | none | parse and serialize | everyone |
| Start (`main.rs`) | the configuration | `main`, `load_config` | builds all of the above |

**What is hard.**
- *Cache*: a lookup reorders the map, so it is a writer; it reads the clock
  twice; `insert` stamps an entry before it has the lock; TTLs are whole seconds
  and the clock is not.
- *Resolver*: three kinds of nested calls that must all count against one limit;
  tasks that fill the cache for one another, one insert at a time, while entries vanish;
  errors of one name server or of one CNAME target that must or must not end a resolution.
- *Upstream*: one socket and id for all attempts, so replies come late, twice and
  from anybody; a fallback that may itself fail or hang.
- *Servers*: replies in any order, a shared receive buffer, queries that hang.
- *Messages*: input of any bytes: pointers in circles, lengths that lie, records cut
  in half; one offset that every parser moves, also when it fails; a parsed message
  that is written again.
- *DNSSEC*: keys with equal tags, signatures that fail next to ones that verify, a
  clock that is read for every attempt, signed data put together and sorted anew.
- *Zones*: nested zones, and a file that is refused halfway.

**What makes each part correct.**
- *Cache*: map and recency list agree; the least recently used entry goes;
  nothing is handed out for longer than its TTL, nor than a day.
- *Zones*: the closest zone answers; a server never serves half a file.
- *Resolver*: what it says is true; what exists is found; calls are bounded; a
  question ends if the queries it needs do.
- *Upstream*: what it returns was received, as it is; no reply that was read
  is thrown away; only a TCP peer can hold a call up.
- *Servers*: each client gets the reply to its own query, whole or emptied under the
  TC flag, whatever happens to the others.
- *Messages*: parsing ends, reads nothing outside the message, reads back what was
  written, and of a message that was cut, what is before the cut.
- *DNSSEC*: secure means signed; a signature that is good is found, where the order in
  which the code sorts is the one in which signers sign.

The hazards, line by line, are in `PROJECT.json`.

## 2. The modules

```
CacheEntry ── DnsCache ── CacheHistory ── MCDnsCache      Upstream  ── UpstreamProofs
     │                          └──────── DnsCacheProofs
     └─────── SoftCache (abstract), which DnsCache implements
Zones ── ZoneStore ── MCZoneStore
  │  │       └────── ZoneStoreProofs
  │  └── ZonesProofs, which ZoneStoreProofs and ResolverProofs use
  └───── Resolver ── MCResolver ── MCLoopNet, MCSampleZone
             │            └─────── MCHonestNet
             └────── HonestNet ────────┘
                         └──────── ResolverProofs
FrontEnd ── MCFrontEnd
     └───── FrontEndProofs
WireFormat ── Wire ──── WireReply ──┐
     │         └── WireProofs       ├── Received ── MCWire
     └─────── Dnssec ───────────────┘    └──── ReceivedProofs, which uses WireProofs
```

A definition `D_Word`, introduced by the comment "Variant", is the definition `D`
with a mistake a programmer could make. Nothing uses it but the mutants of
`PROJECT.json`, each of which shows that one property notices one mistake.

**CacheEntry, DnsCache.** `cache` is the map, `lru` the order the `lru` crate keeps,
`clock` the `Instant`, in `TicksPerSec` ticks to a second. `op[t]` says what task
`t` is doing. An action is what happens between two points at which another
thread can be noticed. `lookup` is `LookupMiss`, `LookupExpired`, or `LookupFound`
and `LookupServe` with the clock free to move in between and the lock held;
`insert` is `InsertStamp` and `InsertPut` with anything in between; `clear` is
`Clear`. A lookup that has returned leaves what it read in `op`, for the
properties.

**SoftCache.** What the resolver may assume: a store that loses entries whenever it
likes, invents none, hands out one that was alive during the lookup, with no more
time to live than it has. Module Resolver's cache is this one without a clock.

**CacheHistory.** DnsCache with one more variable, `older`: which cached key was used before
which, from what the tasks did, so that "least recently used" does not mean "last in the
list".

**Zones, ZoneStore.** Names are label sequences; a zone is built by `FromConfig`, as
`Zone::from_config` does it, with the empty label that `format!` leaves at the end of a host
name of the root zone. `ZoneStore` loads a file one definition per step.
Values are opaque; any reason to refuse a record is one unknown type.

**Resolver.** Async functions that call one another are frames of an explicit
`stack[t]`; a step goes from one await to the next. `Ask…` are the zone check of
`resolve`, `LookupHit`, `LookupMiss`, `LookupAlias` and `Recurse` its two cache
lookups, each a step because tasks interleave there. `Query` receives a message
and does what the branch of `resolve_recursive` for it does, to the next query,
call or return: `NoSuchName`, `Answer`, `AnswerAlias`, `NoData`, `Lame`,
`SameReferral`, `ReferralGlue`, `ReferralNames` and so on. `Ns…` is the loop over the
name servers of a referral without glue, `Target…` and `Alias…` are the two awaits of
`follow_cname_chain`. What the network may answer is the constant `Reply`, so a
theorem about the module is one about every network. The records of a list are a
set, except those of the authority and additional sections, which a referral has cached one
by one, in their order: `owed[t]` are those that are left to insert, `InsertNext` puts the
next one, as the lock is given up between two of them, and the task does nothing else before
the last is in.

**HonestNet.** What the answers of module Resolver can be held against. The constant
`Truth` is every record there is; `Chain` is where the aliases lead from a name.
`NetworkHonest` says of the constants `Reply` and `ZoneList`: no record that does not
exist, no name error or empty answer for what exists, one alias at most of a name, and
zones that tell the whole truth of the names they contain. A server may always fail,
refuse, say less or refer to any true records; referrals may lead anywhere, in circles
too. It excludes what `zone:130` does with NS records of delegated subdomains, which
answer for the apex (section 4). `AnswersTrue` is what the resolver may say then.

**Upstream.** One call of `query_nameservers`. `flight` holds the datagrams on their way to
the socket. Any host may send any number of them at any time, whether it has been asked or
not: a reply to the query, whole or truncated, or anything else (unparsable, or with another
id), since the code drops the sender `recv_from` tells it and compares the id. `kept` is the
truncated reply that is returned if TCP fails; `read`, a history, is all that was received.

**FrontEnd.** `task[c]` is the query of client `c`: waiting at a socket, taken in by
the loop of its listener, at the resolver, replied to or dropped. `buf` is the
buffer `run_udp` receives into. Sizes are numbers; `UdpReply`, `TcpReply` and
`DohReply` are what each transport makes of a response, which has the TC flag of the query,
whose header `make_response` copies. A query or an answer with a label that is not UTF-8 is
`odd`: `run_udp` may or may not be able to read its own response again to truncate it. The
resolver is the constant `Outcome`; a query with no outcome hangs.

**WireFormat, Wire.** A message is a sequence of cells: a fixed field is one cell
whatever its width, and so is a byte of a name, a text or raw data, as it is those
that have lengths. `WireFormat` has the layout of the record types (fields, then names, then the
rest), and `Serialize`. `Wire` is the parser on any input: its variables are the local
variables of `DnsMessage::parse`, `DnsName::parse` and `RData::parse`, and its actions the
iterations of their loops: `NameEnd`, `ReadLabel`, `FollowPointer` and the three ways a
name fails; `ParseFixed`, then a `NextName` for each name of the record, then one action
for each kind of rest. `Fail` is what an error does: it ends the message while
questions are read, and only the section later. `Panic` is an index out of range.

**WireReply.** What has been read is answered (`Respond`) and read again by the
client, so that what a lossy conversion of text makes of a label is written, too. It also
says what it is for cells to hold a message (`Holds`): which cells, and where, without the
parser and without `Serialize`, so that `RoundTrip` is not about the one writer that the
program has. A name may be written in any way that says it, with pointers to what is
before or behind it.

**Dnssec.** The two loops of `validate_response` over the records of a response: `sig` and
`key` are where they are, `TryPair` is one attempt with its reading of the clock,
`NextSignature` and `NoneVerified` the rest. Signed data are the bytes the code lays
out of what the parser made of the records, texts and labels converted, and sorted by `Less`
as `rr_wires.sort()` does, by the whole record with the length ahead of the data. A signature
verifies if it is one of `Made`, of that data. `CanonicalData` is what a signer signs by RFC
4034, 6.3, in the order of the data alone. `UseOrReject` is what `resolve_recursive` does
with the result.

**Received.** The composition: a parsed message is answered, or its records are
validated, at a time of the clock.

## 3. The runs

All runs pass unless marked; TLC explores them completely.

| Run | Shows | Bounds, and why they are enough |
|---|---|---|
| `cache` | `ServedWithinTtl`, `LruConsistent`, `ReaderExclusive`, `ImplementsSoftCache`, `EvictsLeastRecentlyUsed` | two tasks; three keys in a map of two (the default size), so that every eviction has a choice; lists with no record, a TTL of zero, two TTLs, and one over the cap, which is two seconds; four half-second ticks: an entry lives through its cap, and is read between two seconds; symmetric in keys and tasks, which no definition tells apart; `older` is a history of uses that ignores the list it is compared with |
| `zone_lookup` | `ClosestZoneAnswers`, `ServesWholeFile` | all files of up to three of seven definitions: nested, neighbouring, repeated and refused zones and the root zone, in every order |
| `resolver_wild` | `CallsBounded`, `ServersKnown`, `CacheTyped` | servers that answer anything from eleven messages, calls nested to `MaxDepth` 1 (the limit is passed at depth 2), chains of two |
| `resolver_honest` | `AnswersTrue` | two tasks sharing the cache, servers that may always fail instead; a delegation without glue and one with, an alias, a zone of the resolver's own with an alias out of it, a name server that does not exist; `NetworkHonest` is evaluated (`HonestyAssumption`) |
| `resolver_reliable` | `AnswersComplete`, `Terminates` | the same network without failures, eight questions, one task; each query comes to an end |
| `upstream` | `NoReplyWasted`, `AnswerReceived`, `EndsOrReadsTcp`, `CutOnlyAfterTcp` | two servers and a host that is none, the code's three attempts, two datagrams in flight |
| `front_end` | `RepliesMatch`, `WholeOrMarked`, `OthersServed` | two clients on three transports, seven queries: short and with the TC flag set, with an answer over the datagram's size, with questions over it by themselves, hanging, unreadable, without a question, with a label that is not UTF-8 |
| `wire` | `OnlySlicesPanic`, `NamesMeanWhatTheySay`, `NoNameRefused`, `RoundTrip`, `UpToTheBreak`, `WorkShrinks`, `Terminates`; `SecureIsSigned`, `GoodSignatureFound` | messages with every layout of record data, compressed or not, whole, cut at every position, or with any cell changed to three values; every body of up to four cells from two lengths, a letter's place and pointers to itself and out of the message; labels of 63 and 64 bytes that are not UTF-8; names of as many pointers as are followed, and of one more; responses with up to two of three signatures and up to two of three keys, two of them with the same tag, and a record of the covered type elsewhere; two signed texts, of one length and of two, in either order |
| `resolver_loops` (violation) | `ReferralLoopsEnd` | two servers that refer to each other |
| `ns_cached` (violation) | `NsAnswerWhole` | a referral with two name servers |
| `zone_alias` (violation) | `ZoneAliasAnswered` | the sample zone |
| `dnssec_rejects` (violation) | `FailedRejected` | the signed responses of `wire` |

`cache`, `resolver_wild`, `upstream`, `front_end` and `wire` also check the `TypeOK` of their
module.

Bounds: `MaxClock` (DnsCache), `MaxDepth` and `MaxChain` are the code's own limits
made small (Resolver), `MaxFlight` (Upstream), `MaxJumps` (Wire: 128 in the code, 2 here,
which short messages can pass), `BodySize` (MCWire), `MaxTime` (Dnssec: time enough for the
one signature to begin and to end). A cell has eight bits, so the lengths and counts that are
sixteen in the code wrap at 256 (`WireFormat`). In Dnssec a key tag has 8 bits and is the sum of
half bytes, and the clock is before 2106, when `as u32` would wrap; in Received the
clock stands while the server answers, as it does not look. Deadlock is checked except in
`upstream` (a call ends), `zone_lookup` (the program may exit) and `front_end`
(likewise).

**Fairness.** Resolver: a spawned task is polled, and that is all `Spec` assumes. That a query
comes to an end is no fairness of the scheduler, and the code does not see to it:
`query_tcp` has a timeout for the connection but none for what it writes and reads
(`resolver:454`). `Terminates` therefore has it as its hypothesis (`Answered`), and says that
nothing else keeps a question going, in a network whose referrals do not go in circles.
Upstream: the call is polled and its timers fire, but nothing makes a TCP peer speak, which
is why `EndsOrReadsTcp` is the strongest that holds. DnsCache has no liveness property: one lock,
never held while another is taken, leaves nothing to ask for but that it is given out in turn.
Received: parser and validator await nothing, so they are never kept from a next
step, and the clock does not tick for ever between two of them.
FrontEnd: sockets hand out in order of arrival and tasks are polled; no
resolution need end.

## 4. Where the code and its documents part

Shown by a run:
- `resolver_loops`: "Prevent loops" (`resolver:250`) compares a referral with the
  previous one only; two servers that refer to each other in turn, or a list that
  comes in another order each time, keep the loop going. Nothing counts referrals.
- `zone_alias`: `follow_cname_chain` never looks into the zones. The `www` alias of
  the sample zone is resolved from the root servers and ends in their name error,
  against "Automatically follows CNAME chains" (README.md:9).
- `dnssec_rejects`: a response whose signatures all fail is used. `validate_response` is
  never `Bogus`, so that the arm of `resolve_recursive` that rejects ("DNSSEC validation failed
  (BOGUS)", `resolver:176`) is never taken, against README.md:12.
- `ns_cached`: each NS record of a referral replaces the previous one in the cache
  (`resolver:213`), and an NS question gets the last alone.

Modelled as they are, without a run of their own:
- a name an authoritative zone lacks is asked of the network (`resolver:80`);
- NS records of delegated subdomains answer for the apex (`zone:130`);
- `cache_size` bounds entries, not records (`config/config.toml:6`);
- the questions of a truncated response stay and may exceed 512 bytes (`server:74`);
- the TCP prefix wraps above 65535 bytes (`server:123`);
- a truncated reply whose TCP retry fails counts as whole (`resolver:406`);
- the TC flag of a query comes back with the whole answer, over TCP and HTTP too, as
  `make_response` copies the query's header (`dns/message.rs:96`);
- a datagram of any host that bears the id is the reply (`resolver:394`), and the TCP query goes
  to the server of the attempt, whoever sent the truncated reply (`resolver:401`);
- an alias is dropped from an answer that brings the target's record beside it
  (`resolver:153`);
- hosts of a zone named "." get names that end in an empty label, which no question has
  (`zone:76`);
- an insert that waits for the lock may put its entry over a younger one (`cache:104`);
- an error of one listener ends the program (`server:34`);
- `max-age=300` on every answer over HTTP, whatever its TTL (`doh:248`), where RFC 8484
  §5.1, which README.md:13 names, bounds it by the TTL;
- a name in RRSIG or NSEC data that ends behind that data makes a slice that begins
  behind its end, and the task panics (`dns/rdata.rs:365`, `:381`): the only panic of the
  parser (`OnlySlicesPanic`), and its client gets no reply;
- a record that does not parse ends its section, and the next section is read from
  wherever that was (`dns/message.rs:39`): what is read behind a cut may be records nobody
  sent, and the message counts as whole (`UpToTheBreak` says nothing behind it);
- a label that is not UTF-8 grows threefold; from 192 bytes on it is taken for a
  pointer when it is read back (`dns/name.rs:73`), and a text that grows past 255 bytes, or
  names that no longer share what they were compressed to, past what their lengths can say
  (`dns/rdata.rs`): what `Writable` excepts from `RoundTrip`, of replies only;
- a signature made as RFC 4034 says may be missed where the covered records differ in the length
  of their data, since they are sorted with the length ahead of it (`dnssec:157`;
  `GoodSignatureFound` excepts it), and where a text or label of them is not UTF-8,
  since what is compared has been converted (`dns/name.rs:126`, `dns/rdata.rs:234`);
- what a signature covers is every record of its type in the response, whoever owns
  it (`dnssec:143`): glue of that type makes a good signature fail;
- `Secure` says that some key in the response signed something in it: no chain
  leads to a trust anchor, as nobody calls `verify_ds`; the signer's name is compared
  with nothing; RSASHA1 is verified with SHA-256 (`dnssec:197`).

## 5. What is proved

The proofs hold for every value of the constants, from the assumptions the modules
state about them (`TicksAssumption`, `ConfigAssumption`, `ReplyAssumption` and the
others, each of which TLC evaluates in the runs), and for `Spec` without its fairness.
Each module has the same shape: an inductive invariant, `InitInv`, `NextInv` with a
step per action, and the theorems as its consequences.

**`DnsCacheProofs`** - all keys, tasks, record lists, capacities, clock resolutions.
`CacheInv` adds to `LruConsistent` and `ReaderExclusive` that every entry, in the map or
in a task's hands, says no more time than any of its records has, nor than the cap
(`EntriesHonest`),
and that an entry being read was alive at the first reading of the clock
(`ReadAlive`). Without the first, `ServedWithinTtl` is not inductive, since an entry is
stamped by one step and put by another; without the second the subtraction in
`remaining_ttl` could not be bounded. On the way: what the recency list operations do to
a list without duplicates (`WithoutProperties`, `MoveToFrontProperties`), and that the
minimum over the records is one. For the evictions, the invariant of `HistorySpec` is that the
list is in the order of the history (`Ordered`): a key that is used goes ahead of all
others in both (`MoveToFrontOrdered`), one that expires leaves the others in theirs
(`WithoutOrdered`), and a map that is full, by counting, has the last of the list to drop
(`ListCounts`, `EvictsLast`). Theorems: `TypeCorrect`, `LruAlwaysConsistent`,
`NeverServedLate`, `LookupsExclude`, `EvictionIsLru`, and `CacheImplementsSoftCache`, the
refinement.

**`ZonesProofs`, `ZoneStoreProofs`** - every zones file, names of any depth. That
`find_zone` has a maximum to return, which is the last zone of those with the longest
name (`ClosestFound`), is shared with the resolver. `IInv` says that zones and definitions
agree as far as they have been loaded (`Loaded`), and that the last reply is what the zones
say now (`Said`); `ServesWholeFile` alone is not inductive, as it says nothing while the file
is loaded. The rest is about names: the walk from parent to parent, a recursive
function, reaches the suffixes of a name (`AncestorIsSuffix`, by a least counterexample,
since induction is out of reach), so that the longest zone name that is a suffix is the
first one the walk meets (`FindZoneIsHome`), and a zone says what its definition does
(`ZoneSaysDefinition`). Theorems: `ClosestZoneAlwaysAnswers`, `WholeFileServed`.

**`ResolverProofs`** - every network (`Reply` is any operator that returns messages),
zone list, number of tasks and pair of limits. `IInv` says of each stack that the call at
position *i* has depth *i* - 1, that one which is past its depth check has passed it,
that one about to query has servers (`Sound`), and that one which waits for a name
server waits for the first name of a list that is not empty (`AtName`); and of the cache
that what is under a key has its type (`GoodCache`), as have the records of a referral
that are yet to be put there (`Stored`). `CallsBounded` alone is not
inductive: whether a step may push a call shows in the `pc` of the frame below, and that
what it pushes asks about a name shows in the type of the record it read, maybe from
the cache. Theorems: `TypeCorrect`,
`RecursionBounded`, `AlwaysAServer`, `CacheAlwaysTyped`.

`OnlyTheTruth` is about every network and list of zones that are honest (`NetworkHonest`, which
the runs' networks are), and needs an invariant about every call in progress, since an
answer is put together on the way down and up again. `TruthInv`
says of each call on a stack what it is there to answer, which is what the call below waits
for and in the end the client's question (`Wants`, `AskedAt`); that a chain
holds aliases of that name only and has come to a name on the way (`Serves`); that when an
alias is looked for, nothing else was there to find; that a result on its way down
answers what the call below waits for (`TrueResult`); and that what is cached under a name is
true of something its aliases lead to (`TrueCache`), as a server may send the target's
records beside the alias, while what is owed to the cache is true itself (`TrueStore`). That
following aliases loses no end of them is `EndsKept`, and there one alias
per name is needed: with two, the code follows one and denies the other's data.

**`UpstreamProofs`** - any set of servers, number of attempts, and datagrams in flight.
`IInv` ties what has been read to how far the call is: only aliens while it still makes
attempts (`OnlyAliens`), and while it falls back the truncated reply that it holds on to, with a
server that has been sent the query (`FallingBack`). Theorems: `TypeCorrect`,
`RepliesAreUsed`, `AnswersAreReceived`, `TcpBeforeCut`.

**`FrontEndProofs`** - any clients, queries and outcomes of the resolver, limit of a
datagram and range of the prefix. `IInv` says of each client that the task at work on its
query has a copy of that very query (`Working`), and that a message it was sent answers
what it asked, whole or emptied under the flag (`Answered`). `RepliesMatch` alone is not
inductive: a reply is made from the copy. What each
transport makes of a response is `Delivered`. Theorems:
`TypeCorrect`, `OwnReply`, `NothingCutSilently`.

**`WireProofs`** - any input bytes, any limit on jumps. `IInv` says that the data of the
record in progress lies in the message (`DataInside`), that there are as many names as
the layout has room for (`NamesCounted`), and that before the names of a record are read the
offset has not passed its data (`BeforeNames`). `OnlySlicesPanic` alone is not inductive: that
raw data is cut out inside the message depends on the check made when the data began.
What a name says is defined without the parser: `Readings(d)[n]` reads the names of
at most *n* parts, each from the ones a part shorter, and `Meaning` takes *n* as large as
the message. As the parser may take more steps than that, the proof shows that a reading that
has been found stays the same with more parts (`SaidStays`), and that there are none longer
than the message, since a name whose parts are at fewer positions than it has parts
repeats one, and never ends (`HeardByThen`, by the pigeonhole principle). The inductive
invariant, `ReadSoFar`, says that the labels read, and what the rest says at the position
at hand, are what the whole name says, however long the rest is.

That parsing ends is liveness, but the argument for it is not: `Work` is a list of five
numbers, from the sections to the cells that are left, and every step makes it less, as a
dictionary orders it (`WorkShrinks`). A failed record takes its section's count to zero, a
pointer is paid for by the jumps, a label or a text, even one of no length, by its
length byte. The numbers stay natural as the offset stays in the message (`Within`).

`NamesRead` would hold of a parser that refuses every name; `ReadableNamesRead` is the other
direction: a name that says something with no more than `MaxJumps` pointers is never left for
an error. `Readings` counts the pointers for it. Where the parser is in such a name, it can go
on (`NameGoesOn`): the rest says something too, with the pointers that are left.
Theorems: `TypeCorrect`, `ReadsInside`, `NamesRead`, `ReadableNamesRead`, `ParsingEnds`. They
are about the `Spec` of module Wire.

**`ReceivedProofs`** - the composition, with the reply and the validation: any messages, any
signatures, any clock.

*What is sent is read.* `RepliesReadBack` and `CutMessagesRead` have one hypothesis, `SentAsKnown`:
an input that is said to be a message, or the first cells of one, is that (`Holds`). It
assumes nothing of the rest of the inputs, nor how the message was written, and the module
that TLC runs assumes it of the whole messages, position by position (`MCWire`, its `ASSUME`).
Three arguments meet:
- `ReadAsWritten`: as long as the parser has not come to a cut, it stands where the message
  that the cells hold has its next item, name or text, with all that is before in its hands
  (`Follows`); behind a cut, the sections before it are whole and the one with the cut
  has the records before it (`Broken`), whatever becomes of the others. `RoundTrip` alone is far
  from inductive, as it speaks of the end only. That a step keeps it needs, of a name,
  that `Meaning` is the same in the first cells of a message as in all of it, where the
  former says anything, and that its pointers can be followed (`ReadableNamesRead`); of a
  record, that each of the five kinds of data is read to the length that was written.
- `ReadTyped`: what is in the parser's hands, on any bytes, are names, numbers and texts that
  `serialize` is made for, with lengths that agree with the type where the parser
  checked them: the length of addresses, fields and counts.
- `WrittenHolds`: what `serialize` writes of such a message holds it, if it is `Writable`. The
  concatenations over labels, names, records and sections are recursive functions over
  `Nat`; a property of all their values is proved as one of the least number without it
  (`AllNaturals`).

The second and third make a reply one more message that is known (`RespondKeeps`), so the
first applies to what the client reads. The attempt corrected the properties: `Writable` said
nothing of texts, and of data that grows when what was compressed is written out; it was
demanded of requests too, which are read whatever they are; and `UpToTheBreak` said
that a cut message makes no panic, which depends on what is read behind the cut.

*The validation.* `DInv` says that every pair before the one at hand has been tried, at some
time of this validation, and was not secure then (`PairsTried`), and that an outcome has
its reason (`OutcomeFounded`). `SecureMeansSigned` and `GoodSignaturesFound` are about
any sequences of records (`DnssecSpec`). What is to be shown of the order is that the code's is
a strict total one, on sequences of cells (`BeforeIsTotal`, `LessIsOrder`), so that to sort is
to enumerate each record once (`SortedIsBijection`), and that where all data is of one
length, and what is ahead of the data is the same, it is the order of the data alone
(`SameOrder`, by `SortedAlike`).

*Together.* `RInv` is all of this, for `ReceivedSpec`, which is what the run `wire` checks: what
the validator is given are sequences of records since the parser's sections are
(`ValidateKeeps`). `AnyMessageRead` and `AnyMessageEnds` carry the theorems of
`WireProofs` over the reply, and `AnyMessageValidated` those of the validation to the records of a
message, so that every safety and action property of the run has its theorem.

**Only model-checked**: liveness (`Terminates`, `EndsOrReadsTcp`, `OthersServed`), which is
beyond the prover, though for the parser only the fairness is missing; and
`AnswersComplete`, which is about one network: that the limits are large enough for its
delegations.

## 6. Not modelled

Cryptography (signatures are ideal), `verify_ds` (nobody calls it), texts over 255 bytes
(`chunks(255)` has no effect below), the text forms of names and records (`Display`,
`from_str_type`), UTF-8 sequences of more than one byte except the replacement character,
TLS and certificate files, configuration parsing, logging. In module Resolver DNSSEC is
its effect, none, as no outcome is `Bogus` (`dnssec_rejects`).

## 7. Plan

Done: cache, zones, resolver, upstream, front end, messages, DNSSEC, and the proofs
above.

Left: a composition of DnsCache with one resolution, with the clock, since a cached CNAME is
delivered, with the TTL it had, after its target has been awaited (`resolver:104`); and
`verify_ds`, if anything comes to call it.
