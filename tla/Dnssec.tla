------------------------------- MODULE Dnssec -------------------------------
(***************************************************************************)
(* DnssecValidator::validate_response (src/dnssec/mod.rs): every RRSIG of a *)
(* response is tried with every DNSKEY of it, until one verifies.  Each     *)
(* attempt reads the clock.                                                *)
(*                                                                         *)
(* Records are those of WireFormat, as the parser has left them, texts and   *)
(* labels already converted.  What is signed is their bytes, laid out and    *)
(* sorted as verify_rrsig does it.  Signatures are ideal: one verifies if it *)
(* has been made, of that data, by that key.                                *)
(***************************************************************************)
EXTENDS WireFormat

CONSTANTS
  Made,          \* the signatures there are: [scheme, key, data, signature]
  MaxTime        \* the clock counts seconds, up to here

ASSUME TimeAssumption == MaxTime \in Nat
ASSUME MadeAssumption ==
  \A m \in Made :
    m = [scheme |-> m.scheme, key |-> m.key, data |-> m.data, signature |-> m.signature]

VARIABLES
  now,           \* the clock, as the u32 the code makes of it
  stage,         \* "idle", "loop" or "over"; then the answer is "used" or "rejected"
  records,       \* the answers, authorities and additional records of the response
  sig, key,      \* the positions in records the two loops are at
  outcome,       \* the ValidationResult, or "none"
  began          \* history: the time the validation began

dnssecVars == <<now, stage, records, sig, key, outcome, began>>

-----------------------------------------------------------------------------
(* The fields of an RRSIG and of a DNSKEY. *)
TypeCovered(rrsig) == rrsig.rdata.head[1]
Algorithm(rrsig)   == rrsig.rdata.head[2]
OriginalTtl(rrsig) == rrsig.rdata.head[4]
Expiration(rrsig)  == rrsig.rdata.head[5]
Inception(rrsig)   == rrsig.rdata.head[6]
KeyTag(rrsig)      == rrsig.rdata.head[7]
KeyAlgorithm(dnskey) == dnskey.rdata.head[3]

\* compute_key_tag, with half bytes for bytes: flags are two of them.
ComputeKeyTag(dnskey) ==
  LET rdata == <<0>> \o dnskey.rdata.head \o dnskey.rdata.rest
      ac == MapThenSumSet(LAMBDA i : IF i % 2 = 1 THEN rdata[i] * 16 ELSE rdata[i],
                          DOMAIN rdata)
  IN  (ac + ac \div 256) % 256

\* What verifies a signature of each algorithm; that of RSASHA1 is the one of
\* RSASHA256.
Scheme ==
  5 :> "RsaSha256" @@ 8 :> "RsaSha256" @@ 10 :> "RsaSha512" @@ 13 :> "P256"
    @@ 14 :> "P384" @@ 15 :> "Ed25519"

\* An exponent, with its length before it, and a modulus.
RsaKeyOk(bytes) ==
  /\ bytes # <<>>
  /\ IF bytes[1] = 0
     THEN Len(bytes) >= 3 /\ 3 + bytes[2] * 256 + bytes[3] < Len(bytes)
     ELSE 1 + bytes[1] < Len(bytes)

Readable(scheme, public_key, signature) ==
  CASE scheme = "P256"    -> Len(public_key) = 64 /\ Len(signature) = 64
    [] scheme = "P384"    -> Len(public_key) = 96 /\ Len(signature) = 96
    [] scheme = "Ed25519" -> Len(public_key) = 32
    [] OTHER              -> RsaKeyOk(public_key)

VerifySignature(algorithm, public_key, data, signature) ==
  IF algorithm \notin DOMAIN Scheme \/ ~Readable(Scheme[algorithm], public_key, signature)
  THEN "Indeterminate"
  ELSE IF [scheme |-> Scheme[algorithm], key |-> public_key, data |-> data,
           signature |-> signature] \in Made
  THEN "Secure" ELSE "Bogus"

-----------------------------------------------------------------------------
(***************************************************************************)
(* rr_wires.sort(): byte by byte, and a sequence before its extensions.     *)
(***************************************************************************)
Before(u, v) ==
  \E n \in 1..Len(v) :
    /\ \A i \in 1..n - 1 : i <= Len(u) /\ u[i] = v[i]
    /\ n > Len(u) \/ u[n] < v[n]

\* Of two elements with a field to sort by; what is alike stays in order.
Less(e, f, field) == Before(e[field], f[field]) \/ (e[field] = f[field] /\ e.at < f.at)

\* The elements of E as a sequence, sorted by one of their fields.
SortedBy(E, field) ==
  [n \in 1..Cardinality(E) |->
     CHOOSE e \in E : Cardinality({f \in E : Less(f, e, field)}) = n - 1]

-----------------------------------------------------------------------------
(***************************************************************************)
(* verify_rrsig.  The records of the covered type are those of the whole    *)
(* response, whatever their names; their TTL is replaced.  They are sorted  *)
(* by their whole wire format, in which the length comes before the data.   *)
(***************************************************************************)
Covered(rrsig, recs) == {p \in DOMAIN recs : recs[p].type = TypeCovered(rrsig)}

RrWires(rrsig, recs) ==
  {[at |-> p,
    rdata |-> RDataBytes(<<>>, recs[p].type, recs[p].rdata),
    wire |-> RecordBytes(<<>>, [recs[p] EXCEPT !.ttl = OriginalTtl(rrsig)])] :
     p \in Covered(rrsig, recs)}

\* The RRSIG without its signature, and the covered records in an order.
InOrder(rrsig, order) ==
  rrsig.rdata.head \o ToWire(rrsig.rdata.names[1])
    \o FlattenSeq([n \in DOMAIN order |-> order[n].wire])

SignedData(rrsig, recs) == InOrder(rrsig, SortedBy(RrWires(rrsig, recs), "wire"))

\* Variant: the end of the period is not looked at.
InPeriod_NoEnd(rrsig, t) == t >= Inception(rrsig)

InPeriod(rrsig, t) == ~(t < Inception(rrsig) \/ t > Expiration(rrsig))

VerifyRrsig(rrsig, recs, dnskey, t) ==
  IF Algorithm(rrsig) # KeyAlgorithm(dnskey) THEN "Bogus"
  ELSE IF ~InPeriod(rrsig, t) THEN "Bogus"
  ELSE VerifySignature(Algorithm(rrsig), dnskey.rdata.rest, SignedData(rrsig, recs),
                       rrsig.rdata.rest)

-----------------------------------------------------------------------------
DnssecInit ==
  /\ now = 0
  /\ stage = "idle" /\ records = <<>> /\ sig = 1 /\ key = 1
  /\ outcome = "none" /\ began = 0

IsRrsig(p) == records[p].type = RT.RRSIG
IsDnskey(p) == records[p].type = RT.DNSKEY

StartValidation(recs) ==
  /\ stage = "idle"
  /\ records' = recs
  /\ began' = now
  /\ IF \E p \in DOMAIN recs : recs[p].type = RT.RRSIG
     THEN stage' = "loop" /\ outcome' = "none"
     ELSE stage' = "over" /\ outcome' = "Insecure"
  /\ UNCHANGED <<now, sig, key>>

Over(result) ==
  /\ stage' = "over" /\ outcome' = result
  /\ UNCHANGED <<now, records, sig, key, began>>

AtPair == stage = "loop" /\ sig <= Len(records) /\ key <= Len(records) /\ IsRrsig(sig)

\* What the pair is worth at time t; nothing if it is not tried at all.
Verdict(s, k, t) ==
  IF IsRrsig(s) /\ IsDnskey(k) /\ ComputeKeyTag(records[k]) = KeyTag(records[s])
  THEN VerifyRrsig(records[s], records, records[k], t)
  ELSE "none"

TryPair ==
  /\ AtPair
  /\ IF Verdict(sig, key, now) = "Secure"
     THEN Over("Secure")
     ELSE key' = key + 1 /\ UNCHANGED <<now, stage, records, sig, outcome, began>>

\* Variant: the keys are not gone through anew.
NextSignature_KeyKept ==
  /\ stage = "loop" /\ sig <= Len(records)
  /\ ~IsRrsig(sig) \/ key > Len(records)
  /\ sig' = sig + 1
  /\ UNCHANGED <<now, stage, records, key, outcome, began>>

NextSignature ==
  /\ stage = "loop" /\ sig <= Len(records)
  /\ ~IsRrsig(sig) \/ key > Len(records)
  /\ sig' = sig + 1
  /\ key' = 1
  /\ UNCHANGED <<now, stage, records, outcome, began>>

NoneVerified == stage = "loop" /\ sig > Len(records) /\ Over("Indeterminate")

Loop == TryPair \/ NextSignature \/ NoneVerified

\* Time passes; after the validation it is of no interest.
Tick ==
  /\ stage \in {"idle", "loop"} /\ now < MaxTime
  /\ now' = now + 1
  /\ UNCHANGED <<stage, records, sig, key, outcome, began>>

\* resolve_recursive: match validation.
UseOrReject ==
  /\ stage = "over"
  /\ stage' = IF outcome = "Bogus" THEN "rejected" ELSE "used"
  /\ UNCHANGED <<now, records, sig, key, outcome, began>>

\* The validation of some response or other.
DnssecNext(Responses) ==
  Loop \/ Tick \/ UseOrReject \/ \E recs \in Responses : StartValidation(recs)

DnssecSpec(Responses) == DnssecInit /\ [][DnssecNext(Responses)]_dnssecVars

-----------------------------------------------------------------------------
(* Signature m is that of the RRSIG at p, and its key is the DNSKEY at q. *)
Carries(p, q, m) ==
  /\ IsRrsig(p) /\ IsDnskey(q)
  /\ m.signature = records[p].rdata.rest
  /\ m.key = records[q].rdata.rest
  /\ Algorithm(records[p]) = KeyAlgorithm(records[q])
  /\ KeyTag(records[p]) = ComputeKeyTag(records[q])

\* What m signs is, in one order or another, what the response has of the covered
\* type, each record once.
CoversResponse(p, m) ==
  LET E == RrWires(records[p], records)
  IN  \E order \in Bijection(1..Cardinality(E), E) : m.data = InOrder(records[p], order)

InWindow(p, t) ==
  ~(t < records[p].rdata.head[6]) /\ ~(t > records[p].rdata.head[5])

\* A response is called secure only if a signature in it has been made by a key
\* in it over exactly the records of the covered type it brings, and was in its
\* period at some time of the validation (verify_rrsig): no record added to or
\* left out of the covered ones goes unnoticed, wherever in the message it is.
SecureIsSigned ==
  outcome = "Secure" =>
    \E m \in Made, p, q \in DOMAIN records, t \in began..now :
      Carries(p, q, m) /\ CoversResponse(p, m) /\ InWindow(p, t)

-----------------------------------------------------------------------------
(***************************************************************************)
(* What a signer signs by RFC 4034, 6.3: the records in the order of their  *)
(* data alone.                                                             *)
(***************************************************************************)
CanonicalData(rrsig, recs) == InOrder(rrsig, SortedBy(RrWires(rrsig, recs), "rdata"))

\* The covered records are one set, and their data is of one length.
OneSetOneLength(rrsig, recs) ==
  \A e, f \in RrWires(rrsig, recs) :
    /\ recs[e.at].name = recs[f.at].name /\ recs[e.at].class = recs[f.at].class
    /\ Len(e.rdata) = Len(f.rdata)
    /\ e.rdata = f.rdata => e = f

\* A signature that was made as RFC 4034 says, of what has been read, is found
\* whatever else is in the response, in any order: signatures that fail or cannot
\* be read, other keys with the same tag (validate_response goes on after a
\* failure).  Only where the covered records differ in length is the order of the
\* code another one ("Sort RRset by canonical wire format"), and may it be missed.
GoodSignatureFound ==
  outcome \in {"Insecure", "Indeterminate", "Bogus"} =>
    \A m \in Made, p, q \in DOMAIN records :
      ~ /\ Carries(p, q, m)
        /\ OneSetOneLength(records[p], records)
        /\ m.data = CanonicalData(records[p], records)
        /\ Algorithm(records[p]) \in DOMAIN Scheme
        /\ m.scheme = Scheme[Algorithm(records[p])]
        /\ Readable(m.scheme, m.key, m.signature)
        /\ \A t \in began..now : InWindow(p, t)

\* The answer is not used if signatures of it have been tried and each of them has
\* failed to verify ("DNSSEC validation failed (BOGUS)", resolve_recursive).
FailedRejected ==
  stage = "used" =>
    LET Tried == {v \in (DOMAIN records) \X (DOMAIN records) : Verdict(v[1], v[2], now) # "none"}
    IN  Tried # {} => \E v \in Tried, t \in began..now : Verdict(v[1], v[2], t) # "Bogus"
=============================================================================
