------------------------------ MODULE DnsMessage ------------------------------
(***************************************************************************)
(* The messages of the two DNS clients, async_dns_client_noblock.c and     *)
(* test5/dnstest.cpp, byte by byte: how a host name becomes a question and *)
(* how the address records of an answer are found behind compressed names. *)
(*                                                                         *)
(* Positions count from 0 as in the code.  The identifier and the flags    *)
(* are zeros here.  The name server is external: it answers a well-formed  *)
(* question with records whose owner is a pointer, and rejects any other.  *)
(* A loop of the code is a function from the number of its turns to what   *)
(* it works on, for as many turns as the loop may take.                    *)
(***************************************************************************)
EXTENDS Integers, Sequences, FiniteSets

CONSTANTS HostNames,       \* sequences of letters and dots
          Junk,            \* what uninitialized bytes may hold
          LabelLimit,      \* 63: the longest label, and test5 refuses one as long
          MaxRecords       \* bound: records in an answer

VARIABLES dns,             \* which client: "async" or "test5"
          hostname, request, records, response, reported,
          stage

vars == <<dns, hostname, request, records, response, reported, stage>>

Dot == 46
Pointer == 192
HeaderSize == 12
DNS_HOST == 1
DNS_CNAME == 5
Other == 28                \* any type that neither client knows

At(m, p) == IF p < Len(m) THEN m[p + 1] ELSE 0
Bytes(m, p, n) == [i \in 1..n |-> At(m, p + i - 1)]
U16(m, p) == 256 * At(m, p) + At(m, p + 1)
PutU16(v) == <<v \div 256, v % 256>>

-----------------------------------------------------------------------------
(* Encoding *)

\* Where the label that begins at i ends: find_first_of, or strtok.
LabelEnd(host, i) ==
  CHOOSE e \in i..(Len(host) + 1) :
    /\ e = Len(host) + 1 \/ host[e] = Dot
    /\ \A k \in i..(e - 1) : host[k] # Dot

Label(host, i) == <<LabelEnd(host, i) - i>> \o SubSeq(host, i, LabelEnd(host, i) - 1)

\* A turn of dns_create_question, from position at on; strtok passes over empty labels.
Token(host, q) ==
  LET end == LabelEnd(host, q.at) IN
  IF q.at > Len(host) THEN q
  ELSE [at |-> end + 1, out |-> IF end = q.at THEN q.out ELSE q.out \o Label(host, q.at)]

Tokens(host) ==
  LET turn[k \in 0..Len(host)] ==
        IF k = 0 THEN [at |-> 1, out |-> <<>>] ELSE Token(host, turn[k - 1])
  IN  turn[Len(host)].out

\* dns_create_question: the question has strlen + 2 bytes, whatever was written to it: the
\* labels, the end of the last one if there is one, and what malloc left.
dns_create_question(host, junk) ==
  LET labels == Tokens(host)
      written == IF labels = <<>> THEN <<>> ELSE labels \o <<0>>
  IN  written \o [i \in 1..(Len(host) + 2 - Len(written)) |-> junk]

\* A turn of encode_hostname: an empty label and a long one end it.
EncodeLabel(host, q) ==
  LET end == LabelEnd(host, q.at) IN
  IF q.at > Len(host) \/ end - q.at < 1 \/ end - q.at >= LabelLimit THEN q
  ELSE [at |-> end + 1, out |-> q.out \o Label(host, q.at)]

Encoding(host) ==
  LET turn[k \in 0..Len(host)] ==
        IF k = 0 THEN [at |-> 1, out |-> <<>>] ELSE EncodeLabel(host, turn[k - 1])
  IN  turn[Len(host)]

\* create fails, which dns_commit does not look at: there is no final zero, and qtype
\* and qclass are not set.
Rejected(host) == host = <<>> \/ Encoding(host).at <= Len(host)

encode_hostname(host) == Encoding(host).out \o (IF Rejected(host) THEN <<>> ELSE <<0>>)

Header(questions, answers) ==
  PutU16(0) \o PutU16(0) \o PutU16(questions) \o PutU16(answers) \o PutU16(0) \o PutU16(0)

\* dns_build_request of the asynchronous client
dns_build_request(host, junk) ==
  Header(1, 0) \o dns_create_question(host, junk) \o PutU16(1) \o PutU16(1)

\* dns_build_request of test5
test5_build_request(host, junk) ==
  Header(1, 0) \o encode_hostname(host)
    \o (IF Rejected(host) THEN <<junk, junk, junk, junk>> ELSE PutU16(1) \o PutU16(1))

-----------------------------------------------------------------------------
(* Decoding *)

\* Turns that are enough for a name, as a label takes two bytes at least, and a pointer two.
Enough(m) == Len(m) \div 2

\* A turn of dns_parse_name; the call for a pointer goes on with the name so far.
ParseLabel(m, q) ==
  LET flag == At(m, q.ptr)  after == q.ptr + 1 + flag IN
  CASE flag = 0 -> q
    [] flag >= Pointer -> [ptr |-> At(m, q.ptr + 1), out |-> q.out]
    [] OTHER -> [ptr |-> after,
                 out |-> q.out \o Bytes(m, q.ptr + 1, flag)
                               \o (IF At(m, after) # 0 THEN <<Dot>> ELSE <<>>)]

dns_parse_name(m, ptr) ==
  LET turn[k \in 0..Enough(m)] ==
        IF k = 0 THEN [ptr |-> ptr, out |-> <<>>] ELSE ParseLabel(m, turn[k - 1])
  IN  turn[Enough(m)].out

SkipLabel(m, ptr) == IF At(m, ptr) = 0 THEN ptr ELSE ptr + At(m, ptr) + 1

\* The end of the name in the question.
SkipName(m, ptr) ==
  LET turn[k \in 0..Enough(m)] == IF k = 0 THEN ptr ELSE SkipLabel(m, turn[k - 1])
  IN  turn[Enough(m)] + 1

FirstRecord(m) == IF U16(m, 4) = 0 THEN HeaderSize ELSE SkipName(m, HeaderSize) + 4

\* Mutant of NextRecord: the data of an alias is not passed over.
NextRecordAlias(type, data, datalen) == IF type = DNS_HOST THEN data + datalen ELSE data

\* Where the record behind this one is looked for: the data of a type that the
\* code does not know is not passed over.
NextRecord(type, data, datalen) ==
  IF type \in {DNS_HOST, DNS_CNAME} THEN data + datalen ELSE data

\* A turn of dns_parse_response
AsyncRecord(m, q) ==
  LET type == U16(m, q.ptr + 2)  datalen == U16(m, q.ptr + 10)  data == q.ptr + 12 IN
  [ptr |-> NextRecord(type, data, datalen),
   found |-> IF type = DNS_HOST /\ datalen = 4
               THEN Append(q.found, [domain |-> dns_parse_name(m, q.ptr), ip |-> Bytes(m, data, 4)])
               ELSE q.found]

dns_parse_response(m) ==
  LET turn[i \in 0..U16(m, 6)] ==
        IF i = 0 THEN [ptr |-> FirstRecord(m), found |-> <<>>] ELSE AsyncRecord(m, turn[i - 1])
  IN  turn[U16(m, 6)].found

\* A turn of print_dns_a_records, which stops where a record cannot be whole.
Test5Record(m, q) ==
  LET type == U16(m, q.ptr + 2)  clas == U16(m, q.ptr + 4)
      rdlength == U16(m, q.ptr + 10)  data == q.ptr + 12
  IN  IF data > Len(m) THEN q
      ELSE [ptr |-> data + rdlength,
            found |-> IF type = DNS_HOST /\ clas = 1 /\ rdlength = 4
                        THEN Append(q.found, Bytes(m, data, 4)) ELSE q.found]

print_dns_a_records(m) ==
  LET turn[i \in 0..U16(m, 6)] ==
        IF i = 0 THEN [ptr |-> FirstRecord(m), found |-> <<>>] ELSE Test5Record(m, turn[i - 1])
  IN  turn[U16(m, 6)].found

-----------------------------------------------------------------------------
(* The name server *)

Letter == 121
Address(i) == <<10, 0, 0, i>>
Type(r) == IF r = "cname" THEN DNS_CNAME ELSE IF r = "other" THEN Other ELSE DNS_HOST

\* "host": an address of the name asked for; "alias": an address of the alias that is
\* the data of the record before, one label before the name asked for.
RData(r, i) ==
  CASE r = "cname" -> <<1, Letter, Pointer, HeaderSize>>
    [] r = "other" -> <<9, 9>>
    [] OTHER -> Address(i)

Record(r, i, alias) ==
  <<Pointer, IF r = "alias" THEN alias ELSE HeaderSize, 0, Type(r), 0, 1, 0, 0, 0, 60,
    0, Len(RData(r, i))>> \o RData(r, i)

\* The records behind a question that ends at position at.
Encoded(rs, at) ==
  LET bytes[i \in 0..Len(rs)] ==
        IF i = 0 THEN <<>>
        ELSE bytes[i - 1] \o Record(rs[i], i, at + Len(bytes[i - 1]) - 4)
  IN  bytes[Len(rs)]

Question(m) == SubSeq(m, HeaderSize + 1, Len(m))

WellFormed(m) ==
  /\ At(m, HeaderSize) # 0
  /\ SkipName(m, HeaderSize) + 4 = Len(m)
  /\ U16(m, Len(m) - 4) = 1 /\ U16(m, Len(m) - 2) = 1

\* An alias' address follows its alias.
Answerable(rs) == \A i \in 1..Len(rs) : rs[i] = "alias" => i > 1 /\ rs[i - 1] = "cname"

-----------------------------------------------------------------------------

Init ==
  /\ dns \in {"async", "test5"} /\ hostname \in HostNames
  /\ request = <<>> /\ records = <<>> /\ response = <<>> /\ reported = <<>>
  /\ stage = "commit"

Ask ==
  /\ stage = "commit" /\ stage' = "asked"
  /\ \E junk \in Junk :
       request' = IF dns = "async" THEN dns_build_request(hostname, junk)
                                   ELSE test5_build_request(hostname, junk)
  /\ UNCHANGED <<dns, hostname, records, response, reported>>

Respond ==
  /\ stage = "asked" /\ stage' = "answered"
  /\ \E n \in 0..MaxRecords : \E rs \in [1..n -> {"host", "alias", "cname", "other"}] :
       /\ Answerable(rs) /\ (WellFormed(request) \/ n = 0)
       /\ records' = rs
       /\ response' = IF WellFormed(request)
                        THEN Header(1, n) \o Question(request) \o Encoded(rs, Len(request))
                        ELSE Header(0, 0)
  /\ UNCHANGED <<dns, hostname, request, reported>>

Parse ==
  /\ stage = "answered" /\ stage' = "parsed"
  /\ reported' = IF dns = "async" THEN dns_parse_response(response)
                                  ELSE print_dns_a_records(response)
  /\ UNCHANGED <<dns, hostname, request, records, response>>

Next == Ask \/ Respond \/ Parse

-----------------------------------------------------------------------------
(* Properties *)

LabelStart(host, i) == i = 1 \/ host[i - 1] = Dot

\* A label of LabelLimit characters is allowed, though not by test5.
Proper(host) ==
  /\ host # <<>> /\ host[Len(host)] # Dot
  /\ \A i \in 1..Len(host) : LabelStart(host, i) =>
       /\ LabelEnd(host, i) # i /\ LabelEnd(host, i) - i <= LabelLimit
       /\ dns = "test5" => LabelEnd(host, i) - i < LabelLimit

IsAddress(i) == records[i] \in {"host", "alias"}
Rank(i) == Cardinality({j \in 1..i : IsAddress(j)})

Expected(i) ==
  IF dns = "test5" THEN Address(i)
  ELSE [domain |-> (IF records[i] = "alias" THEN <<Letter, Dot>> ELSE <<>>) \o hostname,
        ip |-> Address(i)]

\* The record is not behind one that makes dns_parse_response lose its place.
InPlace(i) == dns = "async" => \A j \in 1..i : records[j] # "other"

(***************************************************************************)
(* A host name without empty labels or labels that are too long makes a    *)
(* question that the server accepts, and of its answer both clients report *)
(* exactly the addresses, in order, the asynchronous one under the owner's *)
(* uncompressed name.                                                      *)
(* Exception: dns_parse_response looks for the next record in the data of  *)
(* a type it does not know, so the addresses are right up to there.        *)
(***************************************************************************)
AnswersExact ==
  /\ stage # "commit" /\ Proper(hostname) => WellFormed(request)
  /\ stage = "parsed" /\ Proper(hostname) =>
       /\ \A i \in 1..Len(records) : IsAddress(i) /\ InPlace(i) =>
            Rank(i) <= Len(reported) /\ reported[Rank(i)] = Expected(i)
       /\ InPlace(Len(records)) => Len(reported) = Rank(Len(records))
=============================================================================
