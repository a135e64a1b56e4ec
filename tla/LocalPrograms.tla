---------------------------- MODULE LocalPrograms ----------------------------
(***************************************************************************)
(* What runs in one thread and is a matter of computing: the clocks of     *)
(* KCP, the word counter, the database example, the phone book and the     *)
(* messages of the DNS clients.  They never meet, so a behaviour runs one  *)
(* of them, "active", while the others stay as they began.                 *)
(***************************************************************************)
EXTENDS Integers, Sequences, FiniteSets

CONSTANTS ClockModulus, Slack, RTO_MIN, RTO_DEF, RTO_MAX, PROBE_INIT, PROBE_LIMIT,
          MinInterval, MaxInterval, IKCP_INTERVAL, Intervals, StartClocks, Gaps, ClockSteps,
          MaxElapsed, MaxXmit
CONSTANTS Texts, SIZE_BUFFER
CONSTANTS ImageSizes, chunk_size
CONSTANTS Node, Person, FileBlock
CONSTANTS HostNames, Junk, LabelLimit, MaxRecords

\* Of ikcp.h and ikcp.c.  The last lines bound a behaviour of the model: timers are told
\* apart for half the range of the clock, 2^31 ms, shared here by the time that has
\* passed and the longest wait, which is at most twice that time or RTO_MAX.
ASSUME ClockAssumption ==
  /\ ClockModulus \in Nat \ {0} /\ StartClocks \subseteq 0..(ClockModulus - 1)
  /\ Gaps \subseteq Nat /\ ClockSteps \subseteq Int /\ Intervals \subseteq Int
  /\ MinInterval \in Nat \ {0} /\ MaxInterval \in Nat /\ MinInterval <= MaxInterval
  /\ IKCP_INTERVAL \in MinInterval..MaxInterval
  /\ Slack \in Nat \ {0} /\ MaxInterval + Slack < ClockModulus \div 2
  /\ RTO_MIN \in Nat /\ RTO_DEF \in Nat /\ RTO_MAX \in Nat
  /\ RTO_MIN <= RTO_MAX /\ RTO_DEF <= RTO_MAX
  /\ PROBE_INIT \in Nat \ {0} /\ PROBE_LIMIT \in Nat /\ PROBE_INIT <= PROBE_LIMIT
  /\ MaxElapsed \in Nat /\ 2 * MaxElapsed < ClockModulus \div 2
  /\ MaxElapsed + PROBE_LIMIT < ClockModulus \div 2
  /\ MaxElapsed + 2 * RTO_MAX < ClockModulus \div 2

ASSUME WordAssumption == Texts \subseteq Seq(Int) /\ SIZE_BUFFER \in Nat \ {0}
ASSUME SqlAssumption == ImageSizes \subseteq Nat /\ chunk_size \in Nat \ {0}

\* An address is not nullptr.
ASSUME BookAssumption ==
  Node \subseteq Nat \ {0} /\ IsFiniteSet(Node) /\ FileBlock \in Nat \ {0}

\* Of async_dns_client_noblock.c: a name of more than 125 characters and an alias before
\* it do not fit into aname, and a pointer is followed by its second byte only, so the
\* records, of at most 16 bytes, have to begin within 256.
ASSUME MessageAssumption ==
  /\ Junk \subseteq 0..255 /\ LabelLimit \in Nat /\ MaxRecords \in Nat
  /\ HostNames \subseteq Seq(1..255)
  /\ \A host \in HostNames : Len(host) <= 125 /\ Len(host) + 18 + 16 * MaxRecords <= 256

VARIABLES active
VARIABLES elapsed, clock, clockSet, updated, current, ts_flush, interval, rx, seg,
          rmt_wnd0, probe, calledAt
VARIABLES text, offset, status, word_cnt, counted
VARIABLES step, failed, rows, image, buf_w, longData, offset_w, row, buf_r, download, stmt,
          released, closed, unnoticed
VARIABLES book, file, entries
VARIABLES dns, hostname, request, records, response, reported, stage

Clock == INSTANCE KcpClock
Words == INSTANCE CountWord
Sql == INSTANCE SqlTest
Book == INSTANCE Contacts
Message == INSTANCE DnsMessage

clockVars == <<elapsed, clock, clockSet, updated, current, ts_flush, interval, rx, seg,
               rmt_wnd0, probe, calledAt>>
wordVars == <<text, offset, status, word_cnt, counted>>
sqlVars == <<step, failed, rows, image, buf_w, longData, offset_w, row, buf_r, download, stmt,
             released, closed, unnoticed>>
bookVars == <<book, file, entries>>
messageVars == <<dns, hostname, request, records, response, reported, stage>>
localVars == <<active, clockVars, wordVars, sqlVars, bookVars, messageVars>>

\* A program that does not run has nothing to choose.
LocalInit ==
  /\ Clock!Init /\ (active = "clock" \/ (clock = 0 /\ interval = MinInterval))
  /\ Words!Init /\ (active = "words" \/ text = <<>>)
  /\ Sql!Init /\ (active = "sql" \/ (image = <<>> /\ rows = <<>>))
  /\ Book!Init
  /\ Message!Init /\ (active = "message" \/ (hostname = <<>> /\ dns = "async"))

LocalNext ==
  /\ UNCHANGED active
  /\ \/ active = "clock" /\ Clock!Next /\ UNCHANGED <<wordVars, sqlVars, bookVars, messageVars>>
     \/ active = "words" /\ Words!Next /\ UNCHANGED <<clockVars, sqlVars, bookVars, messageVars>>
     \/ active = "sql" /\ Sql!Next /\ UNCHANGED <<clockVars, wordVars, bookVars, messageVars>>
     \/ active = "book" /\ Book!Next /\ UNCHANGED <<clockVars, wordVars, sqlVars, messageVars>>
     \/ active = "message" /\ Message!Next /\ UNCHANGED <<clockVars, wordVars, sqlVars, bookVars>>

LocalSpec == LocalInit /\ [][LocalNext]_localVars

-----------------------------------------------------------------------------
(* Properties: see the module of each program. *)

\* Timestamps that wrap are compared rightly.
TimersTrue == active = "clock" => Clock!TimersTrue

\* KCP flushes in time however late it is called and however the clock is set.
FlushInTime == active = "clock" => Clock!FlushInTime

\* Words are counted rightly wherever blocks divide them.
CountExact == active = "words" => Words!CountExact

\* Images are stored and fetched whole, unless a call whose result is ignored failed, and
\* the connection is given back once.
ImageWhole == active = "sql" => Sql!ImageWhole

\* The linked list is the phone book as its user knows it.
ListExact == active = "book" => Book!ListExact

\* Proper host names make proper questions, and of an answer exactly the addresses are
\* reported.
AnswersExact == active = "message" => Message!AnswersExact
=============================================================================
