------------------------------- MODULE RoundTrip -------------------------------
(***************************************************************************)
(* The round-trip client over KCP (udp-rtt/chat_client.cc): main sends a   *)
(* message and waits on a condition variable without a predicate, the      *)
(* receive thread measures with each notice of the server and notifies.    *)
(* start_time is written under mtx_syn and read without it.                *)
(*                                                                         *)
(* KCP is the reliable ordered channel that Kcp shows it to be, as long as *)
(* the server keeps its session.  A session that heard nothing for five    *)
(* seconds is dropped and the next datagram makes a new one, which counts  *)
(* from the beginning in both directions: of its notices the client takes  *)
(* only those numbered behind what it has, and it is handed messages only  *)
(* up to the first that an earlier session had acknowledged.               *)
(*                                                                         *)
(* Notices are the answers 1, 2, ... to the client's own messages; Others  *)
(* stands for those that answer none, the client's own joining included.   *)
(***************************************************************************)
EXTENDS Integers, Sequences

CONSTANTS g_loop_num,
          MaxSends, MaxOthers, MaxTime, MaxSpurious, MaxCloses      \* bounds

VARIABLES main,            \* "awake", "locked" (holds mtx_syn) or "waiting"
          start_time,
          startTimes,      \* when main took the time for each message
          joined,          \* the server has a session for the client
          echoed,          \* messages the session has answered
          spoken,          \* notices the session has sent
          told,            \* per number: the notices sent under it, by any session
          taken,           \* notices the client was handed
          reach,           \* messages up to which a session can be handed all
          recvThread,      \* what the receive thread is doing
          now, others, spurious, closes,
          rtt_vec          \* the times measured since the last report

serverVars == <<joined, echoed, spoken, told, reach, others, closes>>
clientVars == <<main, start_time, startTimes, taken, recvThread, spurious, rtt_vec>>
vars == <<serverVars, clientVars, now>>

Others == 0
Idle == [at |-> "idle", notice |-> Others, time |-> 0, rtt |-> 0]

Init ==
  /\ main = "awake" /\ start_time = 0 /\ startTimes = <<>>
  /\ joined = FALSE /\ echoed = 0 /\ spoken = 0 /\ told = <<>> /\ reach = MaxSends
  /\ taken = 0 /\ recvThread = Idle
  /\ now = 0 /\ others = 0 /\ spurious = 0 /\ closes = 0
  /\ rtt_vec = <<>>

-----------------------------------------------------------------------------
(* Start *)

\* Messages that were sent; the last of startTimes may still be about to be.
Sent == Len(startTimes) - (IF main = "locked" THEN 1 ELSE 0)

\* Mutant of Lock: start_time is set with the first message only.
LockFirstTime ==
  /\ main = "awake" /\ Len(startTimes) < MaxSends
  /\ main' = "locked"
  /\ start_time' = IF startTimes = <<>> THEN now ELSE start_time
  /\ startTimes' = Append(startTimes, now)
  /\ UNCHANGED <<serverVars, taken, recvThread, now, spurious, rtt_vec>>

Lock ==
  /\ main = "awake" /\ Len(startTimes) < MaxSends
  /\ main' = "locked"
  /\ start_time' = now
  /\ startTimes' = Append(startTimes, now)
  /\ UNCHANGED <<serverVars, taken, recvThread, now, spurious, rtt_vec>>

\* Mutant of SendAndWait: the mutex is not held from the Send to the wait.
SendThenWait ==
  /\ \/ main = "locked" /\ main' = "sent"
     \/ main = "sent" /\ main' = "waiting"
  /\ UNCHANGED <<serverVars, start_time, startTimes, taken, recvThread, now, spurious, rtt_vec>>

\* Send, and the wait that releases the mutex
SendAndWait ==
  /\ main = "locked"
  /\ main' = "waiting"
  /\ UNCHANGED <<serverVars, start_time, startTimes, taken, recvThread, now, spurious, rtt_vec>>

\* wait returns without a notification.
SpuriousWakeup ==
  /\ main = "waiting" /\ spurious < MaxSpurious
  /\ spurious' = spurious + 1
  /\ main' = "awake"
  /\ UNCHANGED <<serverVars, start_time, startTimes, taken, recvThread, now, rtt_vec>>

-----------------------------------------------------------------------------
(* The server: the first datagram, perhaps a keep-alive, makes a session,  *)
(* which everybody is told; each message is sent back to all users, as are *)
(* those of the other users.                                               *)

\* Send to the client, as the session's i-th.
Tell(i, notice) ==
  /\ spoken' = i
  /\ told' = IF i > Len(told) THEN Append(told, {notice})
             ELSE [told EXCEPT ![i] = @ \cup {notice}]

HandleConnection ==
  /\ ~joined
  /\ joined' = TRUE /\ echoed' = 0
  /\ Tell(1, Others)
  /\ UNCHANGED <<clientVars, reach, now, others, closes>>

ServerHandleMessage ==
  /\ joined /\ echoed < Sent /\ echoed < reach
  /\ echoed' = echoed + 1
  /\ Tell(spoken + 1, echoed')
  /\ UNCHANGED <<clientVars, joined, reach, now, others, closes>>

OtherUsers ==
  /\ joined /\ others < MaxOthers
  /\ others' = others + 1
  /\ Tell(spoken + 1, Others)
  /\ UNCHANGED <<clientVars, joined, echoed, reach, now, closes>>

\* Update finds the session timed out.  The next one is handed as much as this one could
\* be, or less: what is acknowledged, a message or a keep-alive between two, does not
\* come again.
HandleClose ==
  /\ joined /\ closes < MaxCloses
  /\ joined' = FALSE /\ closes' = closes + 1
  /\ reach' \in {reach} \cup {m \in 0..Sent : m < reach}
  /\ UNCHANGED <<clientVars, echoed, spoken, told, now, others>>

-----------------------------------------------------------------------------
(* The receive thread *)

\* Run is handed the next notice, of the session or left over from the one before, and
\* HandleMessage calls get_ms ...
ReadClock ==
  /\ recvThread.at = "idle" /\ taken < Len(told)
  /\ \E n \in told[taken + 1] :
       recvThread' = [at |-> "measure", notice |-> n, time |-> now, rtt |-> 0]
  /\ taken' = taken + 1
  /\ UNCHANGED <<serverVars, main, start_time, startTimes, now, spurious, rtt_vec>>

\* ... and then reads start_time; after g_loop_num measurements it reports them.
Measure ==
  /\ recvThread.at = "measure"
  /\ LET rtt == recvThread.time - start_time IN
     /\ recvThread' = [recvThread EXCEPT !.at = "notify", !.rtt = rtt]
     /\ rtt_vec' = IF Len(rtt_vec) + 1 >= g_loop_num THEN <<>> ELSE Append(rtt_vec, rtt)
  /\ UNCHANGED <<serverVars, main, start_time, startTimes, taken, now, spurious>>

\* Under the mutex; the wait must take it again before it returns.
NotifyOne ==
  /\ recvThread.at = "notify" /\ main # "locked"
  /\ main' = IF main = "waiting" THEN "awake" ELSE main
  /\ recvThread' = Idle
  /\ UNCHANGED <<serverVars, start_time, startTimes, taken, now, spurious, rtt_vec>>

Tick ==
  /\ now < MaxTime
  /\ now' = now + 1
  /\ UNCHANGED <<serverVars, clientVars>>

Next ==
  \/ Lock \/ SendAndWait \/ SpuriousWakeup
  \/ HandleConnection \/ ServerHandleMessage \/ OtherUsers \/ HandleClose
  \/ ReadClock \/ Measure \/ NotifyOne \/ Tick

Spec == Init /\ [][Next]_vars

-----------------------------------------------------------------------------
(* Properties *)

\* The threads, the messages and the measurements keep their types, and
\* fewer than g_loop_num measurements are kept.
TypeOK ==
  /\ main \in {"awake", "locked", "waiting"} /\ joined \in BOOLEAN
  /\ echoed \in 0..Sent /\ Len(startTimes) <= MaxSends
  /\ recvThread.at \in {"idle", "measure", "notify"}
  /\ spoken <= Len(told) /\ taken <= Len(told)
  /\ Len(rtt_vec) < g_loop_num

\* The time from the Send that a notice answers until it was received.
RoundTripTime == recvThread.time - startTimes[recvThread.notice]

Measured == recvThread.at = "notify" /\ recvThread.notice # Others

(***************************************************************************)
(* The answer to the newest message gets its true time, although other     *)
(* notices, answers under way and answers of an earlier session come in    *)
(* between; that of an older one is never measured too long.               *)
(***************************************************************************)
NewestExact ==
  Measured => /\ recvThread.notice = Len(startTimes) => recvThread.rtt = RoundTripTime
              /\ recvThread.rtt <= RoundTripTime

(***************************************************************************)
(* What README.md:12 says udp-rtt computes, the time from sending a packet *)
(* to receiving it: every answer is measured from the Send it answers.     *)
(***************************************************************************)
PairedWithSend == Measured => recvThread.rtt = RoundTripTime

(***************************************************************************)
(* main never waits for a notification that has come already: it is woken  *)
(* and sends again, however the answers, the notices that answer none and  *)
(* spurious wakeups fall.  That ends when the server has dropped a session *)
(* of which the client was handed something: the new one counts from the   *)
(* beginning and may never get past what the client has.                   *)
(***************************************************************************)
KeepsMeasuring == main = "waiting" ~> main # "waiting" \/ (closes > 0 /\ taken > 0)
=============================================================================
