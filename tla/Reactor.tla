------------------------------- MODULE Reactor -------------------------------
(***************************************************************************)
(* The web server of test8: the level-triggered epoll loop of reactor.cpp  *)
(* and the write state that webserver.cpp keeps in conns[fd].  A slot of   *)
(* conns belongs to a descriptor, not to a connection: the next connection *)
(* that is given the descriptor finds what the last one left.              *)
(*                                                                         *)
(* Bytes are named by their position in the response, 1..HeaderLen for the *)
(* header and the rest for the file, so wire tells which were sent.        *)
(***************************************************************************)
EXTENDS Integers, Sequences

CONSTANTS WebFd,           \* descriptors of clients
          BUFFER_LENGTH,
          HeaderLen,       \* of cached_response_header
          FileLens,        \* the lengths green.jpg may have
          MaxAccepts,      \* bound: connections to one descriptor
          MaxRequests      \* bound: requests of one connection

VARIABLES fileLen,
          conns,           \* the write state of each slot
          mode,            \* what epoll watches the descriptor for
          peer,            \* what became of the client's side
          requests,        \* of a connection: [made, waiting to be read]
          wire,            \* the bytes sent on the connection
          tainted,         \* the slot was not clean, or the file could not be opened
          accepts,
          killed           \* the process died

vars == <<fileLen, conns, mode, peer, requests, wire, tainted, accepts, killed>>

\* reset_w leaves a slot like this one, except for the buffer.
FreshSlot == [wbuffer |-> <<>>, wlength |-> 0, wstatus |-> 0, woffset |-> 0,
              wtotallength |-> 0, fileOpen |-> FALSE, wfile_offset |-> 0]

Clean(slot) == [slot EXCEPT !.wbuffer = <<>>] = FreshSlot

Init ==
  /\ fileLen \in FileLens
  /\ conns = [fd \in WebFd |-> FreshSlot]
  /\ mode = [fd \in WebFd |-> "closed"]
  /\ peer = [fd \in WebFd |-> "open"]
  /\ requests = [fd \in WebFd |-> [made |-> 0, waiting |-> 0]]
  /\ wire = [fd \in WebFd |-> <<>>]
  /\ tainted = [fd \in WebFd |-> FALSE]
  /\ accepts = [fd \in WebFd |-> 0]
  /\ killed = FALSE

-----------------------------------------------------------------------------
(* The clients *)

Request(fd) ==
  /\ mode[fd] # "closed" /\ peer[fd] = "open" /\ requests[fd].made < MaxRequests
  /\ requests' = [requests EXCEPT ![fd] = [made |-> @.made + 1, waiting |-> @.waiting + 1]]
  /\ UNCHANGED <<fileLen, conns, mode, peer, wire, tainted, accepts, killed>>

\* A client closes its side, and may then answer data with a reset; or it resets
\* the connection at once.
Hangup(fd) ==
  /\ mode[fd] # "closed"
  /\ \/ peer[fd] = "open" /\ peer' = [peer EXCEPT ![fd] = "shut"]
     \/ peer[fd] = "open" /\ peer' = [peer EXCEPT ![fd] = "reset"]
     \/ peer[fd] = "shut" /\ peer' = [peer EXCEPT ![fd] = "broken"]
  /\ UNCHANGED <<fileLen, conns, mode, requests, wire, tainted, accepts, killed>>

-----------------------------------------------------------------------------
(* The loop *)

\* listen_callback and register_clinetfd: the slot keeps its write state.
Listen(fd) ==
  /\ mode[fd] = "closed" /\ accepts[fd] < MaxAccepts
  /\ accepts' = [accepts EXCEPT ![fd] = @ + 1]
  /\ mode' = [mode EXCEPT ![fd] = "recv"]
  /\ peer' = [peer EXCEPT ![fd] = "open"]
  /\ requests' = [requests EXCEPT ![fd] = [made |-> 0, waiting |-> 0]]
  /\ wire' = [wire EXCEPT ![fd] = <<>>]
  /\ tainted' = [tainted EXCEPT ![fd] = ~Clean(conns[fd])]
  /\ UNCHANGED <<fileLen, conns, killed>>

Gone(fd) == peer[fd] \in {"reset", "broken"}

\* http_request
Requested(slot) == [slot EXCEPT !.wlength = 0, !.wstatus = 0]

\* read_callback: a disconnect or an error closes the descriptor, anything else is
\* a request.
Read(fd) ==
  /\ mode[fd] = "recv"
  /\ \/ /\ Gone(fd) \/ (peer[fd] = "shut" /\ requests[fd].waiting = 0)
        /\ mode' = [mode EXCEPT ![fd] = "closed"]
        /\ UNCHANGED <<conns, requests>>
     \/ /\ ~Gone(fd) /\ requests[fd].waiting > 0
        /\ \E left \in 0..(requests[fd].waiting - 1) :
              requests' = [requests EXCEPT ![fd].waiting = left]
        /\ conns' = [conns EXCEPT ![fd] = Requested(@)]
        /\ mode' = [mode EXCEPT ![fd] = "send"]
  /\ UNCHANGED <<fileLen, peer, wire, tainted, accepts, killed>>

Total == HeaderLen + fileLen

\* The bytes of the response after the first off, at most n of them.
Chunk(off, n) == [i \in 1..n |-> off + i]

\* The response begins: wtotallength is computed when it is 0.
Begun(slot) ==
  IF slot.wtotallength = 0 THEN [slot EXCEPT !.wtotallength = Total, !.woffset = 0] ELSE slot

ByFile(slot) == slot.woffset = HeaderLen /\ slot.wtotallength > 3 * BUFFER_LENGTH

ChunkLen(slot, status) ==
  IF status = 0 THEN HeaderLen - slot.woffset
  ELSE IF Total - slot.woffset < BUFFER_LENGTH THEN Total - slot.woffset ELSE BUFFER_LENGTH

\* Mutant of HttpResponse: the body's chunk is read from where the file begins.
HttpResponseFromStart(slot, opened) ==
  LET s      == Begun(slot)
      status == IF s.woffset = HeaderLen THEN 1 ELSE s.wstatus
      n      == ChunkLen(s, status)
  IN  IF ByFile(s)
        THEN [s EXCEPT !.wstatus = 1, !.fileOpen = @ \/ opened,
                       !.wlength = IF opened THEN fileLen ELSE @]
        ELSE [s EXCEPT !.wstatus = status, !.wlength = n,
                       !.wbuffer = Chunk(IF status = 0 THEN s.woffset ELSE HeaderLen, n)]

\* http_response; opened tells whether open succeeds, if it is called.
HttpResponse(slot, opened) ==
  LET s      == Begun(slot)
      status == IF s.woffset = HeaderLen THEN 1 ELSE s.wstatus
      n      == ChunkLen(s, status)
  IN  IF ByFile(s)
        THEN [s EXCEPT !.wstatus = 1, !.fileOpen = @ \/ opened,
                       !.wlength = IF opened THEN fileLen ELSE @]
        ELSE [s EXCEPT !.wstatus = status, !.wlength = n, !.wbuffer = Chunk(s.woffset, n)]

\* The length of the header's copy is negative: memcpy runs off the heap.
CopyOverrun(slot) == LET s == Begun(slot) IN s.wstatus = 0 /\ s.woffset > HeaderLen

\* What send or sendfile would send at most.
Offer(s) ==
  IF s.fileOpen THEN Chunk(HeaderLen + s.wfile_offset, s.wtotallength - s.woffset)
                ELSE SubSeq(s.wbuffer, 1, s.wlength)

\* The slot after n bytes were sent.
Sent(s, n) ==
  [s EXCEPT !.woffset = @ + n, !.wfile_offset = IF s.fileOpen THEN @ + n ELSE @]

\* Mutant of ResetW: the offset in the file stays.
ResetWKeepsOffset(s) ==
  [FreshSlot EXCEPT !.wbuffer = s.wbuffer, !.wfile_offset = s.wfile_offset]

\* reset_w
ResetW(s) ==
  [FreshSlot EXCEPT !.wbuffer = s.wbuffer,
                    !.wfile_offset = IF s.fileOpen THEN 0 ELSE s.wfile_offset]

Finished(s) == s.wstatus = 1 /\ s.woffset = s.wtotallength

\* write_callback, when n bytes of the offer are sent; the last ones end the response.
Progress(fd) ==
  \E opened \in BOOLEAN :
     LET s == HttpResponse(conns[fd], opened) IN
     /\ mode[fd] = "send" /\ ~CopyOverrun(conns[fd]) /\ ~Gone(fd)
     /\ \E n \in 1..Len(Offer(s)) :
          LET t == Sent(s, n) IN
          /\ wire' = [wire EXCEPT ![fd] = @ \o SubSeq(Offer(s), 1, n)]
          /\ conns' = [conns EXCEPT ![fd] = IF Finished(t) THEN ResetW(t) ELSE t]
          /\ mode' = [mode EXCEPT ![fd] = IF Finished(t) THEN "recv" ELSE @]
     /\ tainted' = [tainted EXCEPT ![fd] = @ \/ (ByFile(Begun(conns[fd])) /\ ~opened)]
     /\ UNCHANGED <<fileLen, peer, requests, accepts, killed>>

\* Mutant of SendFails: nothing to send is taken for a full socket.
SendFailsNever(fd, s) == peer[fd] = "reset"

\* send or sendfile returns 0 or an error other than EAGAIN.
SendFails(fd, s) == Offer(s) = <<>> \/ peer[fd] = "reset"

\* write_callback without progress: nothing to send counts as a disconnect and an
\* error closes, EAGAIN leaves what http_response has changed.  A broken connection
\* raises SIGPIPE, which nobody handles.
NoProgress(fd) ==
  /\ mode[fd] = "send"
  /\ \/ /\ CopyOverrun(conns[fd])
        /\ killed' = TRUE
        /\ UNCHANGED <<conns, mode, tainted>>
     \/ \E opened \in BOOLEAN :
          LET s == HttpResponse(conns[fd], opened) IN
          /\ ~CopyOverrun(conns[fd])
          /\ conns' = [conns EXCEPT ![fd] = s]
          /\ tainted' = [tainted EXCEPT ![fd] = @ \/ (ByFile(Begun(conns[fd])) /\ ~opened)]
          /\ \/ ~Gone(fd) /\ Offer(s) # <<>> /\ UNCHANGED <<mode, killed>>
             \/ /\ SendFails(fd, s)
                /\ mode' = [mode EXCEPT ![fd] = "closed"]
                /\ UNCHANGED killed
             \/ peer[fd] = "broken" /\ Offer(s) # <<>> /\ killed' = TRUE /\ UNCHANGED mode
  /\ UNCHANGED <<fileLen, peer, requests, wire, accepts>>

Next ==
  /\ ~killed
  /\ \E fd \in WebFd : \/ Request(fd) \/ Hangup(fd)
                       \/ Listen(fd) \/ Read(fd) \/ Progress(fd) \/ NoProgress(fd)

-----------------------------------------------------------------------------
(* Properties *)

\* The slots and the descriptors keep their types.
TypeOK ==
  /\ fileLen \in FileLens
  /\ \A fd \in WebFd :
       /\ conns[fd].wstatus \in {0, 1} /\ conns[fd].fileOpen \in BOOLEAN
       /\ conns[fd].wtotallength \in {0, Total}
       /\ conns[fd].woffset \in 0..Total /\ conns[fd].wfile_offset \in 0..fileLen
       /\ mode[fd] \in {"closed", "recv", "send"}
       /\ peer[fd] \in {"open", "shut", "reset", "broken"}

(***************************************************************************)
(* A client is sent its responses byte for byte, each one whole before the *)
(* next request is read: whatever send and sendfile take at a time, however*)
(* often they take nothing, also when the file is opened once more because *)
(* nothing of it was taken.  Only a slot left in the middle of a response  *)
(* by the last connection, or a file that cannot be opened, spoils it.     *)
(***************************************************************************)
ResponseExact ==
  \A fd \in WebFd : mode[fd] # "closed" /\ ~tainted[fd] =>
     /\ \A i \in 1..Len(wire[fd]) : wire[fd][i] = ((i - 1) % Total) + 1
     /\ mode[fd] = "recv" => Len(wire[fd]) % Total = 0

(***************************************************************************)
(* A response that was begun comes to an end as long as the client takes   *)
(* some of it now and then, or its connection is closed; in no case is the *)
(* descriptor left waiting for EPOLLOUT.                                   *)
(***************************************************************************)
ResponseEnds == \A fd \in WebFd : mode[fd] = "send" ~> mode[fd] # "send" \/ killed
=============================================================================
