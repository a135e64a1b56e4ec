-------------------------------- MODULE SqlTest --------------------------------
(***************************************************************************)
(* sqltest.cpp: one run of main over the connection pool.  It inserts,     *)
(* selects and deletes, stores an image in chunks and fetches one back.    *)
(* Every call of the database or of stdio that the code looks at may fail, *)
(* and so may three whose results it ignores: mysql_stmt_send_long_data,   *)
(* mysql_stmt_fetch_column and the fclose of write_img.  "unnoticed" is a  *)
(* record of those for the property; the program does not have it.  Images *)
(* are sequences of bytes, named after the run that stored them and their  *)
(* position; what the text columns hold is left out.                       *)
(***************************************************************************)
EXTENDS Integers, Sequences

CONSTANTS ImageSizes,      \* the lengths green.jpg may have
          chunk_size

VARIABLES step,            \* the call that is next
          failed,          \* the call that failed, or NoCall
          rows,            \* the images in the table that belong to 'bob'
          image,           \* green.jpg
          buf_w, longData, \* read from the file; received by the server so far
          offset_w,        \* the offset of mysql_write, past the chunks it tried to send
          row, buf_r,      \* the row fetched, and what was copied from it
          download,        \* green_download.jpg
          stmt,            \* a statement is open
          released, closed, \* connections given back; the pool was shut down
          unnoticed        \* the calls that failed and whose result was ignored

vars == <<step, failed, rows, image, buf_w, longData, offset_w, row, buf_r, download, stmt,
          released, closed, unnoticed>>

NoCall == "none"
Image(run, n) == [i \in 1..n |-> <<run, i>>]

Init ==
  /\ step = "acquire" /\ failed = NoCall
  /\ \E n \in ImageSizes : image = Image("new", n)
  /\ \E n \in ImageSizes : rows = IF n = 0 THEN <<>> ELSE <<Image("old", n)>>
  /\ buf_w = <<>> /\ longData = <<>> /\ row = <<>> /\ buf_r = <<>>
  /\ offset_w = 0 /\ download = <<>> /\ stmt = FALSE /\ released = 0 /\ closed = FALSE
  /\ unnoticed = {}

\* What main and sql_test call next when a call succeeds.
Then == [acquire  |-> "insert1",   insert1   |-> "insert2",   insert2   |-> "select1",
         select1  |-> "delete",    delete    |-> "select2",   select2   |-> "read_img",
         read_img |-> "prepare_w", prepare_w |-> "bind_w",    bind_w    |-> "send",
         send     |-> "execute_w", execute_w |-> "select3",   select3   |-> "prepare_r",
         prepare_r |-> "execute_r", execute_r |-> "bind_r",   bind_r    |-> "fetch",
         fetch    |-> "column",    column    |-> "write_img", write_img |-> "release",
         release  |-> "shutdown",  shutdown  |-> "end"]

Does(call) == step = call /\ step' = Then[call] /\ UNCHANGED failed

\* A call fails: sql_test releases the connection and returns.  Without a connection
\* there is nothing to release.
FailsAt(call) ==
  /\ step = call /\ failed' = call
  /\ step' = IF call = "acquire" THEN "shutdown" ELSE "release"

\* insert, select and delete, and acquire
Query ==
  /\ \E call \in {"acquire", "insert1", "insert2", "select1", "delete", "select2", "select3"} :
       Does(call) \/ FailsAt(call)
  /\ UNCHANGED <<rows, image, buf_w, longData, offset_w, row, buf_r, download, stmt, released,
                 closed, unnoticed>>

\* An empty file counts as a failure.
read_img ==
  /\ \/ Does("read_img") /\ image # <<>> /\ buf_w' = image
     \/ FailsAt("read_img") /\ UNCHANGED buf_w
  /\ UNCHANGED <<rows, image, longData, offset_w, row, buf_r, download, stmt, released, closed,
                 unnoticed>>

-----------------------------------------------------------------------------
(* mysql_write and mysql_read *)

\* Preparing and binding; mysql_write leaves its statement open when the bind fails.
Prepare ==
  /\ \/ /\ \E call \in {"prepare_w", "prepare_r"} : Does(call)
        /\ stmt' = TRUE
     \/ /\ \E call \in {"bind_w", "execute_r", "bind_r"} : Does(call)
        /\ UNCHANGED stmt
     \/ /\ \E call \in {"prepare_w", "prepare_r", "execute_r", "bind_r"} : FailsAt(call)
        /\ stmt' = FALSE
     \/ FailsAt("bind_w") /\ UNCHANGED stmt
  /\ UNCHANGED <<rows, image, buf_w, longData, offset_w, row, buf_r, download, released,
                 closed, unnoticed>>

\* Mutant of Piece: the offset is not added to the buffer.
PieceFromStart(buffer, offset) ==
  SubSeq(buffer, 1, IF Len(buffer) - offset > chunk_size THEN chunk_size
                    ELSE Len(buffer) - offset)

\* The chunk at an offset.
Piece(buffer, offset) ==
  SubSeq(buffer, offset + 1, IF Len(buffer) - offset > chunk_size THEN offset + chunk_size
                             ELSE Len(buffer))

\* The server may not get a chunk; the loop goes on with the next one.
send_long_data ==
  /\ \/ /\ step = "send" /\ offset_w < Len(buf_w)
        /\ offset_w' = offset_w + Len(Piece(buf_w, offset_w))
        /\ \/ longData' = longData \o Piece(buf_w, offset_w) /\ UNCHANGED unnoticed
           \/ unnoticed' = unnoticed \cup {"send"} /\ UNCHANGED longData
        /\ UNCHANGED <<step, failed>>
     \/ /\ Does("send") /\ offset_w >= Len(buf_w)
        /\ UNCHANGED <<longData, offset_w, unnoticed>>
  /\ UNCHANGED <<rows, image, buf_w, row, buf_r, download, stmt, released, closed>>

\* A failure leaves the statement open.
Execute ==
  /\ \/ Does("execute_w") /\ rows' = Append(rows, longData) /\ stmt' = FALSE
     \/ FailsAt("execute_w") /\ UNCHANGED <<rows, stmt>>
  /\ UNCHANGED <<image, buf_w, longData, offset_w, row, buf_r, download, released, closed,
                 unnoticed>>

\* The first of the rows, in whatever order the server returns them.
Fetch ==
  /\ \/ /\ Does("fetch") /\ UNCHANGED stmt
        /\ \E i \in 1..Len(rows) : row' = rows[i]
     \/ FailsAt("fetch") /\ stmt' = FALSE /\ UNCHANGED row
  /\ UNCHANGED <<rows, image, buf_w, longData, offset_w, buf_r, download, released, closed,
                 unnoticed>>

\* What resize put into the buffer.
Zeros(n) == [i \in 1..n |-> <<"zero", 0>>]

\* buffer, as far as the loop has come: its offset is Len(buf_r).  A column that is not
\* fetched leaves the zeros of the resize.
fetch_column ==
  /\ \/ /\ step = "column" /\ Len(buf_r) < Len(row)
        /\ \/ /\ buf_r' = buf_r \o Piece(row, Len(buf_r))
              /\ UNCHANGED unnoticed
           \/ /\ buf_r' = buf_r \o Zeros(Len(Piece(row, Len(buf_r))))
              /\ unnoticed' = unnoticed \cup {"column"}
        /\ UNCHANGED <<step, failed, stmt>>
     \/ /\ Does("column") /\ Len(buf_r) >= Len(row) /\ stmt' = FALSE
        /\ UNCHANGED <<buf_r, unnoticed>>
  /\ UNCHANGED <<rows, image, buf_w, longData, offset_w, row, download, released, closed>>

-----------------------------------------------------------------------------

\* A write or a close that fails leaves what was written of the file, and an empty buffer
\* is a failure.
write_img ==
  /\ \/ /\ Does("write_img") /\ buf_r # <<>>
        /\ \/ download' = buf_r /\ UNCHANGED unnoticed
           \/ /\ \E n \in 0..Len(buf_r) : download' = SubSeq(buf_r, 1, n)
              /\ unnoticed' = unnoticed \cup {"close"}
     \/ /\ FailsAt("write_img") /\ UNCHANGED unnoticed
        /\ \E n \in 0..Len(buf_r) : download' = SubSeq(buf_r, 1, n)
  /\ UNCHANGED <<rows, image, buf_w, longData, offset_w, row, buf_r, stmt, released, closed>>

\* The release of sql_test, and the shutdown of main
Finish ==
  /\ \/ Does("release") /\ released' = released + 1 /\ UNCHANGED closed
     \/ Does("shutdown") /\ closed' = TRUE /\ UNCHANGED released
  /\ UNCHANGED <<rows, image, buf_w, longData, offset_w, row, buf_r, download, stmt, unnoticed>>

Next ==
  \/ Query \/ read_img \/ Prepare \/ send_long_data \/ Execute \/ Fetch \/ fetch_column
  \/ write_img \/ Finish

-----------------------------------------------------------------------------
(* Property *)

(***************************************************************************)
(* Every image in the table was stored whole, by chunks, or a chunk of it  *)
(* was lost without the program noticing, and then the row is what the     *)
(* server received.  A run that succeeds leaves one of the rows, whole, in *)
(* green_download.jpg, the row of an earlier run perhaps, unless fetching a*)
(* column or closing the file failed unnoticed.  However it fails, the     *)
(* connection is given back once before the shutdown, and a statement stays*)
(* open only if mysql_write failed at its bind or its execution.           *)
(***************************************************************************)
ImageWhole ==
  /\ \A i \in 1..Len(rows) :
       \/ rows[i] # <<>> /\ (rows[i] = image \/ rows[i] = Image("old", Len(rows[i])))
       \/ "send" \in unnoticed /\ rows[i] = longData
  /\ step = "end" =>
       /\ closed /\ released = IF failed = "acquire" THEN 0 ELSE 1
       /\ failed = NoCall /\ unnoticed \cap {"column", "close"} = {} =>
            \E i \in 1..Len(rows) : download = rows[i]
       /\ stmt => failed \in {"bind_w", "execute_w"}
=============================================================================
