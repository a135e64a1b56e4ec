------------------------------- MODULE Contacts -------------------------------
(***************************************************************************)
(* contacts.cpp: a phone book in a doubly linked list, filled by hand or   *)
(* from a file, and the file it is saved to.  Nodes are addresses; a node  *)
(* that is deleted is free to be allocated again.  entries is the book as  *)
(* its user knows it, first entry first.                                   *)
(***************************************************************************)
EXTENDS Integers, Sequences, SequencesExt, FiniteSets, FiniteSetsExt

CONSTANTS Node,            \* bound: nodes in use at a time, 1..n
          Person,          \* of [name, phone]
          FileBlock        \* SIZE_BUFFER_P: entries to a read or a write

VARIABLES book,            \* data, count, the nodes allocated, their next, prev and person
          file,            \* there or not, and the persons it holds
          entries

vars == <<book, file, entries>>

nullptr == 0
Nobody == [name |-> "", phone |-> ""]

Empty == [data |-> nullptr, count |-> 0, heap |-> {},
          next |-> [n \in Node |-> nullptr], prev |-> [n \in Node |-> nullptr],
          person |-> [n \in Node |-> Nobody]]

Init == book = Empty /\ file = [there |-> FALSE, data |-> <<>>] /\ entries = <<>>

Behind(b, n) == IF n = nullptr THEN nullptr ELSE b.next[n]

\* The nodes of the list, in the order of next.
List(b) ==
  LET walk[i \in 0..Cardinality(Node)] == IF i = 0 THEN b.data ELSE Behind(b, walk[i - 1])
      length == Cardinality({i \in 0..Cardinality(Node) : walk[i] # nullptr})
  IN  [i \in 1..length |-> walk[i - 1]]

Unallocated(b) == Node \ b.heap

-----------------------------------------------------------------------------
(* Node and Contacts *)

\* new, and Node::insert
Inserted(b, p) ==
  LET item == Min(Unallocated(b))  first == b.data IN
  [b EXCEPT !.data = item, !.count = @ + 1, !.heap = @ \cup {item},
            !.next = [@ EXCEPT ![item] = first],
            !.prev = [n \in Node |-> IF n = item THEN nullptr ELSE IF n = first THEN item ELSE @[n]],
            !.person = [@ EXCEPT ![item] = p]]

\* Mutant of Removed: the node behind keeps its prev.
RemovedForwards(b, item) ==
  [b EXCEPT !.data = IF item = @ THEN b.next[item] ELSE @, !.count = @ - 1,
            !.heap = @ \ {item},
            !.next = [n \in Node |-> IF n = item THEN nullptr
                                     ELSE IF n = b.prev[item] THEN b.next[item] ELSE @[n]],
            !.prev = [@ EXCEPT ![item] = nullptr],
            !.person = [@ EXCEPT ![item] = Nobody]]

\* Node::remove of a node in the list, and delete
Removed(b, item) ==
  [b EXCEPT !.data = IF item = @ THEN b.next[item] ELSE @, !.count = @ - 1,
            !.heap = @ \ {item},
            !.next = [n \in Node |-> IF n = item THEN nullptr
                                     ELSE IF n = b.prev[item] THEN b.next[item] ELSE @[n]],
            !.prev = [n \in Node |-> IF n = item THEN nullptr
                                     ELSE IF n = b.next[item] THEN b.prev[item] ELSE @[n]],
            !.person = [@ EXCEPT ![item] = Nobody]]

\* The persons of the list, first node first
Stored(b) == LET nodes == List(b) IN [i \in 1..Len(nodes) |-> b.person[nodes[i]]]

\* person_name_search takes the first of these positions in the list.
Found(b, name) == LET stored == Stored(b) IN {i \in 1..Len(stored) : stored[i].name = name}

-----------------------------------------------------------------------------
(* The menu *)

\* insert_entry: the same person twice is refused.
insert_entry(p) ==
  /\ Unallocated(book) # {}
  /\ LET stored == Stored(book) IN \A i \in 1..Len(stored) : stored[i] # p
  /\ book' = Inserted(book, p)
  /\ entries' = <<p>> \o entries
  /\ UNCHANGED file

delete_entry(name) ==
  /\ Found(book, name) # {}
  /\ LET i == Min(Found(book, name)) IN
     /\ book' = Removed(book, List(book)[i])
     /\ entries' = RemoveAt(entries, i)
  /\ UNCHANGED file

\* save_entry and save_file: the old file is gone at once; a write that fails leaves
\* the entries that were written by then.
save_entry ==
  /\ LET stored == Stored(book) IN
     \E n \in 0..Len(stored) : file' = [there |-> TRUE, data |-> SubSeq(stored, 1, n)]
  /\ UNCHANGED <<book, entries>>

\* The blocks that fread returns.
Blocks(f) == [k \in 1..((Len(f) + FileBlock - 1) \div FileBlock) |->
                SubSeq(f, (k - 1) * FileBlock + 1, Min({k * FileBlock, Len(f)}))]

\* The loop over a block: the entries are inserted one by one, whoever is there.
BlockInserted(b, block) ==
  LET inserted[i \in 0..Len(block)] ==
        IF i = 0 THEN b ELSE Inserted(inserted[i - 1], block[i])
  IN  inserted[Len(block)]

\* load_entry and load_file, block after block
load_entry ==
  /\ file.there /\ Len(file.data) <= Cardinality(Unallocated(book))
  /\ LET blocks == Blocks(file.data)
         loaded[k \in 0..Len(blocks)] ==
           IF k = 0 THEN book ELSE BlockInserted(loaded[k - 1], blocks[k])
     IN  book' = loaded[Len(blocks)]
  /\ entries' = Reverse(file.data) \o entries
  /\ UNCHANGED file

\* Exit: destroy_contacts, and the program may be started again.
menu_exit ==
  /\ book' = Empty /\ entries' = <<>>
  /\ UNCHANGED file

Next ==
  \/ \E p \in Person : insert_entry(p) \/ delete_entry(p.name)
  \/ save_entry \/ load_entry \/ menu_exit

-----------------------------------------------------------------------------
(* Property *)

(***************************************************************************)
(* The linked list is the book its user knows: the nodes forwards are its  *)
(* entries in order, the prev pointers lead back the same way, count is    *)
(* their number and no node is lost; whatever was inserted, loaded, and    *)
(* deleted from either end or the middle.                                  *)
(***************************************************************************)
ListExact ==
  LET nodes == List(book) IN
  /\ Stored(book) = entries
  /\ book.count = Len(entries)
  /\ \A i \in 1..Len(nodes) : book.prev[nodes[i]] = IF i = 1 THEN nullptr ELSE nodes[i - 1]
  /\ Unallocated(book) = Node \ {nodes[i] : i \in 1..Len(nodes)}
=============================================================================
