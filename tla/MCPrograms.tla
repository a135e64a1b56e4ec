------------------------------ MODULE MCPrograms ------------------------------
(***************************************************************************)
(* What is checked for safety only: the edge-triggered server with its     *)
(* work queue, and the local programs.  They never meet, so a behaviour    *)
(* runs one of them, "active", while the others stay as they began.  Both  *)
(* modules are extended, so that their assumptions are evaluated here and  *)
(* their properties are checked under the names they are proved by.        *)
(***************************************************************************)
EXTENDS WorkQueue, LocalPrograms, TLC

programVars == <<localVars, vars>>

\* Inputs: host names and texts of a few characters, both ends of the alphabets, gaps
\* and dots; two persons of one name and one who left both blank; a clock set either way.
MCHostNames == UNION {[1..n -> {97, 46}] : n \in 0..4}
MCTexts == UNION {[1..n -> {65, 91, 122}] : n \in 0..5}
MCPersons == {[name |-> "x", phone |-> "1"], [name |-> "x", phone |-> "2"],
              [name |-> "", phone |-> ""]}
MCClockSteps == {-12, -5, 5, 12}

\* The workers run the same code, and a worker is only ever compared with another for
\* equality; only invariants are checked here.
WorkerSymmetry == Permutations(Worker)

ProgramInit ==
  /\ active \in {"queue", "message", "clock", "book", "words", "sql"}
  /\ Init /\ LocalInit

ProgramNext ==
  \/ LocalNext /\ UNCHANGED vars
  \/ active = "queue" /\ Next /\ UNCHANGED localVars

ProgramSpec == ProgramInit /\ [][ProgramNext]_programVars

-----------------------------------------------------------------------------
(* Properties: JobInOnePlace, NothingStranded and AcceptReturns of the work *)
(* queue, and those of LocalPrograms.                                       *)
=============================================================================
