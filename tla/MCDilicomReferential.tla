------------------------ MODULE MCDilicomReferential ------------------------
(* Two copies of DilicomReferential, of which only one moves: two books,    *)
(* one request or task at a time and every failure (the constants of the    *)
(* cfg); and one book, every tab and task at once, with imports and without *)
(* failures (the variables free_...). The number of rows needs no bound: a  *)
(* tab inserts a row only for a book that had none when it read.            *)
EXTENDS DilicomReferential, TLC

CONSTANTS e1, k1, k2

VARIABLES mode, free_rows, free_known, free_tabs, free_tasks

free == <<free_rows, free_known, free_tabs, free_tasks>>

Free == INSTANCE DilicomReferential WITH
    rows <- free_rows, known <- free_known, tabs <- free_tabs, tasks <- free_tasks,
    Eans <- {e1}, Tasks <- {k1, k2}, Imports <- TRUE, Faults <- FALSE, Exclusive <- FALSE

MCInit == Init /\ Free!Init /\ mode \in {"alone", "free"}

MCNext ==
    /\ UNCHANGED mode
    /\ \/ mode = "alone" /\ Next /\ UNCHANGED free
       \/ mode = "free" /\ Free!Next /\ UNCHANGED vars

\* In the mode "alone" the fairness of the other copy asks for nothing: its
\* table is empty.
MCSpec == MCInit /\ [][MCNext]_<<vars, free, mode>> /\ Free!Fairness

\* However many tabs and tasks interleave, a row asks for one direction, so
\* that the file can be built, and the changes of a book leave the queue.
FreeChangesAreSent == []Free!DirectionKept /\ Free!ChangesAreSent
=============================================================================
