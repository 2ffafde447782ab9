----------------------------- MODULE MCAccounts -----------------------------
(* Accounts with one request at a time that always ends (alone), and, for   *)
(* one user of one browser, with crossing requests and processes that stop. *)
EXTENDS Accounts, TLC

CONSTANTS u1, u2, b1, b2

Crossing == INSTANCE Accounts WITH
    Users <- {u1}, Browsers <- {b1}, MaxSessions <- 2, MaxFailures <- 2

MCNext == \/ alone /\ Next
          \/ ~alone /\ Crossing!Next

\* Requests are interchangeable.
Symmetry == Permutations(Requests)

MCSpec == Init /\ [][MCNext]_vars
=============================================================================
