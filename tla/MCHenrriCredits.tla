-------------------------- MODULE MCHenrriCredits --------------------------
(* HenrriCredits in two environments, told apart by mode: every failure     *)
(* (the constants of the cfg), and no failure with two processes of which   *)
(* the requests must end. The initial consumption is on the first month.    *)
EXTENDS HenrriCredits, TLC

CONSTANTS c1, c2, t1, t2, t3

VARIABLE mode

Calm == INSTANCE HenrriCredits WITH
    Callers <- {c1, c2}, Tokens <- {t1, t2, t3}, Faults <- FALSE

MCInit == Init /\ mode \in {"faults", "calm"}

MCNext ==
    /\ UNCHANGED mode
    /\ \/ mode = "faults" /\ Next
       \/ mode = "calm" /\ Calm!Next

\* The fairness is that of the live processes; it forbids no finite behaviour,
\* so the safety properties are checked as without it.
MCSpec == MCInit /\ [][MCNext]_<<vars, mode>> /\ Calm!Fairness

\* Without failures, a reserved credit is consumed or given back at last.
CalmReservationsAreSettled == mode = "calm" => Calm!ReservationsAreSettled
=============================================================================
