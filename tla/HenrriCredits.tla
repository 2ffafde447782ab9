---------------------------- MODULE HenrriCredits ----------------------------
(***************************************************************************)
(* The monthly credits of the Henrri account, shared through MongoDB by    *)
(* every gunicorn worker of app_front and every process of app_back        *)
(* (db_models/services/henrri/monthly_credits.py), and the HTTP transport  *)
(* that takes a credit around each business write (henrri/base.py).        *)
(*                                                                         *)
(*   - a call reads the UTC month, then reserves one credit of that month  *)
(*     with one find_one_and_update;                                       *)
(*   - it sends the write; the answer decides between confirm, cancel and  *)
(*     keeping a reservation whose outcome is unknown;                     *)
(*   - confirm and cancel are one update guarded by the token.             *)
(*                                                                         *)
(* Any MongoDB operation may fail with or without effect, any process may  *)
(* die between two steps, the month may roll over at any moment. Henrri    *)
(* answers a write it executed with 2xx: the transport relies on it.       *)
(* A write whose answer is lost is executed when it is sent or never: the  *)
(* reservation is kept either way, so a later execution changes nothing.   *)
(* The budget documents are upserted by their readers with a fixed         *)
(* content, so they are modelled as always present.                        *)
(***************************************************************************)
EXTENDS Integers, FiniteSets

CONSTANTS
    Callers,        \* processes that talk to Henrri, one request at a time
    Tokens,         \* the uuid4 tokens of the reservations
    LastMonth,      \* bound: the months that the clock may reach
    Limit,          \* HENRRI_CREDIT_LIMIT
    InitialPeriod,  \* HENRRI_MONTHLY_CREDIT_INITIAL_PERIOD, 0 when unset
    InitialUsed,    \* HENRRI_MONTHLY_CREDIT_INITIAL_USED
    Faults          \* MongoDB errors, read timeouts and crashes happen

ASSUME BudgetAssumption ==
    /\ LastMonth \in Nat \ {0}
    /\ Limit \in Nat \ {0}
    /\ InitialUsed \in 0 .. Limit
    /\ InitialPeriod \in 0 .. LastMonth
    /\ InitialPeriod = 0 => InitialUsed = 0
    /\ Faults \in BOOLEAN

Months == 1 .. LastMonth
Seed(m) == IF m = InitialPeriod THEN InitialUsed ELSE 0

VARIABLES
    month,          \* the UTC calendar
    consumed,       \* month -> the "consumed" field of its document
    reservations,   \* month -> the "reservations" array of its document
    call,           \* caller -> its request in progress
    written,        \* month -> tokens of the writes Henrri executed
    confirmed,      \* history: month -> tokens turned into a consumed credit
    issued          \* history: the tokens drawn so far

vars == <<month, consumed, reservations, call, written, confirmed, issued>>
budget == <<consumed, reservations, confirmed, issued>>

Steps == {"idle", "reserving", "sending", "confirming", "cancelling"}
Call == [pc : Steps, period : Months, token : Tokens]
     \union [pc : {"idle", "reserving"}, period : Months]

TypeOK ==
    /\ month \in Months
    /\ consumed \in [Months -> Nat]
    /\ reservations \in [Months -> SUBSET Tokens]
    /\ call \in [Callers -> Call]
    /\ written \in [Months -> SUBSET Tokens]
    /\ confirmed \in [Months -> SUBSET Tokens]
    /\ issued \in SUBSET Tokens

Init ==
    /\ month = 1
    /\ consumed = [m \in Months |-> Seed(m)]
    /\ reservations = [m \in Months |-> {}]
    /\ call = [c \in Callers |-> [pc |-> "idle", period |-> 1]]
    /\ written = [m \in Months |-> {}]
    /\ confirmed = [m \in Months |-> {}]
    /\ issued = {}

-----------------------------------------------------------------------------
\* Mutation of Available: the uncertain reservations are forgotten.
MutAvailable(m) == Limit - consumed[m]

\* What get_status reports, and ensure_available blocks on when it is zero.
Available(m) == Limit - consumed[m] - Cardinality(reservations[m])

Goto(c, pc) == call' = [call EXCEPT ![c].pc = pc]

\* A business write enters the transport: _ensure_month reads the clock.
ReadMonth(c) ==
    /\ call[c].pc = "idle"
    /\ call' = [call EXCEPT ![c] = [pc |-> "reserving", period |-> month]]
    /\ UNCHANGED <<month, budget, written>>

\* find_one_and_update pushes a token while consumed + size < limit. With
\* "heard" false the answer is lost: the caller sees MonthlyCreditsUnavailable
\* and sends nothing, but the token stays in the document.
Reserve(c, t, heard) ==
    LET m == call[c].period IN
    /\ call[c].pc = "reserving"
    /\ t \in Tokens \ issued
    /\ Available(m) > 0
    /\ heard \/ Faults
    /\ reservations' = [reservations EXCEPT ![m] = @ \union {t}]
    /\ issued' = issued \union {t}
    /\ call' = [call EXCEPT ![c] =
                  IF heard THEN [pc |-> "sending", period |-> m, token |-> t]
                           ELSE [pc |-> "idle", period |-> m]]
    /\ UNCHANGED <<month, consumed, confirmed, written>>

\* MonthlyCreditQuotaExceeded, or MongoDB unreachable: nothing is sent.
Refuse(c) ==
    /\ call[c].pc = "reserving"
    /\ Available(call[c].period) <= 0 \/ Faults
    /\ Goto(c, "idle")
    /\ UNCHANGED <<month, budget, written>>

\* Mutation of Send: a read timeout is taken for a certain failure.
MutSend(c) ==
    /\ call[c].pc = "sending"
    /\ \/ written' = [written EXCEPT ![call[c].period] = @ \union {call[c].token}]
       \/ UNCHANGED written
    /\ \E pc \in {"confirming", "cancelling"} : Goto(c, pc)
    /\ UNCHANGED <<month, budget>>

\* Henrri executes the write (or not) and the transport sees an answer (or
\* not). A connection failure and a non-2xx answer lead to cancel, a 2xx
\* answer to confirm, any other exception keeps the reservation.
Send(c) ==
    LET m == call[c].period
        Execute == written' = [written EXCEPT ![m] = @ \union {call[c].token}]
    IN
    /\ call[c].pc = "sending"
    /\ \/ Execute /\ Goto(c, "confirming")                  \* 2xx
       \/ UNCHANGED written /\ Goto(c, "cancelling")        \* refused
       \/ Faults /\ Execute /\ Goto(c, "idle")              \* read timeout
       \/ Faults /\ UNCHANGED written /\ Goto(c, "idle")
    /\ UNCHANGED <<month, budget>>

\* Mutation of Confirm: the current month is charged, not the reserved one.
MutConfirmMonth(c) ==
    LET m == call[c].period  t == call[c].token IN
    /\ call[c].pc = "confirming"
    /\ reservations' = [reservations EXCEPT ![m] = @ \ {t}]
    /\ consumed' = [consumed EXCEPT ![month] = @ + 1]
    /\ confirmed' = [confirmed EXCEPT ![m] = @ \union {t}]
    /\ Goto(c, "idle")
    /\ UNCHANGED <<month, issued, written>>

\* Mutation of Confirm: the credit is counted and the token never pulled.
MutConfirmKeeps(c) ==
    /\ call[c].pc = "confirming"
    /\ consumed' = [consumed EXCEPT ![call[c].period] = @ + 1]
    /\ Goto(c, "idle")
    /\ UNCHANGED <<month, reservations, confirmed, issued, written>>

\* _settle(successful=True): $pull and $inc in one update guarded by the
\* token, charged to the month of the reservation.
Confirm(c) ==
    LET m == call[c].period  t == call[c].token IN
    /\ call[c].pc = "confirming"
    /\ IF t \in reservations[m]
         THEN /\ reservations' = [reservations EXCEPT ![m] = @ \ {t}]
              /\ consumed' = [consumed EXCEPT ![m] = @ + 1]
              /\ confirmed' = [confirmed EXCEPT ![m] = @ \union {t}]
         ELSE UNCHANGED <<reservations, consumed, confirmed>>
    /\ Goto(c, "idle")
    /\ UNCHANGED <<month, issued, written>>

\* Mutation of Cancel: the failed write is refunded on the counter too.
MutCancel(c) ==
    LET m == call[c].period IN
    /\ call[c].pc = "cancelling"
    /\ reservations' = [reservations EXCEPT ![m] = @ \ {call[c].token}]
    /\ consumed' = [consumed EXCEPT ![m] = @ - 1]
    /\ Goto(c, "idle")
    /\ UNCHANGED <<month, confirmed, issued, written>>

\* _settle(successful=False).
Cancel(c) ==
    LET m == call[c].period IN
    /\ call[c].pc = "cancelling"
    /\ reservations' = [reservations EXCEPT ![m] = @ \ {call[c].token}]
    /\ Goto(c, "idle")
    /\ UNCHANGED <<month, consumed, confirmed, issued, written>>

\* MonthlyCreditsUnavailable while settling is logged and the answer is
\* returned: the reservation is kept.
SettleUnavailable(c) ==
    /\ Faults
    /\ call[c].pc \in {"confirming", "cancelling"}
    /\ Goto(c, "idle")
    /\ UNCHANGED <<month, budget, written>>

\* The process dies with its request; a new one takes its place.
Crash(c) ==
    /\ Faults
    /\ call[c].pc # "idle"
    /\ Goto(c, "idle")
    /\ UNCHANGED <<month, budget, written>>

NewMonth ==
    /\ month < LastMonth
    /\ month' = month + 1
    /\ UNCHANGED <<budget, call, written>>

Next ==
    \/ NewMonth
    \/ \E c \in Callers :
         \/ ReadMonth(c) \/ Refuse(c) \/ Send(c) \/ Confirm(c) \/ Cancel(c)
         \/ SettleUnavailable(c) \/ Crash(c)
         \/ \E t \in Tokens, heard \in BOOLEAN : Reserve(c, t, heard)

Spec == Init /\ [][Next]_vars

\* A request that entered the transport goes on: httpx times out, so no step
\* of a live process waits for ever. Nobody is obliged to start a request.
Progress(c) ==
    Refuse(c) \/ Send(c) \/ Confirm(c) \/ Cancel(c)
      \/ \E t \in Tokens : Reserve(c, t, TRUE)

Fairness == \A c \in Callers : WF_vars(Progress(c))

-----------------------------------------------------------------------------
(* Properties.                                                             *)

\* reserve() never lets the credits charged to a month, the uncertain ones
\* included, pass the limit, whatever the processes do at the same time.
QuotaNeverExceeded ==
    \A m \in Months : consumed[m] + Cardinality(reservations[m]) <= Limit

\* Every write that Henrri executed still holds its credit, consumed or
\* reserved, in the month it was authorised in: neither a crash, nor a lost
\* answer, nor a roll-over gives back a credit that was used.
WritesHoldTheirCredit ==
    \A m \in Months : written[m] \subseteq reservations[m] \union confirmed[m]

\* confirm() charges a known success, once: the consumed counter is the seed
\* plus one per executed write, never more.
ChargedOnlyForWrites ==
    \A m \in Months :
      /\ confirmed[m] \subseteq written[m]
      /\ consumed[m] = Seed(m) + Cardinality(confirmed[m])

\* The transport implements the promise of the budget: the writes that Henrri
\* executes are spent one by one, and a month never spends more than Limit.
Budget == INSTANCE CreditBudget WITH
            spent <- [m \in Months |-> Seed(m) + Cardinality(written[m])]
ImplementsBudget == Budget!Spec

\* When nothing fails, a reservation is settled: credits are not leaked by
\* the ordinary path of a request.
ReservationsAreSettled ==
    \A t \in Tokens :
      (\E m \in Months : t \in reservations[m])
        ~> (\A m \in Months : t \notin reservations[m])
=============================================================================
