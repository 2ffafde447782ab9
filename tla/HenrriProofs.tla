---------------------------- MODULE HenrriProofs ----------------------------
(***************************************************************************)
(* Proofs about the synchronisation with Henrri, for any number of         *)
(* processes, workers and rows and any bounds.                             *)
(*                                                                         *)
(* HenrriCredits:                                                          *)
(*   - TypeOK, and the inductive invariant IInv built on it;               *)
(*   - QuotaNeverExceeded, WritesHoldTheirCredit, ChargedOnlyForWrites;    *)
(*   - the refinement of CreditBudget.                                     *)
(*                                                                         *)
(* HenrriDocuments:                                                        *)
(*   - UploadsInv, inductive, gives SuccessMeansFinalized: of each invoice *)
(*     (RowOK) the committed rows name documents and lines that exist; of  *)
(*     each session (Base) so do the rows it read with the answers it got, *)
(*     and at each step (Stage) it has dealt with all lines but those it   *)
(*     has still to create;                                                *)
(*   - CalmInv, inductive with UploadsInv, gives NoDuplicates: the one     *)
(*     session at work, or the rows when there is none, know of every      *)
(*     object Henrri holds (HeldBy), and the session creates only what it  *)
(*     does not know of (Pace).                                            *)
(***************************************************************************)
EXTENDS HenrriCredits, HenrriDocuments, FiniteSetTheorems, SequenceTheorems, TLAPS

-----------------------------------------------------------------------------
(* The credits.                                                            *)

Holding(c) == call[c].pc \in {"sending", "confirming", "cancelling"}
Charged(m) == reservations[m] \union confirmed[m]

\* The documents of MongoDB: what a month's fields say of each other.
LedgerOK ==
    \A m \in Months :
      /\ IsFiniteSet(reservations[m]) /\ IsFiniteSet(confirmed[m])
      /\ Charged(m) \subseteq issued
      /\ reservations[m] \intersect confirmed[m] = {}
      /\ consumed[m] = Seed(m) + Cardinality(confirmed[m])
      /\ consumed[m] + Cardinality(reservations[m]) <= Limit

\* A token belongs to the document of one month.
OneMonthPerToken ==
    \A m, n \in Months : m # n => Charged(m) \intersect Charged(n) = {}

\* The executed writes lie between the consumed and the charged credits.
WritesOK ==
    \A m \in Months : confirmed[m] \subseteq written[m] /\ written[m] \subseteq Charged(m)

\* A process about to send or to settle holds a reservation of its own, whose
\* write it knows to be executed or not.
CallOK(c) ==
    Holding(c) =>
      /\ call[c].token \in reservations[call[c].period]
      /\ call[c].pc = "confirming" <=> call[c].token \in written[call[c].period]
      /\ \A d \in Callers \ {c} : Holding(d) => call[d].token # call[c].token

IInv == TypeOK /\ LedgerOK /\ OneMonthPerToken /\ WritesOK /\ \A c \in Callers : CallOK(c)

-----------------------------------------------------------------------------
\* Months is a set of naturals and every month starts within the limit.
LEMMA SeedType ==
    /\ 1 \in Months /\ Months \subseteq Nat /\ Limit \in Nat
    /\ \A m \in Months : Seed(m) \in Nat /\ Seed(m) <= Limit
BY BudgetAssumption DEF Months, Seed

\* A process that holds a reservation has a token and a period.
LEMMA HoldingType ==
    ASSUME TypeOK, NEW c \in Callers, Holding(c)
    PROVE  /\ call[c] \in [pc : Steps, period : Months, token : Tokens]
           /\ call[c].token \in Tokens /\ call[c].period \in Months
BY DEF TypeOK, Call, Holding

\* A step that changes the program counter keeps the reservation of the call.
LEMMA GotoKeeps ==
    ASSUME TypeOK, NEW c \in Callers, Holding(c), NEW pc, Goto(c, pc)
    PROVE  /\ call'[c].pc = pc
           /\ call'[c].token = call[c].token
           /\ call'[c].period = call[c].period
           /\ \A d \in Callers \ {c} : call'[d] = call[d]
BY HoldingType DEF TypeOK, Goto

\* A change of program counter alone keeps the type of call.
LEMMA GotoType ==
    ASSUME TypeOK, NEW c \in Callers,
           NEW pc \in {"idle", "confirming", "cancelling"},
           Holding(c) \/ pc = "idle", Goto(c, pc)
    PROVE  call' \in [Callers -> Call]
<1>1. [call[c] EXCEPT !.pc = pc] \in Call
  BY DEF TypeOK, Call, Holding, Steps
<1> QED
  BY <1>1 DEF Goto, TypeOK

\* Adding or removing one token moves the cardinality of a set by one.
LEMMA AddToken ==
    ASSUME NEW S, IsFiniteSet(S), NEW t, t \notin S
    PROVE  IsFiniteSet(S \union {t}) /\ Cardinality(S \union {t}) = Cardinality(S) + 1
BY FS_AddElement

\* A set of reservations with one less.
LEMMA RemoveToken ==
    ASSUME NEW S, IsFiniteSet(S), NEW t, t \in S
    PROVE  IsFiniteSet(S \ {t}) /\ Cardinality(S \ {t}) = Cardinality(S) - 1
BY FS_RemoveElement

\* Types, at the start.
LEMMA TypeInit == Init => TypeOK
BY SeedType DEF Init, TypeOK, Call, Steps

\* Every step keeps the types.
LEMMA TypeStep == TypeOK /\ [Next]_vars => TypeOK'
<1> SUFFICES ASSUME TypeOK, [Next]_vars PROVE TypeOK'
  OBVIOUS
<1> USE SeedType
<1>1. CASE NewMonth
  BY <1>1, BudgetAssumption DEF NewMonth, TypeOK, budget, Months
<1>2. ASSUME NEW c \in Callers, ReadMonth(c) PROVE TypeOK'
  BY <1>2 DEF ReadMonth, TypeOK, budget, Call
<1>3. ASSUME NEW c \in Callers, Refuse(c) PROVE TypeOK'
  BY <1>3, GotoType DEF Refuse, TypeOK, budget
<1>4. ASSUME NEW c \in Callers, Send(c) PROVE TypeOK'
  <2>1. Holding(c)
    BY <1>4 DEF Send, Holding
  <2>2. call' \in [Callers -> Call]
    BY <1>4, <2>1, GotoType DEF Send
  <2>3. written' \in [Months -> SUBSET Tokens]
    BY <1>4, <2>1, HoldingType DEF Send, TypeOK
  <2> QED
    BY <1>4, <2>2, <2>3 DEF Send, TypeOK, budget
<1>5. ASSUME NEW c \in Callers, Confirm(c) PROVE TypeOK'
  <2>1. Holding(c)
    BY <1>5 DEF Confirm, Holding
  <2>2. call' \in [Callers -> Call]
    BY <1>5, <2>1, GotoType DEF Confirm
  <2> QED
    BY <1>5, <2>1, <2>2, HoldingType DEF Confirm, TypeOK
<1>6. ASSUME NEW c \in Callers, Cancel(c) PROVE TypeOK'
  <2>1. Holding(c)
    BY <1>6 DEF Cancel, Holding
  <2>2. call' \in [Callers -> Call]
    BY <1>6, <2>1, GotoType DEF Cancel
  <2> QED
    BY <1>6, <2>2 DEF Cancel, TypeOK
<1>7. ASSUME NEW c \in Callers, SettleUnavailable(c) \/ Crash(c) PROVE TypeOK'
  BY <1>7, GotoType DEF SettleUnavailable, Crash, TypeOK, budget
<1>8. ASSUME NEW c \in Callers, NEW t \in Tokens, NEW heard \in BOOLEAN,
             Reserve(c, t, heard)
      PROVE  TypeOK'
  <2>1. call[c].period \in Months
    BY DEF TypeOK, Call
  <2>2. call' \in [Callers -> Call]
    BY <1>8, <2>1 DEF Reserve, TypeOK, Call, Steps
  <2> QED
    BY <1>8, <2>1, <2>2 DEF Reserve, TypeOK
<1>9. CASE UNCHANGED vars
  BY <1>9 DEF vars, TypeOK
<1> QED
  BY <1>1, <1>2, <1>3, <1>4, <1>5, <1>6, <1>7, <1>8, <1>9 DEF Next

\* Every reachable state is well typed: a caller that is past reserve() has a
\* token, and the consumed counter is a natural.
THEOREM TypeCorrect == Spec => []TypeOK
BY TypeInit, TypeStep, PTL DEF Spec

-----------------------------------------------------------------------------
\* The inductive invariant, at the start.
LEMMA InvInit == Init => IInv
<1> SUFFICES ASSUME Init PROVE IInv
  OBVIOUS
<1>1. TypeOK
  BY TypeInit
<1>2. LedgerOK
  BY SeedType, FS_EmptySet DEF Init, LedgerOK, Charged
<1>3. OneMonthPerToken /\ WritesOK /\ \A c \in Callers : CallOK(c)
  BY DEF Init, OneMonthPerToken, WritesOK, CallOK, Charged, Holding
<1> QED
  BY <1>1, <1>2, <1>3 DEF IInv

\* A step that leaves the documents and the writes alone, and after which no
\* process holds more than it did, preserves the invariant.
LEMMA QuietStep ==
    ASSUME IInv, TypeOK', UNCHANGED <<budget, written>>,
           \A c \in Callers :
             \/ ~Holding(c)'
             \/ /\ Holding(c)
                /\ UNCHANGED <<call[c].token, call[c].period>>
                /\ call'[c].pc = "confirming" <=> call[c].token \in written[call[c].period]
    PROVE  IInv'
<1>1. LedgerOK' /\ OneMonthPerToken' /\ WritesOK'
  BY DEF IInv, budget, LedgerOK, OneMonthPerToken, WritesOK, Charged
<1>2. \A c \in Callers : CallOK(c)'
  BY DEF IInv, CallOK, budget
<1> QED
  BY <1>1, <1>2 DEF IInv

\* The atomic find_one_and_update: there was room, so one more token fits.
LEMMA ReserveStep ==
    ASSUME IInv, TypeOK', NEW c \in Callers, NEW t \in Tokens, NEW heard \in BOOLEAN,
           Reserve(c, t, heard)
    PROVE  IInv'
<1> DEFINE m == call[c].period
<1> USE SeedType
<1>0. m \in Months /\ t \notin issued
  BY DEF IInv, TypeOK, Call, Reserve
<1>1. LedgerOK'
  <2> SUFFICES ASSUME NEW k \in Months
               PROVE  /\ IsFiniteSet(reservations'[k]) /\ IsFiniteSet(confirmed'[k])
                      /\ Charged(k)' \subseteq issued'
                      /\ reservations'[k] \intersect confirmed'[k] = {}
                      /\ consumed'[k] = Seed(k) + Cardinality(confirmed'[k])
                      /\ consumed'[k] + Cardinality(reservations'[k]) <= Limit
    BY DEF LedgerOK
  <2>1. confirmed'[k] = confirmed[k] /\ consumed'[k] = consumed[k]
    BY DEF Reserve
  <2>2. CASE k # m
    <3>1. reservations'[k] = reservations[k]
      BY <2>2 DEF IInv, TypeOK, Reserve
    <3> QED
      BY <2>1, <3>1 DEF IInv, LedgerOK, Charged, Reserve
  <2>3. CASE k = m
    <3>1. reservations'[m] = reservations[m] \union {t}
      BY <1>0 DEF IInv, TypeOK, Reserve
    <3>2. t \notin reservations[m] /\ t \notin confirmed[m]
      BY <1>0 DEF IInv, LedgerOK, Charged
    <3>3. IsFiniteSet(reservations[m]) /\ Cardinality(reservations[m]) \in Nat
      BY <1>0, FS_CardinalityType DEF IInv, LedgerOK
    <3>4. /\ IsFiniteSet(reservations'[m])
          /\ Cardinality(reservations'[m]) = Cardinality(reservations[m]) + 1
      BY <3>1, <3>2, <3>3, AddToken
    <3>5. consumed[m] + Cardinality(reservations[m]) < Limit
      <4>1. consumed[m] \in Nat
        BY <1>0 DEF IInv, TypeOK
      <4>2. Limit - consumed[m] - Cardinality(reservations[m]) > 0
        BY DEF Reserve, Available
      <4> QED
        BY <4>1, <4>2, <3>3
    <3>6. consumed'[m] + Cardinality(reservations'[m]) <= Limit
      <4>1. consumed[m] \in Nat
        BY <1>0 DEF IInv, TypeOK
      <4> QED
        BY <4>1, <2>1, <2>3, <3>3, <3>4, <3>5
    <3>7. /\ reservations'[m] \union confirmed'[m] \subseteq issued'
          /\ reservations'[m] \intersect confirmed'[m] = {}
      BY <1>0, <2>1, <2>3, <3>1, <3>2 DEF IInv, LedgerOK, Charged, Reserve
    <3>8. IsFiniteSet(confirmed'[m]) /\ consumed'[m] = Seed(m) + Cardinality(confirmed'[m])
      BY <1>0, <2>1, <2>3 DEF IInv, LedgerOK
    <3> QED
      BY <2>1, <2>3, <3>4, <3>6, <3>7, <3>8 DEF Charged
  <2> QED
    BY <2>2, <2>3
<1>2. OneMonthPerToken'
  BY <1>0 DEF IInv, TypeOK, LedgerOK, OneMonthPerToken, Charged, Reserve
<1>3. WritesOK'
  BY <1>0 DEF IInv, TypeOK, WritesOK, Charged, Reserve
<1>4. t \notin written[m] /\ \A d \in Callers : Holding(d) => call[d].token # t
  <2>1. t \notin written[m]
    BY <1>0 DEF IInv, WritesOK, LedgerOK
  <2>2. ASSUME NEW d \in Callers, Holding(d) PROVE call[d].token # t
    <3>1. call[d].token \in reservations[call[d].period] /\ call[d].period \in Months
      BY <2>2, HoldingType DEF IInv, CallOK
    <3> QED
      BY <1>0, <3>1 DEF IInv, LedgerOK, Charged
  <2> QED
    BY <2>1, <2>2
<1>5. \A d \in Callers : CallOK(d)'
  <2> SUFFICES ASSUME NEW d \in Callers, Holding(d)' PROVE CallOK(d)'
    BY DEF CallOK
  <2>1. CASE d = c
    BY <1>0, <1>4, <2>1 DEF IInv, TypeOK, Reserve, CallOK, Holding
  <2>2. CASE d # c
    <3>1. call'[d] = call[d] /\ Holding(d)
      BY <2>2 DEF IInv, TypeOK, Reserve, Holding
    <3>2. call[d].token \in reservations'[call[d].period]
      BY <3>1, HoldingType DEF IInv, TypeOK, CallOK, Reserve
    <3>3. \A e \in Callers \ {d} : Holding(e)' => call'[e].token # call'[d].token
      <4> SUFFICES ASSUME NEW e \in Callers \ {d}, Holding(e)'
                   PROVE  call'[e].token # call'[d].token
        OBVIOUS
      <4>1. CASE e = c
        BY <4>1, <1>4, <3>1 DEF IInv, TypeOK, Reserve, Holding
      <4>2. CASE e # c
        BY <4>2, <3>1 DEF IInv, TypeOK, Reserve, Holding, CallOK
      <4> QED
        BY <4>1, <4>2
    <3> QED
      BY <3>1, <3>2, <3>3 DEF IInv, CallOK, Reserve
  <2> QED
    BY <2>1, <2>2
<1> QED
  BY <1>1, <1>2, <1>3, <1>5 DEF IInv

\* The write is executed under a reservation that nobody else holds, so no
\* other process' knowledge of its own write is disturbed.
LEMMA SendStep ==
    ASSUME IInv, TypeOK', NEW c \in Callers, Send(c)
    PROVE  IInv'
<1> DEFINE m == call[c].period
           t == call[c].token
<1>0. Holding(c) /\ t \in Tokens /\ m \in Months /\ t \in reservations[m] /\ t \notin written[m]
  BY HoldingType DEF IInv, CallOK, Send, Holding
<1>1. written' = [written EXCEPT ![m] = @ \union {t}] \/ UNCHANGED written
  BY DEF Send
<1>2. LedgerOK' /\ OneMonthPerToken'
  BY DEF IInv, LedgerOK, OneMonthPerToken, Charged, Send, budget
<1>3. WritesOK'
  BY <1>0, <1>1 DEF IInv, TypeOK, WritesOK, Charged, Send, budget
<1>4. \A d \in Callers : CallOK(d)'
  <2> SUFFICES ASSUME NEW d \in Callers, Holding(d)' PROVE CallOK(d)'
    BY DEF CallOK
  <2>1. PICK pc : Goto(c, pc)
    BY DEF Send
  <2>2. /\ call'[c].token = t /\ call'[c].period = m
        /\ \A e \in Callers \ {c} : call'[e] = call[e]
    BY <1>0, <2>1, GotoKeeps DEF IInv
  <2>3. \A e \in Callers : /\ Holding(e)' => Holding(e)
                            /\ call'[e].token = call[e].token
                            /\ call'[e].period = call[e].period
    BY <1>0, <2>2 DEF Holding
  <2>4. /\ call[d].token \in reservations'[call[d].period]
        /\ \A e \in Callers \ {d} : Holding(e)' => call'[e].token # call'[d].token
    BY <2>3 DEF IInv, CallOK, Send, budget
  <2>5. call'[d].pc = "confirming" <=> call[d].token \in written'[call[d].period]
    <3>1. CASE d = c
      <4>1. CASE call'[c].pc = "confirming"
        <5>1. written' = [written EXCEPT ![m] = @ \union {t}]
          BY <4>1, <1>0, GotoKeeps DEF IInv, Send
        <5> QED
          BY <3>1, <4>1, <5>1, <1>0 DEF IInv, TypeOK
      <4>2. CASE call'[c].pc = "cancelling"
        <5>1. UNCHANGED written
          BY <4>2, <1>0, GotoKeeps DEF IInv, Send
        <5> QED
          BY <3>1, <4>2, <5>1, <1>0
      <4> QED
        BY <3>1, <4>1, <4>2, <1>0, GotoKeeps DEF IInv, Send, Holding
    <3>2. CASE d # c
      <4>1. call'[d] = call[d] /\ call[d].token # t
        BY <3>2, <2>2, <2>3, <1>0 DEF IInv, CallOK
      <4>2. call[d].period \in Months
        BY <2>3, HoldingType DEF IInv
      <4>3. call[d].token \in written'[call[d].period] <=> call[d].token \in written[call[d].period]
        BY <4>1, <4>2, <1>0, <1>1 DEF IInv, TypeOK
      <4> QED
        BY <4>1, <4>3, <2>3 DEF IInv, CallOK
    <3> QED
      BY <3>1, <3>2
  <2> QED
    BY <2>3, <2>4, <2>5 DEF CallOK
<1> QED
  BY <1>2, <1>3, <1>4 DEF IInv

\* confirm() and cancel() remove one token, owned by the process that settles:
\* the other reservations, and the processes that hold them, are untouched.
LEMMA SettleCalls ==
    ASSUME IInv, NEW c \in Callers, Holding(c), Goto(c, "idle"), UNCHANGED written,
           reservations' = [reservations EXCEPT ![call[c].period] = @ \ {call[c].token}]
    PROVE  \A d \in Callers : CallOK(d)'
<1> SUFFICES ASSUME NEW d \in Callers, Holding(d)' PROVE CallOK(d)'
  BY DEF CallOK
<1>1. \A e \in Callers : Holding(e)' => e # c /\ Holding(e) /\ call'[e] = call[e]
  BY DEF IInv, TypeOK, Goto, Holding
<1>2. call[d].token # call[c].token /\ call[d].token \in reservations[call[d].period]
  BY <1>1 DEF IInv, CallOK
<1>3. call[d].token \in reservations'[call[d].period]
  BY <1>1, <1>2, HoldingType DEF IInv, TypeOK
<1> QED
  BY <1>1, <1>3 DEF IInv, CallOK

\* A confirmation charges its own reservation, in its own month.
LEMMA ConfirmStep ==
    ASSUME IInv, TypeOK', NEW c \in Callers, Confirm(c)
    PROVE  IInv'
<1> DEFINE m == call[c].period
           t == call[c].token
<1> USE SeedType
<1>0. /\ Holding(c) /\ t \in Tokens /\ m \in Months
      /\ t \in reservations[m] /\ t \in written[m]
  BY HoldingType DEF IInv, CallOK, Confirm, Holding
<1>1. /\ reservations' = [reservations EXCEPT ![m] = @ \ {t}]
      /\ consumed' = [consumed EXCEPT ![m] = @ + 1]
      /\ confirmed' = [confirmed EXCEPT ![m] = @ \union {t}]
      /\ UNCHANGED <<issued, written>>
  BY <1>0 DEF Confirm
<1>6. \A d \in Callers : CallOK(d)'
  BY <1>0, <1>1, SettleCalls DEF Confirm
<1> HIDE DEF m, t
<1>2. \A k \in Months : Charged(k)' = Charged(k)
  BY <1>0, <1>1 DEF IInv, TypeOK, Charged
<1>3. LedgerOK'
  <2> SUFFICES ASSUME NEW k \in Months
               PROVE  /\ IsFiniteSet(reservations'[k]) /\ IsFiniteSet(confirmed'[k])
                      /\ reservations'[k] \intersect confirmed'[k] = {}
                      /\ consumed'[k] = Seed(k) + Cardinality(confirmed'[k])
                      /\ consumed'[k] + Cardinality(reservations'[k]) <= Limit
    BY <1>1, <1>2 DEF IInv, LedgerOK
  <2>1. CASE k # m
    BY <2>1, <1>1 DEF IInv, TypeOK, LedgerOK
  <2>2. CASE k = m
    <3>1. /\ reservations'[m] = reservations[m] \ {t}
          /\ confirmed'[m] = confirmed[m] \union {t}
          /\ consumed'[m] = consumed[m] + 1
      BY <1>0, <1>1 DEF IInv, TypeOK
    <3>2. /\ IsFiniteSet(reservations[m]) /\ IsFiniteSet(confirmed[m])
          /\ Cardinality(reservations[m]) \in Nat /\ Cardinality(confirmed[m]) \in Nat
          /\ t \notin confirmed[m]
      BY <1>0, FS_CardinalityType DEF IInv, LedgerOK
    <3>3. /\ IsFiniteSet(reservations'[m])
          /\ Cardinality(reservations'[m]) = Cardinality(reservations[m]) - 1
      <4>1. /\ IsFiniteSet(reservations[m] \ {t})
            /\ Cardinality(reservations[m] \ {t}) = Cardinality(reservations[m]) - 1
        BY <1>0, <3>2, RemoveToken
      <4> QED
        BY <3>1, <4>1
    <3>4. /\ IsFiniteSet(confirmed'[m])
          /\ Cardinality(confirmed'[m]) = Cardinality(confirmed[m]) + 1
      <4>1. /\ IsFiniteSet(confirmed[m] \union {t})
            /\ Cardinality(confirmed[m] \union {t}) = Cardinality(confirmed[m]) + 1
        BY <3>2, AddToken
      <4> QED
        BY <3>1, <4>1
    <3>5. /\ consumed[m] = Seed(m) + Cardinality(confirmed[m])
          /\ consumed[m] + Cardinality(reservations[m]) <= Limit
          /\ reservations[m] \intersect confirmed[m] = {}
      BY <1>0 DEF IInv, LedgerOK
    <3>6. Seed(m) \in Nat
      BY <1>0
    <3>7. consumed'[m] + Cardinality(reservations'[m]) <= Limit
      BY <3>1, <3>2, <3>3, <3>5, <3>6
    <3>8. consumed'[m] = Seed(m) + Cardinality(confirmed'[m])
      BY <3>1, <3>2, <3>4, <3>5, <3>6
    <3>9. reservations'[m] \intersect confirmed'[m] = {}
      BY <3>1, <3>5
    <3> QED
      BY <2>2, <3>3, <3>4, <3>7, <3>8, <3>9
  <2> QED
    BY <2>1, <2>2
<1>4. OneMonthPerToken'
  BY <1>2 DEF IInv, OneMonthPerToken
<1>5. WritesOK'
  BY <1>0, <1>1, <1>2 DEF IInv, TypeOK, WritesOK
<1> QED
  BY <1>3, <1>4, <1>5, <1>6 DEF IInv

\* A cancellation gives back its own reservation only.
LEMMA CancelStep ==
    ASSUME IInv, TypeOK', NEW c \in Callers, Cancel(c)
    PROVE  IInv'
<1> DEFINE m == call[c].period
           t == call[c].token
<1> USE SeedType
<1>0. /\ Holding(c) /\ t \in Tokens /\ m \in Months
      /\ t \in reservations[m] /\ t \notin written[m]
  BY HoldingType DEF IInv, CallOK, Cancel, Holding
<1>1. /\ reservations' = [reservations EXCEPT ![m] = @ \ {t}]
      /\ UNCHANGED <<consumed, confirmed, issued, written>>
  BY DEF Cancel
<1>2. \A k \in Months : reservations'[k] \subseteq reservations[k]
  BY <1>1 DEF IInv, TypeOK
<1>3. \A k \in Months : /\ IsFiniteSet(reservations'[k])
                         /\ Cardinality(reservations'[k]) \in Nat
                         /\ Cardinality(reservations[k]) \in Nat
                         /\ Cardinality(reservations'[k]) <= Cardinality(reservations[k])
  BY <1>2, FS_Subset, FS_CardinalityType DEF IInv, LedgerOK
<1>4. LedgerOK'
  <2> SUFFICES ASSUME NEW k \in Months
               PROVE  /\ IsFiniteSet(reservations'[k]) /\ IsFiniteSet(confirmed'[k])
                      /\ Charged(k)' \subseteq issued'
                      /\ reservations'[k] \intersect confirmed'[k] = {}
                      /\ consumed'[k] = Seed(k) + Cardinality(confirmed'[k])
                      /\ consumed'[k] + Cardinality(reservations'[k]) <= Limit
    BY DEF LedgerOK
  <2>1. consumed'[k] \in Nat /\ consumed'[k] + Cardinality(reservations[k]) <= Limit
    BY <1>1 DEF IInv, TypeOK, LedgerOK
  <2>2. consumed'[k] + Cardinality(reservations'[k]) <= Limit
    BY <1>3, <2>1
  <2> QED
    BY <1>1, <1>2, <1>3, <2>2 DEF IInv, LedgerOK, Charged
<1>5. OneMonthPerToken'
  BY <1>1, <1>2 DEF IInv, OneMonthPerToken, Charged
<1>6. WritesOK'
  BY <1>0, <1>1 DEF IInv, TypeOK, WritesOK, Charged
<1>7. \A d \in Callers : CallOK(d)'
  BY <1>0, <1>1, SettleCalls DEF Cancel
<1> QED
  BY <1>4, <1>5, <1>6, <1>7 DEF IInv

\* Every step keeps the inductive invariant.
LEMMA InvStep == IInv /\ [Next]_vars => IInv'
<1> SUFFICES ASSUME IInv, [Next]_vars PROVE IInv'
  OBVIOUS
<1>0. TypeOK /\ TypeOK'
  BY TypeStep DEF IInv
<1>1. CASE NewMonth
  BY <1>0, <1>1, QuietStep DEF NewMonth, Holding, IInv, CallOK
<1>2. ASSUME NEW c \in Callers, ReadMonth(c) PROVE IInv'
  BY <1>0, <1>2, QuietStep DEF ReadMonth, Holding, IInv, CallOK, TypeOK
<1>3. ASSUME NEW c \in Callers, Refuse(c) \/ SettleUnavailable(c) \/ Crash(c) PROVE IInv'
  <2>1. Goto(c, "idle") /\ UNCHANGED <<budget, written>>
    BY <1>3 DEF Refuse, SettleUnavailable, Crash
  <2> QED
    BY <1>0, <2>1, QuietStep DEF Goto, Holding, IInv, CallOK, TypeOK
<1>4. ASSUME NEW c \in Callers, NEW t \in Tokens, NEW heard \in BOOLEAN,
             Reserve(c, t, heard)
      PROVE  IInv'
  BY <1>0, <1>4, ReserveStep
<1>5. ASSUME NEW c \in Callers, Send(c) PROVE IInv'
  BY <1>0, <1>5, SendStep
<1>6. ASSUME NEW c \in Callers, Confirm(c) PROVE IInv'
  BY <1>0, <1>6, ConfirmStep
<1>7. ASSUME NEW c \in Callers, Cancel(c) PROVE IInv'
  BY <1>0, <1>7, CancelStep
<1>8. CASE UNCHANGED vars
  BY <1>0, <1>8, QuietStep DEF vars, budget, Holding, IInv, CallOK
<1> QED
  BY <1>1, <1>2, <1>3, <1>4, <1>5, <1>6, <1>7, <1>8 DEF Next

\* The inductive invariant holds in every reachable state.
THEOREM Inductive == Spec => []IInv
BY InvInit, InvStep, PTL DEF Spec

\* No interleaving of processes, crash, lost answer or roll-over lets the
\* charged credits of a month pass the limit.
THEOREM QuotaSafe == Spec => []QuotaNeverExceeded
<1>1. IInv => QuotaNeverExceeded
  BY DEF IInv, LedgerOK, QuotaNeverExceeded
<1> QED
  BY <1>1, Inductive, PTL

\* An executed write keeps its credit, in the month that authorised it.
THEOREM WritesCharged == Spec => []WritesHoldTheirCredit
<1>1. IInv => WritesHoldTheirCredit
  BY DEF IInv, WritesOK, Charged, WritesHoldTheirCredit
<1> QED
  BY <1>1, Inductive, PTL

\* The consumed counter is the seed plus one per confirmed write, and only
\* executed writes are confirmed.
THEOREM ChargesEarned == Spec => []ChargedOnlyForWrites
<1>1. IInv => ChargedOnlyForWrites
  BY DEF IInv, WritesOK, LedgerOK, ChargedOnlyForWrites
<1> QED
  BY <1>1, Inductive, PTL

-----------------------------------------------------------------------------
\* A write executed under a reservation fits the abstract budget.
LEMMA SpendFits ==
    ASSUME IInv, NEW m \in Months, NEW t \in reservations[m], t \notin written[m]
    PROVE  /\ Seed(m) + Cardinality(written[m]) < Limit
           /\ Cardinality(written[m] \union {t}) = Cardinality(written[m]) + 1
<1> USE SeedType
<1>2. /\ IsFiniteSet(reservations[m]) /\ IsFiniteSet(confirmed[m])
      /\ Cardinality(reservations[m]) \in Nat /\ Cardinality(confirmed[m]) \in Nat
      /\ reservations[m] \intersect confirmed[m] = {}
      /\ consumed[m] = Seed(m) + Cardinality(confirmed[m])
      /\ consumed[m] + Cardinality(reservations[m]) <= Limit
  BY FS_CardinalityType DEF IInv, LedgerOK
<1>3. /\ IsFiniteSet(Charged(m))
      /\ Cardinality(Charged(m)) = Cardinality(reservations[m]) + Cardinality(confirmed[m])
  <2>1. Cardinality(reservations[m] \intersect confirmed[m]) = 0
    BY <1>2, FS_EmptySet
  <2> QED
    BY <1>2, <2>1, FS_Union DEF Charged
<1>4. /\ IsFiniteSet(written[m] \union {t})
      /\ Cardinality(written[m] \union {t}) <= Cardinality(Charged(m))
  BY <1>3, FS_Subset DEF IInv, WritesOK, Charged
<1>5. IsFiniteSet(written[m]) /\ Cardinality(written[m]) \in Nat
  BY <1>4, FS_Subset, FS_CardinalityType
<1>6. Cardinality(written[m] \union {t}) = Cardinality(written[m]) + 1
  BY <1>5, AddToken
<1>7. Seed(m) \in Nat
  OBVIOUS
<1> QED
  BY <1>2, <1>3, <1>4, <1>5, <1>6, <1>7

\* Reservation, transport and settlement implement the promise of the budget:
\* at most Limit writes reach Henrri in a month, the seed included.
THEOREM Refines == Spec => ImplementsBudget
<1> DEFINE spentBar == [m \in Months |-> Seed(m) + Cardinality(written[m])]
<1>1. Init => Budget!Init
  BY SeedType, FS_EmptySet DEF Init, Budget!Init
<1>2. ASSUME IInv, [Next]_vars PROVE [Budget!Next]_spentBar
  <2>1. ASSUME NEW c \in Callers, Send(c), written' # written PROVE Budget!Next
    <3> DEFINE m == call[c].period
               t == call[c].token
    <3>1. t \in Tokens /\ m \in Months /\ t \in reservations[m] /\ t \notin written[m]
      BY <1>2, <2>1, HoldingType DEF IInv, CallOK, Send, Holding
    <3>2. written' = [written EXCEPT ![m] = @ \union {t}]
      BY <2>1 DEF Send
    <3> HIDE DEF m, t
    <3>3. /\ Seed(m) + Cardinality(written[m]) < Limit
          /\ Cardinality(written'[m]) = Cardinality(written[m]) + 1
      BY <1>2, <3>1, <3>2, SpendFits DEF IInv, TypeOK
    <3>4. IsFiniteSet(written[m]) /\ Cardinality(written[m]) \in Nat
      <4>1. IsFiniteSet(Charged(m))
        BY <1>2, <3>1, FS_Union DEF IInv, LedgerOK, Charged
      <4> QED
        BY <1>2, <3>1, <4>1, FS_Subset, FS_CardinalityType DEF IInv, WritesOK
    <3>5. \A n \in Months : n # m => written'[n] = written[n]
      BY <1>2, <3>2 DEF IInv, TypeOK
    <3>6. spentBar' = [spentBar EXCEPT ![m] = @ + 1]
      <4>1. spentBar' = [n \in Months |-> Seed(n) + Cardinality(written'[n])]
        OBVIOUS
      <4>2. ASSUME NEW n \in Months
            PROVE  Seed(n) + Cardinality(written'[n])
                     = IF n = m THEN Seed(m) + Cardinality(written[m]) + 1
                                ELSE Seed(n) + Cardinality(written[n])
        BY <3>3, <3>4, <3>5, SeedType
      <4>3. [spentBar EXCEPT ![m] = @ + 1]
              = [n \in Months |-> IF n = m THEN Seed(m) + Cardinality(written[m]) + 1
                                           ELSE Seed(n) + Cardinality(written[n])]
        BY <3>1
      <4> QED
        BY <4>1, <4>2, <4>3, Zenon
    <3>7. Budget!Spend(m)
      BY <3>1, <3>3, <3>6 DEF Budget!Spend
    <3> QED
      BY <3>1, <3>7 DEF Budget!Next
  <2>2. CASE UNCHANGED written
    BY <2>2
  <2>3. CASE written' # written
    BY <1>2, <2>1, <2>3 DEF Next, NewMonth, ReadMonth, Refuse, Confirm, Cancel,
         SettleUnavailable, Crash, Reserve, vars
  <2> QED
    BY <2>2, <2>3
<1>3. Spec => Budget!Spec
  BY <1>1, <1>2, Inductive, PTL DEF Spec, Budget!Spec
<1> QED
  BY <1>3 DEF ImplementsBudget

-----------------------------------------------------------------------------
(* The uploads.                                                            *)

\* Numbers kept for some of the rows.
SomeNumbers == UNION {[S -> Nat] : S \in SUBSET Rows}

\* The documents Henrri holds of an invoice, and the entries of its log.
DocRow == [finalized : BOOLEAN, lines : [Products -> Nat]]
Entry == [ok : BOOLEAN, ext : Nat]

SessionRows ==
    [pc : {"lookup", "customer", "contact", "products", "document", "lines", "finalize", "commit"},
     invoice : Invoices \union {None}, todo : Seq(Nat) \union SUBSET Rows,
     customer : Customers \union {None}, seen : SomeNumbers, seenLines : SUBSET Products,
     got : SomeNumbers, gotContact : SomeNumbers, made : SUBSET Products, log : Seq(Entry)]

DataOK ==
    /\ buyer \in [Invoices -> Customers] /\ items \in [Invoices -> SUBSET Products]
    /\ ids \in [Rows -> Nat] /\ contactIds \in [Customers -> Nat]
    /\ lineIds \in [Invoices -> SUBSET Products] /\ logs \in [Invoices -> Seq(Entry)]
    /\ remote \in [Customers \union Products -> Nat] /\ contacts \in [Customers -> Nat]
    /\ docs \in [Invoices -> Seq(DocRow)]
    /\ worker \in [Workers -> {Idle} \union SessionRows]

\* A session, at each of its steps.
Shape(s) ==
    /\ s \in SessionRows
    /\ DOMAIN s.got \intersect Invoices \subseteq {s.invoice}
    /\ s.pc \in {"lookup", "products", "document", "lines", "finalize"} => s.invoice \in Invoices
    /\ s.pc \in {"customer", "contact"} => s.todo \subseteq Customers
    /\ s.pc = "contact" => s.customer \in Customers
    /\ s.pc \in {"products", "lines"} => s.todo \subseteq Products

\* Document d is there and has the lines S.
Bears(ds, d, S) == \A p \in S : d # 0 /\ ds[d].lines[p] >= 1

\* Document d is there, finalized.
Final(ds, d) == d # 0 /\ ds[d].finalized

\* An entry of a log names a document or none.
Names(e, ds) == e.ext \in 0 .. Len(ds)

\* An invoice: its identifier id, the lines known at Henrri, its log, its
\* documents ds, and the products it invoices.
RowOK(id, have, log, ds, its) ==
    /\ have \subseteq its
    /\ \A d \in 1 .. Len(ds) : ds[d].finalized => Bears(ds, d, its)
    /\ id \in 0 .. Len(ds) /\ Bears(ds, id, have)
    /\ \A n \in 1 .. Len(log) : Names(log[n], ds)
    /\ log # <<>> /\ log[Len(log)].ok => Final(ds, id)

\* The identifier of invoice i as a session has it.
Id(s, i, id) == IF i \in DOMAIN s.got THEN s.got[i] ELSE id

\* What holds throughout the session of an upload of invoice i.
Base(s, i, id, have, ds, its) ==
    /\ i \in DOMAIN s.seen => s.seen[i] = id
    /\ s.seenLines = have /\ s.made \subseteq its
    /\ Id(s, i, id) \in 0 .. Len(ds)
    /\ Bears(ds, Id(s, i, id), have \union s.made)

\* What each of its steps adds: k is the identifier of the document.
Stage(s, i, k, ds, its) ==
    /\ s.pc = "lookup" =>
         s.todo \in Seq(0 .. Len(ds)) /\ i \in DOMAIN s.seen /\ i \notin DOMAIN s.got
    /\ s.pc \in {"lookup", "customer", "contact", "products", "document"} => s.made = {}
    /\ s.pc = "lines" => k # 0 /\ its \subseteq s.seenLines \union s.made \union s.todo /\ s.todo \subseteq its
    /\ s.pc = "finalize" => k # 0 /\ its \subseteq s.seenLines \union s.made
    /\ s.pc = "commit" =>
         \E e \in Entry : s.log = <<e>> /\ Names(e, ds) /\ (e.ok => e.ext = k /\ Final(ds, k))

UploadOK(s, i, id, have, ds, its) ==
    Base(s, i, id, have, ds, its) /\ Stage(s, i, Id(s, i, id), ds, its)

\* Nobody else is on the invoice of worker w.
Alone(w) == \A v \in Workers : v # w => worker[v].invoice # worker[w].invoice

UploadsOK ==
    /\ DataOK
    /\ \A i \in Invoices : RowOK(ids[i], lineIds[i], logs[i], docs[i], items[i])
    /\ \A w \in Workers : ~Free(w) =>
         /\ Shape(worker[w])
         /\ LET i == worker[w].invoice IN
            i \in Invoices =>
              Alone(w) /\ UploadOK(worker[w], i, ids[i], lineIds[i], docs[i], items[i])

UploadsInv == apart => UploadsOK

-----------------------------------------------------------------------------
(* One step of one worker.                                                 *)

\* The rows of the four kinds are told apart.
LEMMA Kinds ==
    /\ None \notin Invoices /\ None \notin Customers
    /\ \A c \in Customers : c \notin Products /\ c \notin Invoices
    /\ \A p \in Products : p \notin Invoices
    /\ Invoices \subseteq Rows /\ Customers \subseteq Rows /\ Products \subseteq Rows
BY HenrriDocumentsAssumption DEF Rows

\* What the invariant says of the session of a worker.
LEMMA InSession ==
    ASSUME UploadsOK, NEW w \in Workers, ~Free(w)
    PROVE  /\ Shape(worker[w])
           /\ worker[w].invoice \in Invoices =>
                /\ Alone(w)
                /\ UploadOK(worker[w], worker[w].invoice, ids[worker[w].invoice],
                            lineIds[worker[w].invoice], docs[worker[w].invoice],
                            items[worker[w].invoice])
BY DEF UploadsOK

\* A step of one worker that touches one invoice at most, nobody else's, keeps
\* the invariant if it keeps it for that invoice and that worker.
LEMMA OneStep ==
    ASSUME UploadsOK, NEW w \in Workers, NEW r, NEW i \in Invoices \union {None},
           Becomes(w, r), DataOK', UNCHANGED <<buyer, items>>,
           \A k \in Invoices : k # i =>
               /\ ids'[k] = ids[k] /\ lineIds'[k] = lineIds[k]
               /\ logs'[k] = logs[k] /\ docs'[k] = docs[k],
           i \in Invoices => RowOK(ids'[i], lineIds'[i], logs'[i], docs'[i], items[i]),
           \A v \in Workers : v # w => i = None \/ worker[v].invoice # i,
           \/ r = Idle
           \/ /\ r.pc # "idle" /\ Shape(r) /\ r.invoice = i
              /\ i \in Invoices => UploadOK(r, i, ids'[i], lineIds'[i], docs'[i], items[i])
    PROVE  UploadsOK'
<1>1. worker \in [Workers -> {Idle} \union SessionRows]
  BY DEF UploadsOK, DataOK
<1>2. worker'[w] = r /\ \A v \in Workers : v # w => worker'[v] = worker[v]
  BY <1>1 DEF Becomes
<1>3. ASSUME NEW k \in Invoices
      PROVE  RowOK(ids'[k], lineIds'[k], logs'[k], docs'[k], items'[k])
  <2>1. CASE k = i
    BY <2>1
  <2>2. CASE k # i
    BY <2>2 DEF UploadsOK
  <2> QED
    BY <2>1, <2>2
<1>4. Idle.pc = "idle" /\ Idle.invoice = None /\ None \notin Invoices
  BY Kinds DEF Idle
<1>5. ASSUME NEW v \in Workers, worker'[v].pc # "idle"
      PROVE  /\ Shape(worker'[v])
             /\ worker'[v].invoice \in Invoices =>
                 /\ \A u \in Workers : u # v => worker'[u].invoice # worker'[v].invoice
                 /\ UploadOK(worker'[v], worker'[v].invoice, ids'[worker'[v].invoice],
                             lineIds'[worker'[v].invoice], docs'[worker'[v].invoice],
                             items'[worker'[v].invoice])
  <2>1. CASE v = w
    <3>1. worker'[v] = r /\ r # Idle
      BY <1>2, <1>4, <1>5, <2>1
    <3>2. Shape(r) /\ r.invoice = i
          /\ (i \in Invoices => UploadOK(r, i, ids'[i], lineIds'[i], docs'[i], items[i]))
      BY <3>1
    <3>3. \A u \in Workers : u # v => worker'[u] = worker[u]
      BY <1>2, <2>1
    <3> QED
      BY <1>4, <2>1, <3>1, <3>2, <3>3
  <2>2. CASE v # w
    <3>1. worker'[v] = worker[v] /\ ~Free(v)
      BY <1>2, <1>5, <2>2 DEF Free
    <3>2. Shape(worker[v])
      BY <3>1, InSession
    <3>3. ASSUME worker[v].invoice \in Invoices
          PROVE  /\ \A u \in Workers : u # v => worker'[u].invoice # worker[v].invoice
                 /\ UploadOK(worker[v], worker[v].invoice, ids'[worker[v].invoice],
                             lineIds'[worker[v].invoice], docs'[worker[v].invoice],
                             items'[worker[v].invoice])
      <4>1. worker[v].invoice # i
        BY <2>2, <3>3, <1>4
      <4>2. Alone(v) /\ UploadOK(worker[v], worker[v].invoice, ids[worker[v].invoice],
                                 lineIds[worker[v].invoice], docs[worker[v].invoice],
                                 items[worker[v].invoice])
        BY <3>1, <3>3, InSession
      <4>3. UploadOK(worker[v], worker[v].invoice, ids'[worker[v].invoice],
                     lineIds'[worker[v].invoice], docs'[worker[v].invoice],
                     items'[worker[v].invoice])
        BY <3>3, <4>1, <4>2
      <4>4. ASSUME NEW u \in Workers, u # v
            PROVE  worker'[u].invoice # worker[v].invoice
        <5>1. worker[u].invoice # worker[v].invoice
          BY <4>2, <4>4 DEF Alone
        <5>2. r.invoice = None \/ r.invoice = i
          BY <1>4
        <5> QED
          BY <1>2, <1>4, <3>3, <4>1, <5>1, <5>2
      <4> QED
        BY <4>3, <4>4
    <3> QED
      BY <3>1, <3>2, <3>3
  <2> QED
    BY <2>1, <2>2
<1> QED
  BY <1>3, <1>5 DEF UploadsOK, Alone, Free

\* A step of a session that leaves the rows alone, and at Henrri the documents
\* of the other invoices.
LEMMA SessionStep ==
    ASSUME UploadsOK, NEW w \in Workers, NEW r, ~Free(w), Becomes(w, r),
           UNCHANGED <<buyer, items, local>>,
           remote' \in [Customers \union Products -> Nat], contacts' \in [Customers -> Nat],
           docs' \in [Invoices -> Seq(DocRow)],
           \A k \in Invoices : k # worker[w].invoice => docs'[k] = docs[k],
           r.pc # "idle", Shape(r), r.invoice = worker[w].invoice,
           r.invoice \in Invoices =>
              /\ RowOK(ids[r.invoice], lineIds[r.invoice], logs[r.invoice], docs'[r.invoice],
                       items[r.invoice])
              /\ UploadOK(r, r.invoice, ids[r.invoice], lineIds[r.invoice], docs'[r.invoice],
                          items[r.invoice])
    PROVE  UploadsOK'
<1> DEFINE i == worker[w].invoice
<1>1. i \in Invoices \union {None} /\ (i \in Invoices => Alone(w))
  BY InSession DEF Shape, SessionRows
<1>2. DataOK'
  BY DEF UploadsOK, DataOK, Becomes, Shape, local
<1>3. \A k \in Invoices : k # i =>
               /\ ids'[k] = ids[k] /\ lineIds'[k] = lineIds[k]
               /\ logs'[k] = logs[k] /\ docs'[k] = docs[k]
  BY DEF local
<1>4. \A v \in Workers : v # w => i = None \/ worker[v].invoice # i
  BY <1>1 DEF Alone
<1>5. i \in Invoices => RowOK(ids'[i], lineIds'[i], logs'[i], docs'[i], items[i])
                        /\ UploadOK(r, i, ids'[i], lineIds'[i], docs'[i], items[i])
  BY DEF local
<1>6. UNCHANGED <<buyer, items>>
  OBVIOUS
<1> HIDE DEF i
<1>7. r.invoice = i
  BY DEF i
<1> QED
  BY <1>1, <1>2, <1>3, <1>4, <1>5, <1>6, <1>7, OneStep

\* The same without a change of the documents.
LEMMA SameDocuments ==
    ASSUME UploadsOK, NEW w \in Workers, NEW r, ~Free(w), Becomes(w, r),
           UNCHANGED <<buyer, items, local, docs>>,
           remote' \in [Customers \union Products -> Nat], contacts' \in [Customers -> Nat],
           r.pc # "idle", Shape(r), r.invoice = worker[w].invoice,
           r.invoice \in Invoices =>
              UploadOK(r, r.invoice, ids[r.invoice], lineIds[r.invoice], docs[r.invoice],
                       items[r.invoice])
    PROVE  UploadsOK'
<1>1. docs' \in [Invoices -> Seq(DocRow)]
  BY DEF UploadsOK, DataOK
<1>2. r.invoice \in Invoices =>
        RowOK(ids[r.invoice], lineIds[r.invoice], logs[r.invoice], docs'[r.invoice],
              items[r.invoice])
  BY DEF UploadsOK
<1>3. UNCHANGED <<buyer, items, local>> /\ \A k \in Invoices : docs'[k] = docs[k]
  OBVIOUS
<1> QED
  BY <1>1, <1>2, <1>3, SessionStep

\* What becomes of a function when a number is added to it.
LEMMA Gained ==
    ASSUME NEW f \in SomeNumbers, NEW e \in Rows, NEW n \in Nat
    PROVE  /\ With(f, e, n) \in SomeNumbers
           /\ DOMAIN With(f, e, n) = DOMAIN f \union {e}
           /\ With(f, e, n)[e] = n
           /\ \A x \in DOMAIN f : x # e => With(f, e, n)[x] = f[x]
<1>1. PICK S \in SUBSET Rows : f \in [S -> Nat]
  BY DEF SomeNumbers
<1>2. S \union {e} \in SUBSET Rows /\ With(f, e, n) \in [S \union {e} -> Nat]
  BY <1>1 DEF With
<1> QED
  BY <1>1, <1>2 DEF With, SomeNumbers

\* A session that fails.
LEMMA FailedShape ==
    ASSUME NEW s, Shape(s), s.invoice = None => s.todo \subseteq Customers
    PROVE  /\ Shape(Failed(s)) /\ Failed(s).pc # "idle" /\ Failed(s).invoice = s.invoice
           /\ Failed(s).got = s.got /\ Failed(s).gotContact = s.gotContact
           /\ Failed(s).seen = s.seen /\ Failed(s).seenLines = s.seenLines
           /\ Failed(s).made = s.made
           /\ s.invoice \in Invoices =>
                Failed(s).pc = "commit" /\ Failed(s).log = <<[ok |-> FALSE, ext |-> 0]>>
<1>1. s \in SessionRows /\ None \notin Invoices
  BY Kinds DEF Shape
<1>2. CASE s.invoice = None
  <2> DEFINE pc == IF s.todo = {} THEN "commit" ELSE "customer"
  <2>1. Failed(s) = [s EXCEPT !.customer = None, !.pc = pc]
    BY <1>2 DEF Failed
  <2>2. pc \in {"commit", "customer"}
    OBVIOUS
  <2> HIDE DEF pc
  <2>3. Failed(s) \in SessionRows
    BY <1>1, <2>1, <2>2 DEF SessionRows
  <2> QED
    BY <1>1, <1>2, <2>1, <2>2, <2>3 DEF Shape, SessionRows
<1>3. CASE s.invoice # None
  <2> DEFINE log == <<[ok |-> FALSE, ext |-> 0]>>
  <2>1. Failed(s) = [s EXCEPT !.pc = "commit", !.log = log]
    BY <1>3 DEF Failed
  <2>2. log \in Seq(Entry)
    BY DEF Entry
  <2> HIDE DEF log
  <2>3. Failed(s) \in SessionRows
    BY <1>1, <2>1, <2>2 DEF SessionRows
  <2>4. Failed(s).log = log /\ Failed(s).pc = "commit"
    BY <1>1, <2>1 DEF SessionRows
  <2> QED
    BY <1>1, <1>3, <2>1, <2>2, <2>3, <2>4 DEF Shape, SessionRows, log
<1> QED
  BY <1>2, <1>3

\* A session that fails keeps what its invoice is known by; its log entry says so.
LEMMA FailedUpload ==
    ASSUME NEW s, NEW id, NEW have, NEW ds, NEW its,
           Shape(s), s.invoice \in Invoices, Len(ds) \in Nat,
           Base(s, s.invoice, id, have, ds, its)
    PROVE  UploadOK(Failed(s), s.invoice, id, have, ds, its)
<1>1. s.invoice # None
  BY Kinds
<1>2. /\ Failed(s).pc = "commit" /\ Failed(s).got = s.got /\ Failed(s).seen = s.seen
      /\ Failed(s).seenLines = s.seenLines /\ Failed(s).made = s.made
      /\ Failed(s).log = <<[ok |-> FALSE, ext |-> 0]>>
  BY <1>1, FailedShape
<1>3. Base(Failed(s), s.invoice, id, have, ds, its)
  BY <1>2 DEF Base, Id
<1>4. [ok |-> FALSE, ext |-> 0] \in Entry /\ Names([ok |-> FALSE, ext |-> 0], ds)
  BY DEF Entry, Names
<1> HIDE DEF Failed
<1>5. Stage(Failed(s), s.invoice, Id(Failed(s), s.invoice, id), ds, its)
  BY <1>2, <1>4 DEF Stage
<1> QED
  BY <1>3, <1>5 DEF UploadOK

\* A session that succeeds with the document it has.
LEMMA SucceededUpload ==
    ASSUME NEW s, NEW id, NEW have, NEW ds, NEW its, NEW d \in Nat,
           Shape(s), s.invoice \in Invoices, Len(ds) \in Nat,
           Base(s, s.invoice, id, have, ds, its),
           d = Id(s, s.invoice, id), Final(ds, d)
    PROVE  /\ Shape(Succeeded(s, d)) /\ Succeeded(s, d).pc # "idle"
           /\ Succeeded(s, d).invoice = s.invoice
           /\ UploadOK(Succeeded(s, d), s.invoice, id, have, ds, its)
<1> DEFINE e == [ok |-> TRUE, ext |-> d]
           log == <<e>>
           r == Succeeded(s, d)
<1>1. s \in SessionRows
  BY DEF Shape
<1>2. e \in Entry /\ e.ok /\ e.ext = d /\ log \in Seq(Entry)
  BY DEF Entry
<1>3. r = [s EXCEPT !.pc = "commit", !.log = log]
  BY DEF Succeeded
<1> HIDE DEF r, log
<1>4. r \in SessionRows /\ r.pc = "commit" /\ r.log = log /\ r.invoice = s.invoice /\ r.got = s.got
      /\ r.seen = s.seen /\ r.seenLines = s.seenLines /\ r.made = s.made
  BY <1>1, <1>2, <1>3 DEF SessionRows
<1>5. Shape(r)
  BY <1>4 DEF Shape
<1>6. Base(r, s.invoice, id, have, ds, its) /\ Id(r, s.invoice, id) = d
  BY <1>4 DEF Base, Id
<1>7. Names(e, ds)
  BY <1>2 DEF Names, Base
<1>8. Stage(r, s.invoice, d, ds, its)
  <2>1. r.log = <<e>> /\ e \in Entry /\ Names(e, ds) /\ (e.ok => e.ext = d /\ Final(ds, d))
    BY <1>2, <1>4, <1>7 DEF log
  <2> HIDE DEF e
  <2> QED
    BY <1>4, <2>1 DEF Stage
<1> QED
  BY <1>4, <1>5, <1>6, <1>8 DEF UploadOK, r

\* The customer of a session is done.
LEMMA CustomerDoneOK ==
    ASSUME DataOK, NEW s, Shape(s), s.pc \in {"customer", "contact"}
    PROVE  /\ Shape(CustomerDone(s)) /\ CustomerDone(s).pc # "idle"
           /\ CustomerDone(s).invoice = s.invoice
           /\ \A id, have, ds, its :
                s.invoice \in Invoices /\ UploadOK(s, s.invoice, id, have, ds, its) =>
                    UploadOK(CustomerDone(s), s.invoice, id, have, ds, its)
<1> DEFINE r == CustomerDone(s)
<1>1. s \in SessionRows /\ s.todo \subseteq Customers
  BY DEF Shape
<1>2. CASE s.invoice = None
  <2> DEFINE pc == IF s.todo = {} THEN "commit" ELSE "customer"
  <2>1. r = [s EXCEPT !.customer = None, !.pc = pc]
    BY <1>2 DEF CustomerDone
  <2>2. pc \in {"commit", "customer"}
    OBVIOUS
  <2> HIDE DEF pc, r
  <2>3. r \in SessionRows /\ r.pc = pc /\ r.invoice = None /\ r.got = s.got /\ r.todo = s.todo
    BY <1>1, <1>2, <2>1, <2>2 DEF SessionRows
  <2>4. Shape(r)
    BY <1>1, <1>2, <2>2, <2>3 DEF Shape
  <2> QED
    BY <1>2, <2>2, <2>3, <2>4, Kinds DEF r
<1>3. CASE s.invoice # None
  <2> DEFINE todo == items[s.invoice]
  <2>1. s.invoice \in Invoices /\ todo \subseteq Products /\ todo \subseteq Rows
    BY <1>1, <1>3, Kinds DEF SessionRows, DataOK
  <2>2. r = [s EXCEPT !.customer = None, !.pc = "products", !.todo = todo]
    BY <1>3 DEF CustomerDone
  <2> HIDE DEF todo, r
  <2>3. r \in SessionRows /\ r.pc = "products" /\ r.invoice = s.invoice /\ r.got = s.got
        /\ r.todo = todo /\ r.seen = s.seen /\ r.seenLines = s.seenLines /\ r.made = s.made
    BY <1>1, <2>1, <2>2 DEF SessionRows
  <2>4. Shape(r)
    BY <2>1, <2>3 DEF Shape
  <2>5. ASSUME NEW id, NEW have, NEW ds, NEW its, UploadOK(s, s.invoice, id, have, ds, its)
        PROVE  UploadOK(r, s.invoice, id, have, ds, its)
    BY <2>3, <2>5 DEF UploadOK, Base, Stage, Id
  <2> QED
    BY <2>3, <2>4, <2>5 DEF r
<1> QED
  BY <1>2, <1>3

\* What a session holds of its invoice when it reaches the commit or a step
\* that adds nothing.
LEMMA Going ==
    ASSUME NEW s, NEW r, NEW i, NEW id, NEW have, NEW ds, NEW its,
           UploadOK(s, i, id, have, ds, its),
           r.seen = s.seen, r.seenLines = s.seenLines, r.made = s.made, Id(r, i, id) = Id(s, i, id),
           r.pc \in {"customer", "contact", "products", "document"}, s.made = {}
    PROVE  UploadOK(r, i, id, have, ds, its)
BY DEF UploadOK, Base, Stage

\* The identifiers a session knows are numbers; that of its invoice is the one
\* it will commit.
LEMMA KnownIs ==
    ASSUME UploadsOK, NEW w \in Workers, ~Free(w)
    PROVE  /\ \A e \in Rows : Known(w, e) \in Nat
           /\ worker[w].invoice \in Invoices =>
                Known(w, worker[w].invoice) = Id(worker[w], worker[w].invoice, ids[worker[w].invoice])
<1> DEFINE s == worker[w]
<1>1. s \in SessionRows
  BY InSession DEF Shape
<1>2. PICK S \in SUBSET Rows, T \in SUBSET Rows : s.got \in [S -> Nat] /\ s.seen \in [T -> Nat]
  BY <1>1 DEF SessionRows, SomeNumbers
<1>3. ids \in [Rows -> Nat]
  BY DEF UploadsOK, DataOK
<1>4. s.invoice \in Invoices =>
        (s.invoice \in DOMAIN s.seen => s.seen[s.invoice] = ids[s.invoice])
  BY InSession DEF UploadOK, Base
<1> QED
  BY <1>2, <1>3, <1>4 DEF Known, Id

\* A worker that gives up.
LEMMA RefusedOK ==
    ASSUME UploadsOK, NEW w \in Workers, ~Free(w), NEW s, Becomes(w, Failed(s)),
           UNCHANGED <<buyer, items, local, docs>>,
           remote' \in [Customers \union Products -> Nat], contacts' \in [Customers -> Nat],
           Shape(s), s.invoice = worker[w].invoice, s.invoice = None => s.todo \subseteq Customers,
           s.got = worker[w].got, s.seen = worker[w].seen, s.seenLines = worker[w].seenLines,
           s.made = worker[w].made
    PROVE  UploadsOK'
<1> DEFINE i == s.invoice
<1>1. Shape(Failed(s)) /\ Failed(s).pc # "idle" /\ Failed(s).invoice = i
  BY FailedShape
<1>2. ASSUME i \in Invoices
      PROVE  UploadOK(Failed(s), i, ids[i], lineIds[i], docs[i], items[i])
  <2>1. Base(worker[w], i, ids[i], lineIds[i], docs[i], items[i])
    BY <1>2, InSession DEF UploadOK
  <2>2. Base(s, i, ids[i], lineIds[i], docs[i], items[i])
    BY <2>1 DEF Base, Id
  <2>3. Len(docs[i]) \in Nat
    BY <1>2, LenProperties DEF UploadsOK, DataOK
  <2> QED
    BY <1>2, <2>2, <2>3, FailedUpload
<1> HIDE DEF i
<1>3. i = worker[w].invoice
  BY DEF i
<1> QED
  BY <1>1, <1>2, <1>3, SameDocuments

\* A session takes its next customer.
Takes(s, q, c) ==
    /\ Shape(s) /\ s.pc = "customer" /\ s.todo = q.todo \ {c} /\ s.todo \subseteq Customers
    /\ s.customer = c /\ s.invoice = q.invoice /\ s.got = q.got
    /\ s.gotContact = q.gotContact /\ s.seen = q.seen /\ s.seenLines = q.seenLines
    /\ s.made = q.made

\* A batch takes a customer of its list: what its session becomes.
LEMMA Taken ==
    ASSUME NEW q, Shape(q), q.pc = "customer", NEW c \in Customers, NEW s,
           s = [q EXCEPT !.todo = @ \ {c}, !.customer = c]
    PROVE  Takes(s, q, c)
<1> DEFINE rest == q.todo \ {c}
<1>1. q \in SessionRows /\ q.todo \subseteq Customers
  BY DEF Shape
<1>2. rest \in Seq(Nat) \union SUBSET Rows /\ rest \subseteq Customers
  BY <1>1, Kinds
<1>3. s = [q EXCEPT !.todo = rest, !.customer = c]
  OBVIOUS
<1> HIDE DEF rest
<1>4. /\ s \in SessionRows /\ s.pc = "customer" /\ s.todo = rest /\ s.customer = c
      /\ s.invoice = q.invoice /\ s.got = q.got /\ s.gotContact = q.gotContact
      /\ s.seen = q.seen /\ s.seenLines = q.seenLines /\ s.made = q.made
  BY <1>1, <1>2, <1>3 DEF SessionRows
<1>5. Shape(s)
  BY <1>2, <1>4 DEF Shape
<1> QED
  BY <1>2, <1>4, <1>5 DEF rest, Takes

\* A session that is done with its customer.
LEMMA DoneOK ==
    ASSUME UploadsOK, NEW w \in Workers, NEW s, Becomes(w, CustomerDone(s)),
           worker[w].pc \in {"customer", "contact"},
           UNCHANGED <<buyer, items, local, docs>>,
           remote' \in [Customers \union Products -> Nat], contacts' \in [Customers -> Nat],
           Shape(s), s.pc \in {"customer", "contact"}, s.invoice = worker[w].invoice,
           s.seen = worker[w].seen, s.seenLines = worker[w].seenLines, s.made = worker[w].made,
           \A i \in Invoices : \A id : Id(s, i, id) = Id(worker[w], i, id)
    PROVE  UploadsOK'
<1> DEFINE q == worker[w]
           i == s.invoice
           r == CustomerDone(s)
<1>1. ~Free(w)
  BY DEF Free
<1>2. Shape(r) /\ r.pc # "idle" /\ r.invoice = i
  BY CustomerDoneOK DEF UploadsOK
<1>3. ASSUME i \in Invoices
      PROVE  UploadOK(r, i, ids[i], lineIds[i], docs[i], items[i])
  <2>1. UploadOK(q, i, ids[i], lineIds[i], docs[i], items[i])
    BY <1>1, <1>3, InSession
  <2>2. q.made = {} /\ Id(s, i, ids[i]) = Id(q, i, ids[i])
    BY <1>3, <2>1 DEF UploadOK, Stage
  <2>3. UploadOK(s, i, ids[i], lineIds[i], docs[i], items[i])
    BY <2>1, <2>2, Going
  <2> QED
    BY <1>3, <2>3, CustomerDoneOK DEF UploadsOK
<1> HIDE DEF i, r
<1>4. i = worker[w].invoice /\ Becomes(w, r)
  BY DEF i, r
<1> QED
  BY <1>1, <1>2, <1>3, <1>4, SameDocuments

\* What a session gains of a row that is no invoice leaves its invoice as it was.
LEMMA GainedApart ==
    ASSUME NEW s, Shape(s), NEW e \in Customers \union Products, NEW n \in Nat, NEW r,
           r = [s EXCEPT !.got = With(@, e, n)]
    PROVE  /\ Shape(r) /\ r.pc = s.pc /\ r.invoice = s.invoice /\ r.todo = s.todo
           /\ r.customer = s.customer /\ r.seen = s.seen /\ r.seenLines = s.seenLines
           /\ r.made = s.made /\ r.got = With(s.got, e, n) /\ r.gotContact = s.gotContact
           /\ r.log = s.log
           /\ \A i \in Invoices : \A id : Id(r, i, id) = Id(s, i, id)
<1> DEFINE g == With(s.got, e, n)
<1>1. s \in SessionRows /\ s.got \in SomeNumbers /\ e \in Rows /\ e \notin Invoices
  BY Kinds DEF Shape, SessionRows
<1>2. /\ g \in SomeNumbers /\ DOMAIN g = DOMAIN s.got \union {e}
      /\ \A x \in DOMAIN s.got : x # e => g[x] = s.got[x]
  BY <1>1, Gained
<1>3. r = [s EXCEPT !.got = g]
  OBVIOUS
<1> HIDE DEF g
<1>4. /\ r \in SessionRows /\ r.got = g /\ r.pc = s.pc /\ r.invoice = s.invoice /\ r.todo = s.todo
      /\ r.customer = s.customer /\ r.seen = s.seen /\ r.seenLines = s.seenLines
      /\ r.made = s.made /\ r.gotContact = s.gotContact /\ r.log = s.log
  BY <1>1, <1>2, <1>3 DEF SessionRows
<1>5. Shape(r)
  BY <1>1, <1>2, <1>4 DEF Shape
<1>6. \A i \in Invoices : \A id : Id(r, i, id) = Id(s, i, id)
  BY <1>1, <1>2, <1>4 DEF Id
<1> QED
  BY <1>4, <1>5, <1>6 DEF g

\* So does what it gains of a contact.
LEMMA GainedContact ==
    ASSUME NEW s, Shape(s), NEW c \in Customers, NEW n \in Nat, NEW r,
           r = [s EXCEPT !.gotContact = With(@, c, n)]
    PROVE  /\ Shape(r) /\ r.pc = s.pc /\ r.invoice = s.invoice /\ r.todo = s.todo
           /\ r.customer = s.customer /\ r.seen = s.seen /\ r.seenLines = s.seenLines
           /\ r.made = s.made /\ r.got = s.got /\ r.gotContact = With(s.gotContact, c, n)
           /\ r.log = s.log
<1> DEFINE g == With(s.gotContact, c, n)
<1>1. s \in SessionRows /\ s.gotContact \in SomeNumbers /\ c \in Rows
  BY Kinds DEF Shape, SessionRows
<1>2. g \in SomeNumbers
  BY <1>1, Gained
<1>3. r = [s EXCEPT !.gotContact = g]
  OBVIOUS
<1> HIDE DEF g
<1>4. /\ r \in SessionRows /\ r.got = s.got /\ r.pc = s.pc /\ r.invoice = s.invoice /\ r.todo = s.todo
      /\ r.customer = s.customer /\ r.seen = s.seen /\ r.seenLines = s.seenLines
      /\ r.made = s.made /\ r.gotContact = g /\ r.log = s.log
  BY <1>1, <1>2, <1>3 DEF SessionRows
<1> QED
  BY <1>4 DEF g, Shape

\* The update of a customer keeps the invariant.
LEMMA UpdateCustomerOK ==
    ASSUME UploadsOK, NEW w \in Workers, NEW c \in Customers, UpdateCustomer(w, c)
    PROVE  UploadsOK'
<1> DEFINE q == worker[w]
           s == [q EXCEPT !.todo = @ \ {c}, !.customer = c]
           r == [s EXCEPT !.pc = "contact"]
<1>1. ~Free(w) /\ q.pc = "customer" /\ UNCHANGED <<buyer, items, local, docs, remote, contacts>>
  BY DEF UpdateCustomer, Free, henrri
<1>2. Shape(q)
  BY <1>1, InSession
<1>3. remote' \in [Customers \union Products -> Nat] /\ contacts' \in [Customers -> Nat]
  BY <1>1 DEF UploadsOK, DataOK
<1>4. Becomes(w, Failed(s)) \/ Becomes(w, r)
  BY DEF UpdateCustomer
<1>5. Takes(s, q, c)
  <2>1. s = [q EXCEPT !.todo = @ \ {c}, !.customer = c]
    OBVIOUS
  <2> HIDE DEF s, q
  <2> QED
    BY <1>1, <1>2, <2>1, Taken, Zenon
<1> HIDE DEF s
<1>6. CASE Becomes(w, Failed(s))
  BY <1>1, <1>3, <1>5, <1>6, RefusedOK DEF Takes
<1>7. CASE Becomes(w, r)
  <2>1. r \in SessionRows /\ r.pc = "contact" /\ r.todo = s.todo /\ r.customer = c
        /\ r.invoice = q.invoice /\ r.got = q.got /\ r.seen = q.seen /\ r.seenLines = q.seenLines
        /\ r.made = q.made
    BY <1>5 DEF SessionRows, Takes, Shape
  <2> HIDE DEF r
  <2>2. Shape(r)
    BY <1>2, <1>5, <2>1 DEF Shape, Takes
  <2>3. ASSUME r.invoice \in Invoices
        PROVE  UploadOK(r, r.invoice, ids[r.invoice], lineIds[r.invoice], docs[r.invoice], items[r.invoice])
    <3>1. UploadOK(q, r.invoice, ids[r.invoice], lineIds[r.invoice], docs[r.invoice], items[r.invoice])
      BY <1>1, <2>1, <2>3, InSession
    <3>2. q.made = {} /\ Id(r, r.invoice, ids[r.invoice]) = Id(q, r.invoice, ids[r.invoice])
      BY <1>1, <2>1, <3>1 DEF UploadOK, Stage, Id
    <3> QED
      BY <2>1, <3>1, <3>2, Going
  <2>4. r.pc # "idle" /\ r.invoice = worker[w].invoice
    BY <2>1
  <2> QED
    BY <1>1, <1>3, <1>7, <2>2, <2>3, <2>4, SameDocuments
<1> QED
  BY <1>4, <1>6, <1>7

\* The creation of a customer keeps the invariant.
LEMMA CreateCustomerOK ==
    ASSUME UploadsOK, NEW w \in Workers, NEW c \in Customers, CreateCustomer(w, c)
    PROVE  UploadsOK'
<1> DEFINE q == worker[w]
           s == [q EXCEPT !.todo = @ \ {c}, !.customer = c]
           a == [s EXCEPT !.got = With(@, c, remote[c] + 1)]
           b == [a EXCEPT !.gotContact = With(@, c, contacts[c] + 1)]
<1>1. ~Free(w) /\ q.pc = "customer" /\ UNCHANGED <<buyer, items, local, docs>>
  BY DEF CreateCustomer, Free, henrri
<1>2. Shape(q)
  BY <1>1, InSession
<1>3. /\ Shape(s) /\ s.pc = "customer" /\ s.todo \subseteq Customers /\ s.invoice = q.invoice
      /\ s.got = q.got /\ s.seen = q.seen /\ s.seenLines = q.seenLines /\ s.made = q.made
  <2>1. s = [q EXCEPT !.todo = @ \ {c}, !.customer = c]
    OBVIOUS
  <2> HIDE DEF s, q
  <2>2. Takes(s, q, c)
    BY <1>1, <1>2, <2>1, Taken, Zenon
  <2> QED
    BY <2>2 DEF Takes
<1>4. /\ remote \in [Customers \union Products -> Nat] /\ contacts \in [Customers -> Nat]
      /\ remote[c] + 1 \in Nat /\ contacts[c] + 1 \in Nat
  BY DEF UploadsOK, DataOK
<1>5. /\ \/ UNCHANGED <<remote, contacts>>
         \/ /\ remote' = [remote EXCEPT ![c] = @ + 1]
            /\ contacts' = [contacts EXCEPT ![c] = @ + 1]
      /\ \/ Becomes(w, Failed(s))
         \/ /\ remote' = [remote EXCEPT ![c] = @ + 1]
            /\ contacts' = [contacts EXCEPT ![c] = @ + 1]
            /\ Becomes(w, CustomerDone([s EXCEPT !.got = With(@, c, remote'[c]),
                                                 !.gotContact = With(@, c, contacts'[c])]))
  BY DEF CreateCustomer, henrri
<1>6. remote' \in [Customers \union Products -> Nat] /\ contacts' \in [Customers -> Nat]
  BY <1>4, <1>5
<1>7. CASE Becomes(w, Failed(s))
  <2> HIDE DEF s
  <2> QED
    BY <1>1, <1>3, <1>6, <1>7, RefusedOK
<1>8. CASE /\ remote' = [remote EXCEPT ![c] = @ + 1]
           /\ contacts' = [contacts EXCEPT ![c] = @ + 1]
           /\ Becomes(w, CustomerDone([s EXCEPT !.got = With(@, c, remote'[c]),
                                                !.gotContact = With(@, c, contacts'[c])]))
  <2>1. remote'[c] = remote[c] + 1 /\ contacts'[c] = contacts[c] + 1
    BY <1>4, <1>8
  <2>2. Becomes(w, CustomerDone([s EXCEPT !.got = With(@, c, remote[c] + 1),
                                          !.gotContact = With(@, c, contacts[c] + 1)]))
    BY <1>8, <2>1
  <2> HIDE DEF s
  <2>3. /\ Shape(a) /\ a.pc = "customer" /\ a.invoice = q.invoice /\ a.seen = q.seen
        /\ a.seenLines = q.seenLines /\ a.made = q.made /\ a.gotContact = s.gotContact
        /\ \A i \in Invoices : \A id : Id(a, i, id) = Id(q, i, id)
    <3>1. \A i \in Invoices : \A id : Id(s, i, id) = Id(q, i, id)
      BY <1>3 DEF Id
    <3>2. /\ Shape(a) /\ a.pc = s.pc /\ a.invoice = s.invoice /\ a.seen = s.seen
          /\ a.seenLines = s.seenLines /\ a.made = s.made /\ a.gotContact = s.gotContact
          /\ \A i \in Invoices : \A id : Id(a, i, id) = Id(s, i, id)
      BY <1>3, <1>4, GainedApart
    <3> QED
      BY <1>3, <3>1, <3>2
  <2>4. b = [s EXCEPT !.got = With(@, c, remote[c] + 1), !.gotContact = With(@, c, contacts[c] + 1)]
    BY <1>3 DEF Shape, SessionRows
  <2> HIDE DEF a
  <2>5. /\ Shape(b) /\ b.pc = a.pc /\ b.invoice = a.invoice /\ b.got = a.got
        /\ b.seen = a.seen /\ b.seenLines = a.seenLines /\ b.made = a.made
    BY <1>4, <2>3, GainedContact
  <2>6. Becomes(w, CustomerDone(b))
    BY <2>2, <2>4
  <2> HIDE DEF b
  <2>7. \A i \in Invoices : \A id : Id(b, i, id) = Id(q, i, id)
    BY <2>3, <2>5 DEF Id
  <2>8. q.pc \in {"customer", "contact"}
    BY <1>1
  <2> QED
    BY <1>1, <1>6, <2>3, <2>5, <2>6, <2>7, <2>8, DoneOK DEF q
<1> QED
  BY <1>5, <1>7, <1>8

\* The step of the contact keeps the invariant.
LEMMA UpsertContactOK ==
    ASSUME UploadsOK, NEW w \in Workers, UpsertContact(w)
    PROVE  UploadsOK'
<1> DEFINE s == worker[w]
           c == s.customer
           r == [s EXCEPT !.gotContact = With(@, c, contacts[c] + 1)]
<1>1. ~Free(w) /\ s.pc = "contact" /\ UNCHANGED <<buyer, items, local, docs, remote>>
      /\ s.pc \in {"customer", "contact"}
  BY DEF UpsertContact, Free, henrri, Refused
<1>2. Shape(s) /\ c \in Customers /\ s.todo \subseteq Customers
  BY <1>1, InSession DEF Shape
<1>3. contacts \in [Customers -> Nat] /\ remote' \in [Customers \union Products -> Nat]
  BY <1>1 DEF UploadsOK, DataOK
<1>4. /\ UNCHANGED contacts \/ contacts' = [contacts EXCEPT ![c] = @ + 1]
      /\ \/ Becomes(w, Failed(s)) \/ Becomes(w, CustomerDone(s))
         \/ /\ contacts' = [contacts EXCEPT ![c] = @ + 1]
            /\ Becomes(w, CustomerDone([s EXCEPT !.gotContact = With(@, c, contacts'[c])]))
  BY DEF UpsertContact, henrri, Refused
<1>5. contacts' \in [Customers -> Nat]
  BY <1>2, <1>3, <1>4
<1>6. CASE Becomes(w, Failed(s))
  BY <1>1, <1>2, <1>3, <1>5, <1>6, RefusedOK
<1>7. CASE Becomes(w, CustomerDone(s))
  BY <1>1, <1>2, <1>3, <1>5, <1>7, DoneOK
<1>8. CASE /\ contacts' = [contacts EXCEPT ![c] = @ + 1]
           /\ Becomes(w, CustomerDone([s EXCEPT !.gotContact = With(@, c, contacts'[c])]))
  <2>1. contacts'[c] = contacts[c] + 1 /\ contacts[c] + 1 \in Nat
    BY <1>2, <1>3, <1>8
  <2>2. Becomes(w, CustomerDone(r))
    BY <1>8, <2>1
  <2> HIDE DEF c
  <2>3. /\ Shape(r) /\ r.pc = s.pc /\ r.invoice = s.invoice /\ r.got = s.got /\ r.seen = s.seen
        /\ r.seenLines = s.seenLines /\ r.made = s.made
    BY <1>2, <2>1, GainedContact
  <2> HIDE DEF r
  <2>4. \A i \in Invoices : \A id : Id(r, i, id) = Id(s, i, id)
    BY <2>3 DEF Id
  <2> QED
    BY <1>1, <1>3, <1>5, <2>2, <2>3, <2>4, DoneOK
<1> QED
  BY <1>4, <1>6, <1>7, <1>8

\* A product of the invoice is done.
LEMMA ProductDoneOK ==
    ASSUME UploadsOK, NEW w \in Workers, NEW p \in Products, NEW s,
           worker[w].pc = "products", Becomes(w, ProductDone(s, p)),
           UNCHANGED <<buyer, items, local, docs>>,
           remote' \in [Customers \union Products -> Nat], contacts' \in [Customers -> Nat],
           Shape(s), s.pc = "products", s.invoice = worker[w].invoice,
           s.seen = worker[w].seen, s.seenLines = worker[w].seenLines, s.made = worker[w].made,
           \A i \in Invoices : \A id : Id(s, i, id) = Id(worker[w], i, id)
    PROVE  UploadsOK'
<1> DEFINE q == worker[w]
           i == s.invoice
           left == s.todo \ {p}
           pc == IF left = {} THEN "document" ELSE s.pc
           r == [s EXCEPT !.todo = left, !.pc = pc]
<1>1. ~Free(w)
  BY DEF Free
<1>2. s \in SessionRows /\ i \in Invoices /\ s.todo \subseteq Products
  BY DEF Shape
<1>3. Becomes(w, r) /\ pc \in {"products", "document"} /\ left \subseteq Products
      /\ left \in SUBSET Rows
  BY <1>2, Kinds DEF ProductDone
<1> HIDE DEF pc, left
<1>4. /\ r \in SessionRows /\ r.pc = pc /\ r.todo = left /\ r.invoice = i /\ r.got = s.got
      /\ r.seen = s.seen /\ r.seenLines = s.seenLines /\ r.made = s.made
  BY <1>2, <1>3 DEF SessionRows
<1> HIDE DEF r
<1>5. Shape(r)
  BY <1>2, <1>3, <1>4 DEF Shape
<1>6. UploadOK(r, i, ids[i], lineIds[i], docs[i], items[i])
  <2>1. UploadOK(q, i, ids[i], lineIds[i], docs[i], items[i])
    BY <1>1, <1>2, InSession
  <2>2. q.made = {} /\ Id(r, i, ids[i]) = Id(q, i, ids[i])
    BY <1>2, <1>4, <2>1 DEF UploadOK, Stage, Id
  <2> QED
    BY <1>3, <1>4, <2>1, <2>2, Going
<1> QED
  BY <1>1, <1>3, <1>4, <1>5, <1>6, SameDocuments

\* The step of a product keeps the invariant.
LEMMA UpsertProductOK ==
    ASSUME UploadsOK, NEW w \in Workers, NEW p \in Products, UpsertProduct(w, p)
    PROVE  UploadsOK'
<1> DEFINE s == worker[w]
           r == [s EXCEPT !.got = With(@, p, remote[p] + 1)]
<1>1. ~Free(w) /\ s.pc = "products" /\ UNCHANGED <<buyer, items, local, docs, contacts>>
  BY DEF UpsertProduct, Free, henrri, Refused
<1>2. Shape(s) /\ s.invoice # None
  BY <1>1, InSession, Kinds DEF Shape
<1>3. remote \in [Customers \union Products -> Nat] /\ contacts' \in [Customers -> Nat]
  BY <1>1 DEF UploadsOK, DataOK
<1>4. /\ UNCHANGED remote \/ remote' = [remote EXCEPT ![p] = @ + 1]
      /\ \/ Becomes(w, Failed(s)) \/ Becomes(w, ProductDone(s, p))
         \/ /\ remote' = [remote EXCEPT ![p] = @ + 1]
            /\ Becomes(w, ProductDone([s EXCEPT !.got = With(@, p, remote'[p])], p))
  BY DEF UpsertProduct, henrri, Refused
<1>5. remote' \in [Customers \union Products -> Nat]
  BY <1>3, <1>4
<1>6. CASE Becomes(w, Failed(s))
  BY <1>1, <1>2, <1>3, <1>5, <1>6, RefusedOK
<1>7. CASE Becomes(w, ProductDone(s, p))
  BY <1>1, <1>2, <1>3, <1>5, <1>7, ProductDoneOK
<1>8. CASE /\ remote' = [remote EXCEPT ![p] = @ + 1]
           /\ Becomes(w, ProductDone([s EXCEPT !.got = With(@, p, remote'[p])], p))
  <2>1. remote'[p] = remote[p] + 1 /\ remote[p] + 1 \in Nat
    BY <1>3, <1>8
  <2>2. Becomes(w, ProductDone(r, p))
    BY <1>8, <2>1
  <2>3. /\ Shape(r) /\ r.pc = s.pc /\ r.invoice = s.invoice /\ r.seen = s.seen
        /\ r.seenLines = s.seenLines /\ r.made = s.made
        /\ \A i \in Invoices : \A id : Id(r, i, id) = Id(s, i, id)
    BY <1>2, <2>1, GainedApart
  <2> HIDE DEF r
  <2> QED
    BY <1>1, <1>3, <1>5, <2>2, <2>3, ProductDoneOK
<1> QED
  BY <1>4, <1>6, <1>7, <1>8

-----------------------------------------------------------------------------
(* The steps that change a document.                                       *)

\* Documents are only added, finalized and given lines.
Grown(ds, new) ==
    /\ ds \in Seq(DocRow) /\ new \in Seq(DocRow) /\ Len(ds) <= Len(new)
    /\ \A d \in 1 .. Len(ds) :
         /\ ds[d].finalized => new[d].finalized
         /\ \A p \in Products : new[d].lines[p] >= ds[d].lines[p]

\* The lines of a document are counted.
LEMMA LinesType ==
    ASSUME NEW ds \in Seq(DocRow), NEW d \in 1 .. Len(ds)
    PROVE  /\ ds[d] \in DocRow /\ ds[d].finalized \in BOOLEAN
           /\ ds[d].lines \in [Products -> Nat] /\ \A p \in Products : ds[d].lines[p] \in Nat
<1>1. ds[d] \in DocRow
  BY ElementOfSeq
<1> QED
  BY <1>1 DEF DocRow

\* A document keeps the lines it has.
LEMMA GrownBears ==
    ASSUME NEW ds, NEW new, NEW d \in 0 .. Len(ds), NEW S \in SUBSET Products,
           Grown(ds, new), Bears(ds, d, S)
    PROVE  Bears(new, d, S)
<1>1. ASSUME NEW p \in S
      PROVE  d # 0 /\ new[d].lines[p] >= 1
  <2>1. d # 0 /\ ds[d].lines[p] >= 1
    BY DEF Bears
  <2>2. Len(ds) \in Nat /\ Len(new) \in Nat /\ Len(ds) <= Len(new)
    BY LenProperties DEF Grown
  <2>3. d \in 1 .. Len(ds) /\ d \in 1 .. Len(new)
    BY <2>1, <2>2
  <2>4. ds[d].lines[p] \in Nat /\ new[d].lines[p] \in Nat
    BY <2>3, LinesType DEF Grown
  <2>5. new[d].lines[p] >= ds[d].lines[p]
    BY <2>3 DEF Grown
  <2> QED
    BY <2>1, <2>4, <2>5
<1> QED
  BY <1>1 DEF Bears

\* What holds throughout a session goes on holding.
LEMMA GrownBase ==
    ASSUME NEW s, NEW i, NEW id, NEW have \in SUBSET Products, NEW ds, NEW new,
           NEW its \in SUBSET Products,
           Grown(ds, new), Base(s, i, id, have, ds, its)
    PROVE  Base(s, i, id, have, new, its)
<1>1. have \union s.made \in SUBSET Products
  BY DEF Base
<1>2. Bears(new, Id(s, i, id), have \union s.made)
  BY <1>1, GrownBears DEF Base
<1>3. Id(s, i, id) \in 0 .. Len(new)
  BY LenProperties DEF Base, Grown
<1> QED
  BY <1>2, <1>3 DEF Base

\* So does what the rows say of the invoice, if what is finalized has its lines.
LEMMA GrownRow ==
    ASSUME NEW id, NEW have, NEW log, NEW ds, NEW new, NEW its \in SUBSET Products,
           Grown(ds, new), RowOK(id, have, log, ds, its),
           \A d \in 1 .. Len(new) : new[d].finalized => Bears(new, d, its)
    PROVE  RowOK(id, have, log, new, its)
<1>1. Len(ds) \in Nat /\ Len(new) \in Nat /\ Len(ds) <= Len(new)
  BY LenProperties DEF Grown
<1>2. have \in SUBSET Products /\ id \in 0 .. Len(ds) /\ id \in 0 .. Len(new)
  BY <1>1 DEF RowOK
<1>3. Bears(new, id, have)
  BY <1>2, GrownBears DEF RowOK
<1>4. \A n \in 1 .. Len(log) : Names(log[n], new)
  BY <1>1 DEF RowOK, Names
<1>5. ASSUME log # <<>>, log[Len(log)].ok
      PROVE  Final(new, id)
  <2>1. id # 0 /\ ds[id].finalized
    BY <1>5 DEF RowOK, Final
  <2>2. id \in 1 .. Len(ds)
    BY <1>1, <1>2, <2>1
  <2> QED
    BY <2>1, <2>2 DEF Grown, Final
<1> QED
  BY <1>2, <1>3, <1>4, <1>5 DEF RowOK

\* The header of the document is there: its lines are next.
LEMMA HeaderUpload ==
    ASSUME DataOK, NEW s, NEW id, NEW have, NEW ds, Shape(s), s.invoice \in Invoices,
           Base(s, s.invoice, id, have, ds, items[s.invoice]), Id(s, s.invoice, id) # 0
    PROVE  /\ Shape(HeaderDone(s)) /\ HeaderDone(s).pc # "idle"
           /\ HeaderDone(s).invoice = s.invoice
           /\ UploadOK(HeaderDone(s), s.invoice, id, have, ds, items[s.invoice])
<1> DEFINE i == s.invoice
           todo == LinesTodo(s)
           pc == IF LinesTodo(s) = {} THEN "finalize" ELSE "lines"
           r == HeaderDone(s)
<1>1. s \in SessionRows /\ items[i] \subseteq Products
  BY DEF Shape, DataOK
<1>2. todo = items[i] \ (s.seenLines \union s.made) /\ todo \in SUBSET Rows
      /\ todo \subseteq Products /\ pc \in {"finalize", "lines"} /\ (pc = "finalize" => todo = {})
  BY <1>1, Kinds DEF LinesTodo
<1>3. r = [s EXCEPT !.todo = todo, !.pc = pc]
  BY DEF HeaderDone
<1> HIDE DEF r, todo, pc
<1>4. r \in SessionRows /\ r.pc = pc /\ r.todo = todo /\ r.invoice = i /\ r.got = s.got
      /\ r.seen = s.seen /\ r.seenLines = s.seenLines /\ r.made = s.made
  BY <1>1, <1>2, <1>3 DEF SessionRows
<1>5. Shape(r)
  BY <1>2, <1>4 DEF Shape
<1>6. Base(r, i, id, have, ds, items[i]) /\ Id(r, i, id) # 0
  BY <1>4 DEF Base, Id
<1>7. Stage(r, i, Id(r, i, id), ds, items[i])
  BY <1>2, <1>4, <1>6 DEF Stage
<1> QED
  BY <1>2, <1>4, <1>5, <1>6, <1>7 DEF UploadOK, r

\* The update of the header of a document keeps the invariant.
LEMMA UpdateDocumentOK ==
    ASSUME UploadsOK, NEW w \in Workers, UpdateDocument(w)
    PROVE  UploadsOK'
<1> DEFINE s == worker[w]
           i == s.invoice
           d == Known(w, i)
<1>1. ~Free(w) /\ s.pc = "document" /\ UNCHANGED <<buyer, items, local, docs, remote, contacts>>
  BY DEF UpdateDocument, Free, henrri
<1>2. Shape(s) /\ i \in Invoices /\ i \in Rows
  BY <1>1, InSession, Kinds DEF Shape
<1>3. d \in Nat /\ d # 0 /\ d = Id(s, i, ids[i])
  BY <1>1, <1>2, KnownIs DEF UpdateDocument
<1>4. Base(s, i, ids[i], lineIds[i], docs[i], items[i])
  BY <1>1, <1>2, InSession DEF UploadOK
<1>5. remote' \in [Customers \union Products -> Nat] /\ contacts' \in [Customers -> Nat] /\ DataOK
      /\ Len(docs[i]) \in Nat /\ i # None
  BY <1>1, <1>2, Kinds, LenProperties DEF UploadsOK, DataOK
<1>6. \/ Becomes(w, Failed(s))
      \/ Becomes(w, Succeeded(s, d)) /\ docs[i][d].finalized
      \/ Becomes(w, HeaderDone(s))
  BY DEF UpdateDocument
<1> HIDE DEF d
<1>7. CASE Becomes(w, Failed(s))
  BY <1>1, <1>2, <1>5, <1>7, RefusedOK
<1>8. CASE Becomes(w, Succeeded(s, d)) /\ docs[i][d].finalized
  <2>1. Final(docs[i], d)
    BY <1>3, <1>8 DEF Final
  <2>2. /\ Shape(Succeeded(s, d)) /\ Succeeded(s, d).pc # "idle" /\ Succeeded(s, d).invoice = i
        /\ UploadOK(Succeeded(s, d), i, ids[i], lineIds[i], docs[i], items[i])
    BY <1>2, <1>3, <1>4, <1>5, <2>1, SucceededUpload
  <2> HIDE DEF Succeeded
  <2> QED
    BY <1>1, <1>5, <1>8, <2>2, SameDocuments
<1>9. CASE Becomes(w, HeaderDone(s))
  <2>1. /\ Shape(HeaderDone(s)) /\ HeaderDone(s).pc # "idle" /\ HeaderDone(s).invoice = i
        /\ UploadOK(HeaderDone(s), i, ids[i], lineIds[i], docs[i], items[i])
    BY <1>2, <1>3, <1>4, <1>5, HeaderUpload
  <2> QED
    BY <1>1, <1>5, <1>9, <2>1, SameDocuments
<1> QED
  BY <1>6, <1>7, <1>8, <1>9

\* A step that changes the documents of the invoice of a session: it succeeds,
\* or Henrri's answer is lost.
LEMMA DocumentStep ==
    ASSUME UploadsOK, NEW w \in Workers, ~Free(w), NEW i \in Invoices, i = worker[w].invoice,
           NEW new, docs' = [docs EXCEPT ![i] = new], Grown(docs[i], new),
           \A d \in 1 .. Len(new) : new[d].finalized => Bears(new, d, items[i]),
           UNCHANGED <<buyer, items, local, remote, contacts>>,
           NEW r, Becomes(w, r) \/ Becomes(w, Failed(worker[w])),
           r.pc # "idle", Shape(r), r.invoice = i,
           UploadOK(r, i, ids[i], lineIds[i], new, items[i])
    PROVE  UploadsOK'
<1> DEFINE s == worker[w]
<1>1. /\ docs \in [Invoices -> Seq(DocRow)] /\ new \in Seq(DocRow) /\ items[i] \in SUBSET Products
      /\ lineIds[i] \in SUBSET Products /\ Len(new) \in Nat
      /\ remote' \in [Customers \union Products -> Nat] /\ contacts' \in [Customers -> Nat]
  BY LenProperties DEF UploadsOK, DataOK, Grown
<1>2. /\ docs' \in [Invoices -> Seq(DocRow)] /\ docs'[i] = new
      /\ \A k \in Invoices : k # worker[w].invoice => docs'[k] = docs[k]
  BY <1>1
<1>3. RowOK(ids[i], lineIds[i], logs[i], new, items[i])
  BY <1>1, GrownRow DEF UploadsOK
<1>4. UNCHANGED <<buyer, items, local>>
  OBVIOUS
<1>5. CASE Becomes(w, r)
  BY <1>1, <1>2, <1>3, <1>4, <1>5, SessionStep
<1>6. CASE Becomes(w, Failed(s))
  <2>1. Shape(s) /\ Base(s, i, ids[i], lineIds[i], docs[i], items[i])
    BY InSession DEF UploadOK
  <2>2. Base(s, i, ids[i], lineIds[i], new, items[i])
    BY <1>1, <2>1, GrownBase
  <2>3. UploadOK(Failed(s), i, ids[i], lineIds[i], new, items[i])
    BY <1>1, <2>1, <2>2, FailedUpload
  <2>4. Shape(Failed(s)) /\ Failed(s).pc # "idle" /\ Failed(s).invoice = i
    BY <2>1, FailedShape, Kinds
  <2> HIDE DEF Failed
  <2> QED
    BY <1>1, <1>2, <1>3, <1>4, <1>6, <2>3, <2>4, SessionStep
<1> QED
  BY <1>5, <1>6

\* The finalization keeps the invariant: every line of the invoice is there.
LEMMA FinalizeOK ==
    ASSUME UploadsOK, NEW w \in Workers, Finalize(w)
    PROVE  UploadsOK'
<1> DEFINE s == worker[w]
           i == s.invoice
           d == Known(w, i)
           doc == [docs[i][d] EXCEPT !.finalized = TRUE]
           new == [docs[i] EXCEPT ![d] = doc]
           r == Succeeded(s, d)
<1>1. ~Free(w) /\ s.pc = "finalize" /\ UNCHANGED <<buyer, items, local, remote, contacts>>
  BY DEF Finalize, Free, henrri, Refused
<1>2. Shape(s) /\ i \in Invoices /\ i \in Rows /\ i # None
  BY <1>1, InSession, Kinds DEF Shape
<1>3. d \in Nat /\ d = Id(s, i, ids[i])
  BY <1>1, <1>2, KnownIs
<1>4. /\ Base(s, i, ids[i], lineIds[i], docs[i], items[i]) /\ d # 0
      /\ items[i] \subseteq lineIds[i] \union s.made
  BY <1>1, <1>2, <1>3, InSession DEF UploadOK, Stage, Base
<1>5. /\ docs \in [Invoices -> Seq(DocRow)] /\ docs[i] \in Seq(DocRow) /\ items[i] \in SUBSET Products
      /\ lineIds[i] \in SUBSET Products
  BY <1>2 DEF UploadsOK, DataOK
<1>6. \/ Refused(w)
      \/ /\ docs' = [docs EXCEPT ![i][d].finalized = TRUE]
         /\ Becomes(w, r) \/ Becomes(w, Failed(s))
  BY DEF Finalize
<1>7. CASE Refused(w)
  <2>1. remote' \in [Customers \union Products -> Nat] /\ contacts' \in [Customers -> Nat]
    BY <1>1 DEF UploadsOK, DataOK
  <2> QED
    BY <1>1, <1>2, <1>7, <2>1, RefusedOK DEF Refused, henrri
<1>8. CASE /\ docs' = [docs EXCEPT ![i][d].finalized = TRUE]
           /\ Becomes(w, r) \/ Becomes(w, Failed(s))
  <2>1. docs' = [docs EXCEPT ![i] = new]
    BY <1>8
  <2>2. d \in 1 .. Len(docs[i]) /\ Len(docs[i]) \in Nat
    BY <1>3, <1>4, <1>5, LenProperties DEF Base
  <2>3. /\ doc \in DocRow /\ doc.finalized /\ doc.lines = docs[i][d].lines
        /\ \A p \in Products : docs[i][d].lines[p] \in Nat
    BY <1>5, <2>2, LinesType DEF DocRow
  <2> HIDE DEF doc
  <2>4. /\ new \in Seq(DocRow) /\ Len(new) = Len(docs[i]) /\ new[d] = doc
        /\ \A k \in 1 .. Len(docs[i]) : k # d => new[k] = docs[i][k]
    BY <1>5, <2>2, <2>3, ExceptSeq
  <2>5. \A k \in 1 .. Len(docs[i]) : \A p \in Products : docs[i][k].lines[p] \in Nat
    BY <1>5, LinesType
  <2>6. Grown(docs[i], new)
    BY <1>5, <2>2, <2>3, <2>4, <2>5 DEF Grown
  <2> HIDE DEF new, d
  <2>7. Base(s, i, ids[i], lineIds[i], new, items[i])
    BY <1>4, <1>5, <2>6, GrownBase
  <2>8. ASSUME NEW k \in 1 .. Len(new), new[k].finalized
        PROVE  Bears(new, k, items[i])
    <3>1. CASE k = d
      BY <1>3, <1>4, <2>7, <3>1 DEF Base, Bears
    <3>2. CASE k # d
      <4>1. Bears(docs[i], k, items[i])
        BY <1>2, <2>4, <2>8, <3>2 DEF UploadsOK, RowOK
      <4> QED
        BY <1>5, <2>2, <2>4, <2>6, <4>1, GrownBears
    <3> QED
      BY <3>1, <3>2
  <2>9. /\ Shape(r) /\ r.pc # "idle" /\ r.invoice = i
        /\ UploadOK(r, i, ids[i], lineIds[i], new, items[i])
    <3>1. Final(new, d)
      BY <1>4, <2>3, <2>4 DEF Final
    <3>2. Len(new) \in Nat
      BY <2>2, <2>4
    <3> QED
      BY <1>2, <1>3, <2>7, <3>1, <3>2, SucceededUpload
  <2> HIDE DEF r
  <2> QED
    BY <1>1, <1>2, <1>8, <2>1, <2>6, <2>8, <2>9, DocumentStep
<1> QED
  BY <1>6, <1>7, <1>8

\* The creation of a line keeps the invariant: the document is not finalized.
LEMMA CreateLineOK ==
    ASSUME UploadsOK, NEW w \in Workers, NEW p \in Products, CreateLine(w, p)
    PROVE  UploadsOK'
<1> DEFINE s == worker[w]
           i == s.invoice
           d == Known(w, i)
           left == s.todo \ {p}
           made == s.made \union {p}
           pc == IF left = {} THEN "finalize" ELSE s.pc
           r == [s EXCEPT !.todo = left, !.made = made, !.pc = pc]
           lns == [docs[i][d].lines EXCEPT ![p] = @ + 1]
           doc == [docs[i][d] EXCEPT !.lines = lns]
           new == [docs[i] EXCEPT ![d] = doc]
<1>1. ~Free(w) /\ s.pc = "lines" /\ p \in s.todo /\ UNCHANGED <<buyer, items, local, remote, contacts>>
  BY DEF CreateLine, Free, henrri, Refused
<1>2. Shape(s) /\ i \in Invoices /\ i \in Rows /\ i # None /\ s \in SessionRows /\ s.todo \subseteq Products
  BY <1>1, InSession, Kinds DEF Shape
<1>3. d \in Nat /\ d = Id(s, i, ids[i])
  BY <1>1, <1>2, KnownIs
<1>4. /\ Base(s, i, ids[i], lineIds[i], docs[i], items[i]) /\ d # 0
      /\ items[i] \subseteq s.seenLines \union s.made \union s.todo /\ s.todo \subseteq items[i]
  BY <1>1, <1>2, <1>3, InSession DEF UploadOK, Stage, Base
<1>5. /\ docs \in [Invoices -> Seq(DocRow)] /\ docs[i] \in Seq(DocRow) /\ items[i] \in SUBSET Products
      /\ lineIds[i] \in SUBSET Products
  BY <1>2 DEF UploadsOK, DataOK
<1>6. \/ Refused(w)
      \/ /\ docs' = [docs EXCEPT ![i][d].lines[p] = @ + 1]
         /\ ~docs[i][d].finalized
         /\ Becomes(w, r) \/ Becomes(w, Failed(s))
  BY DEF CreateLine
<1>7. CASE Refused(w)
  <2>1. remote' \in [Customers \union Products -> Nat] /\ contacts' \in [Customers -> Nat]
    BY <1>1 DEF UploadsOK, DataOK
  <2> QED
    BY <1>1, <1>2, <1>7, <2>1, RefusedOK DEF Refused, henrri
<1>8. CASE /\ docs' = [docs EXCEPT ![i][d].lines[p] = @ + 1]
           /\ ~docs[i][d].finalized
           /\ Becomes(w, r) \/ Becomes(w, Failed(s))
  <2>1. docs' = [docs EXCEPT ![i] = new]
    BY <1>8
  <2>2. d \in 1 .. Len(docs[i]) /\ Len(docs[i]) \in Nat
    BY <1>3, <1>4, <1>5, LenProperties DEF Base
  <2>3. docs[i][d] \in DocRow /\ docs[i][d].lines \in [Products -> Nat]
    BY <1>5, <2>2, LinesType
  <2>4. /\ doc \in DocRow /\ ~doc.finalized
        /\ doc.lines[p] = docs[i][d].lines[p] + 1
        /\ \A o \in Products : docs[i][d].lines[o] \in Nat /\ doc.lines[o] >= docs[i][d].lines[o]
    <3>1. /\ lns \in [Products -> Nat] /\ lns[p] = docs[i][d].lines[p] + 1
          /\ \A o \in Products : docs[i][d].lines[o] \in Nat /\ lns[o] >= docs[i][d].lines[o]
      BY <2>3
    <3> HIDE DEF lns
    <3>2. doc \in DocRow /\ ~doc.finalized /\ doc.lines = lns
      BY <1>8, <2>3, <3>1 DEF DocRow
    <3> QED
      BY <3>1, <3>2
  <2> HIDE DEF doc
  <2>5. /\ new \in Seq(DocRow) /\ Len(new) = Len(docs[i]) /\ new[d] = doc
        /\ \A k \in 1 .. Len(docs[i]) : k # d => new[k] = docs[i][k]
    BY <1>5, <2>2, <2>4, ExceptSeq
  <2>6. \A k \in 1 .. Len(docs[i]) : \A o \in Products : docs[i][k].lines[o] \in Nat
    BY <1>5, LinesType
  <2>7. Grown(docs[i], new)
    <3> HIDE DEF new, d
    <3>1. ASSUME NEW k \in 1 .. Len(docs[i])
          PROVE  /\ docs[i][k].finalized => new[k].finalized
                 /\ \A o \in Products : new[k].lines[o] >= docs[i][k].lines[o]
      BY <1>8, <2>2, <2>4, <2>5, <2>6
    <3> QED
      BY <1>5, <2>2, <2>5, <3>1 DEF Grown
  <2>8. ASSUME NEW k \in 1 .. Len(new), new[k].finalized
        PROVE  Bears(new, k, items[i])
    <3>1. k # d /\ k \in 1 .. Len(docs[i])
      BY <2>4, <2>5, <2>8
    <3>2. Bears(docs[i], k, items[i])
      BY <1>2, <2>5, <2>8, <3>1 DEF UploadsOK, RowOK
    <3> QED
      BY <1>5, <2>2, <2>7, <3>1, <3>2, GrownBears
  <2>9. /\ left \in SUBSET Rows /\ left \subseteq Products /\ left \subseteq items[i]
        /\ made \in SUBSET Products /\ made \subseteq items[i]
        /\ pc \in {"lines", "finalize"} /\ (pc = "finalize" => left = {})
        /\ items[i] \subseteq s.seenLines \union made \union left
    BY <1>1, <1>2, <1>4, <1>5, Kinds DEF Base
  <2>10. Base(s, i, ids[i], lineIds[i], new, items[i])
    BY <1>4, <1>5, <2>7, GrownBase
  <2> HIDE DEF pc, left, new, d
  <2>11. /\ r \in SessionRows /\ r.pc = pc /\ r.todo = left /\ r.invoice = i /\ r.got = s.got
         /\ r.seen = s.seen /\ r.seenLines = s.seenLines /\ r.made = made
    BY <1>2, <2>9 DEF SessionRows
  <2> HIDE DEF r
  <2>12. Shape(r)
    BY <1>2, <2>9, <2>11 DEF Shape
  <2>13. new[d].lines[p] >= 1
    BY <1>1, <1>2, <2>4, <2>5
  <2>14. Base(r, i, ids[i], lineIds[i], new, items[i]) /\ Id(r, i, ids[i]) = d
    BY <1>3, <1>4, <2>9, <2>10, <2>11, <2>13 DEF Base, Bears, Id
  <2>15. Stage(r, i, d, new, items[i])
    BY <1>4, <2>9, <2>11 DEF Stage
  <2>16. UploadOK(r, i, ids[i], lineIds[i], new, items[i]) /\ r.pc # "idle"
    BY <2>9, <2>11, <2>14, <2>15 DEF UploadOK
  <2> QED
    BY <1>1, <1>2, <1>8, <2>1, <2>7, <2>8, <2>11, <2>12, <2>16, DocumentStep
<1> QED
  BY <1>6, <1>7, <1>8

\* The creation of a document keeps the invariant: no line was known before.
LEMMA CreateDocumentOK ==
    ASSUME UploadsOK, NEW w \in Workers, CreateDocument(w)
    PROVE  UploadsOK'
<1> DEFINE s == worker[w]
           i == s.invoice
           doc == [finalized |-> FALSE, lines |-> [p \in Products |-> 0]]
           new == Append(docs[i], doc)
           n == Len(docs[i]) + 1
           g == With(s.got, i, n)
           a == [s EXCEPT !.got = g]
           r == HeaderDone(a)
<1>1. ~Free(w) /\ s.pc = "document" /\ Known(w, i) = 0
      /\ UNCHANGED <<buyer, items, local, remote, contacts>>
  BY DEF CreateDocument, Free, henrri, Refused
<1>2. Shape(s) /\ i \in Invoices /\ i \in Rows /\ i # None /\ s \in SessionRows /\ s.got \in SomeNumbers
  BY <1>1, InSession, Kinds DEF Shape, SessionRows
<1>3. /\ docs \in [Invoices -> Seq(DocRow)] /\ docs[i] \in Seq(DocRow) /\ items[i] \in SUBSET Products
      /\ lineIds[i] \in SUBSET Products /\ doc \in DocRow /\ ~doc.finalized /\ DataOK
  BY <1>2 DEF UploadsOK, DataOK, DocRow
<1>4. /\ Base(s, i, ids[i], lineIds[i], docs[i], items[i]) /\ Id(s, i, ids[i]) = 0 /\ s.made = {}
      /\ lineIds[i] = {}
  <2>1. Base(s, i, ids[i], lineIds[i], docs[i], items[i]) /\ s.made = {}
    BY <1>1, <1>2, InSession DEF UploadOK, Stage
  <2>2. Id(s, i, ids[i]) = 0
    BY <1>1, <1>2, KnownIs
  <2> QED
    BY <2>1, <2>2 DEF Base, Bears
<1>5. \/ Refused(w)
      \/ /\ docs' = [docs EXCEPT ![i] = new]
         /\ \/ Becomes(w, HeaderDone([s EXCEPT !.got = With(@, i, Len(docs'[i]))]))
            \/ Becomes(w, Failed(s))
  BY DEF CreateDocument
<1>6. CASE Refused(w)
  <2>1. remote' \in [Customers \union Products -> Nat] /\ contacts' \in [Customers -> Nat]
    BY <1>1 DEF UploadsOK, DataOK
  <2> QED
    BY <1>1, <1>2, <1>6, <2>1, RefusedOK DEF Refused, henrri
<1>7. CASE /\ docs' = [docs EXCEPT ![i] = new]
           /\ \/ Becomes(w, HeaderDone([s EXCEPT !.got = With(@, i, Len(docs'[i]))]))
              \/ Becomes(w, Failed(s))
  <2> HIDE DEF doc
  <2>1. /\ new \in Seq(DocRow) /\ Len(new) = n /\ n \in Nat /\ n # 0 /\ new[n] = doc
        /\ \A k \in 1 .. Len(docs[i]) : new[k] = docs[i][k]
        /\ Len(docs[i]) \in Nat
    BY <1>3, AppendProperties, LenProperties
  <2>2. Becomes(w, r) \/ Becomes(w, Failed(s))
    <3>1. docs'[i] = new
      BY <1>2, <1>3, <1>7
    <3> QED
      BY <1>7, <2>1, <3>1
  <2> HIDE DEF new, n
  <2>3. \A k \in 1 .. Len(docs[i]) : \A p \in Products : docs[i][k].lines[p] \in Nat
    BY <1>3, LinesType
  <2>4. Grown(docs[i], new)
    BY <1>3, <2>1, <2>3 DEF Grown, n
  <2>5. ASSUME NEW k \in 1 .. Len(new), new[k].finalized
        PROVE  Bears(new, k, items[i])
    <3>1. k # n
      BY <1>3, <2>1, <2>5
    <3>2. k \in 1 .. Len(docs[i])
      BY <2>1, <3>1 DEF n
    <3>3. Bears(docs[i], k, items[i])
      BY <1>2, <2>1, <2>5, <3>2 DEF UploadsOK, RowOK
    <3> QED
      BY <1>3, <2>1, <2>4, <3>2, <3>3, GrownBears
  <2>6. g \in SomeNumbers /\ DOMAIN g = DOMAIN s.got \union {i} /\ g[i] = n
    <3> HIDE DEF s, i
    <3> QED
      BY <1>2, <2>1, Gained
  <2> HIDE DEF g
  <2>7. /\ a \in SessionRows /\ a.got = g /\ a.pc = s.pc /\ a.invoice = i /\ a.todo = s.todo
        /\ a.seen = s.seen /\ a.seenLines = s.seenLines /\ a.made = s.made /\ a.customer = s.customer
    BY <1>2, <2>6 DEF SessionRows
  <2> HIDE DEF a
  <2>8. Shape(a)
    BY <1>2, <2>6, <2>7 DEF Shape
  <2>9. Base(a, i, ids[i], lineIds[i], new, items[i]) /\ Id(a, i, ids[i]) = n
    BY <1>4, <2>1, <2>6, <2>7 DEF Base, Bears, Id
  <2>10. /\ Shape(r) /\ r.pc # "idle" /\ r.invoice = i
         /\ UploadOK(r, i, ids[i], lineIds[i], new, items[i])
    BY <1>2, <1>3, <2>1, <2>7, <2>8, <2>9, HeaderUpload
  <2> HIDE DEF r
  <2> QED
    BY <1>1, <1>2, <1>7, <2>2, <2>4, <2>5, <2>10, DocumentStep
<1> QED
  BY <1>5, <1>6, <1>7

-----------------------------------------------------------------------------
(* The first attempts to adopt a document, the starts and the ends.        *)

\* A candidate adopted or passed over keeps the invariant.
LEMMA LookupOK ==
    ASSUME UploadsOK, NEW w \in Workers, Lookup(w)
    PROVE  UploadsOK'
<1> DEFINE s == worker[w]
           i == s.invoice
           d == Head(s.todo)
           rest == Tail(s.todo)
           g == With(s.got, i, d)
           a == [s EXCEPT !.got = g]
           r == [s EXCEPT !.todo = rest]
<1>1. ~Free(w) /\ s.pc = "lookup" /\ s.todo # <<>> /\ UNCHANGED <<buyer, items, local, docs, remote, contacts>>
  BY DEF Lookup, Free, henrri
<1>2. Shape(s) /\ i \in Invoices /\ i \in Rows /\ i # None /\ s \in SessionRows /\ s.got \in SomeNumbers
  BY <1>1, InSession, Kinds DEF Shape, SessionRows
<1>3. /\ Base(s, i, ids[i], lineIds[i], docs[i], items[i]) /\ s.made = {}
      /\ s.todo \in Seq(0 .. Len(docs[i])) /\ i \in DOMAIN s.seen /\ i \notin DOMAIN s.got
  BY <1>1, <1>2, InSession DEF UploadOK, Stage
<1>4. /\ remote' \in [Customers \union Products -> Nat] /\ contacts' \in [Customers -> Nat]
      /\ Len(docs[i]) \in Nat /\ docs[i] \in Seq(DocRow)
  BY <1>1, <1>2, LenProperties DEF UploadsOK, DataOK
<1>5. d \in 0 .. Len(docs[i]) /\ d \in Nat /\ rest \in Seq(0 .. Len(docs[i])) /\ rest \in Seq(Nat)
  <2>1. d \in 0 .. Len(docs[i]) /\ rest \in Seq(0 .. Len(docs[i]))
    BY <1>1, <1>3, HeadTailProperties
  <2>2. 0 .. Len(docs[i]) \subseteq Nat
    BY <1>4
  <2> QED
    BY <2>1, <2>2, SeqMonotonic
<1>6. \/ d # 0 /\ docs[i][d].finalized /\ Becomes(w, Succeeded(a, d))
      \/ Becomes(w, r)
  BY DEF Lookup
<1> HIDE DEF d, rest
<1>7. CASE d # 0 /\ docs[i][d].finalized /\ Becomes(w, Succeeded(a, d))
  <2>1. g \in SomeNumbers /\ DOMAIN g = DOMAIN s.got \union {i} /\ g[i] = d
    <3> HIDE DEF s, i
    <3> QED
      BY <1>2, <1>5, Gained
  <2> HIDE DEF g
  <2>2. /\ a \in SessionRows /\ a.got = g /\ a.pc = s.pc /\ a.invoice = i /\ a.todo = s.todo
        /\ a.seen = s.seen /\ a.seenLines = s.seenLines /\ a.made = s.made /\ a.customer = s.customer
    BY <1>2, <2>1 DEF SessionRows
  <2> HIDE DEF a
  <2>3. Shape(a)
    BY <1>2, <2>1, <2>2 DEF Shape
  <2>4. Final(docs[i], d) /\ Bears(docs[i], d, items[i]) /\ lineIds[i] \subseteq items[i]
    <3>1. d \in 1 .. Len(docs[i])
      BY <1>4, <1>5, <1>7
    <3>2. RowOK(ids[i], lineIds[i], logs[i], docs[i], items[i])
      BY <1>2 DEF UploadsOK
    <3> QED
      BY <1>7, <3>1, <3>2 DEF Final, RowOK
  <2>5. Bears(docs[i], d, lineIds[i] \union s.made)
    BY <1>3, <2>4 DEF Bears
  <2>6. Base(a, i, ids[i], lineIds[i], docs[i], items[i]) /\ Id(a, i, ids[i]) = d
    BY <1>3, <1>5, <2>1, <2>2, <2>5 DEF Base, Id
  <2>7. /\ Shape(Succeeded(a, d)) /\ Succeeded(a, d).pc # "idle" /\ Succeeded(a, d).invoice = i
        /\ UploadOK(Succeeded(a, d), i, ids[i], lineIds[i], docs[i], items[i])
    BY <1>2, <1>4, <1>5, <2>2, <2>3, <2>4, <2>6, SucceededUpload
  <2> HIDE DEF Succeeded
  <2> QED
    BY <1>1, <1>4, <1>7, <2>7, SameDocuments
<1>8. CASE Becomes(w, r)
  <2>1. /\ r \in SessionRows /\ r.pc = s.pc /\ r.todo = rest /\ r.invoice = i /\ r.got = s.got
        /\ r.seen = s.seen /\ r.seenLines = s.seenLines /\ r.made = s.made
    BY <1>2, <1>5 DEF SessionRows
  <2> HIDE DEF r
  <2>2. Shape(r) /\ r.pc # "idle"
    BY <1>1, <1>2, <2>1 DEF Shape
  <2>3. Base(r, i, ids[i], lineIds[i], docs[i], items[i])
    BY <1>3, <2>1 DEF Base, Id
  <2>4. Stage(r, i, Id(r, i, ids[i]), docs[i], items[i])
    BY <1>1, <1>3, <1>5, <2>1 DEF Stage
  <2> QED
    BY <1>1, <1>4, <1>8, <2>1, <2>2, <2>3, <2>4, SameDocuments DEF UploadOK
<1> QED
  BY <1>6, <1>7, <1>8

\* The decision after the candidates keeps the invariant.
LEMMA DecideOK ==
    ASSUME UploadsOK, NEW w \in Workers, Decide(w)
    PROVE  UploadsOK'
<1> DEFINE s == worker[w]
           i == s.invoice
           d == s.seen[i]
           todo == {buyer[i]}
           r == [s EXCEPT !.pc = "customer", !.todo = todo]
<1>1. ~Free(w) /\ s.pc = "lookup" /\ UNCHANGED <<buyer, items, local, docs, remote, contacts>>
  BY DEF Decide, Free, henrri
<1>2. Shape(s) /\ i \in Invoices /\ i \in Rows /\ i # None /\ s \in SessionRows
  BY <1>1, InSession, Kinds DEF Shape
<1>3. /\ UploadOK(s, i, ids[i], lineIds[i], docs[i], items[i])
      /\ Base(s, i, ids[i], lineIds[i], docs[i], items[i]) /\ s.made = {}
      /\ i \in DOMAIN s.seen /\ i \notin DOMAIN s.got
  BY <1>1, <1>2, InSession DEF UploadOK, Stage
<1>4. /\ remote' \in [Customers \union Products -> Nat] /\ contacts' \in [Customers -> Nat]
      /\ Len(docs[i]) \in Nat /\ ids[i] \in Nat
      /\ todo \in SUBSET Rows /\ todo \subseteq Customers
  BY <1>1, <1>2, Kinds, LenProperties DEF UploadsOK, DataOK
<1>5. d \in Nat /\ d = ids[i] /\ d = Id(s, i, ids[i])
  BY <1>3, <1>4 DEF Base, Id
<1>6. \/ logs[i] # <<>> /\ logs[i][Len(logs[i])].ok /\ Becomes(w, Succeeded(s, d))
      \/ Becomes(w, r)
  BY DEF Decide, Last
<1> HIDE DEF d, todo
<1>7. CASE logs[i] # <<>> /\ logs[i][Len(logs[i])].ok /\ Becomes(w, Succeeded(s, d))
  <2>1. Final(docs[i], d)
    BY <1>2, <1>5, <1>7 DEF UploadsOK, RowOK
  <2>2. /\ Shape(Succeeded(s, d)) /\ Succeeded(s, d).pc # "idle" /\ Succeeded(s, d).invoice = i
        /\ UploadOK(Succeeded(s, d), i, ids[i], lineIds[i], docs[i], items[i])
    <3>1. Shape(s) /\ s.invoice \in Invoices /\ d = Id(s, s.invoice, ids[i])
          /\ Base(s, s.invoice, ids[i], lineIds[i], docs[i], items[i])
      BY <1>2, <1>3, <1>5
    <3>2. Len(docs[i]) \in Nat /\ d \in Nat
      BY <1>4, <1>5
    <3> HIDE DEF s
    <3> QED
      BY <2>1, <3>1, <3>2, SucceededUpload
  <2> HIDE DEF Succeeded
  <2> QED
    BY <1>1, <1>4, <1>7, <2>2, SameDocuments
<1>8. CASE Becomes(w, r)
  <2>1. /\ r \in SessionRows /\ r.pc = "customer" /\ r.todo = todo /\ r.invoice = i /\ r.got = s.got
        /\ r.seen = s.seen /\ r.seenLines = s.seenLines /\ r.made = s.made
    BY <1>2, <1>4 DEF SessionRows
  <2> HIDE DEF r
  <2>2. Shape(r)
    BY <1>2, <1>4, <2>1 DEF Shape
  <2>3. Id(r, i, ids[i]) = Id(s, i, ids[i])
    BY <2>1 DEF Id
  <2>4. UploadOK(r, i, ids[i], lineIds[i], docs[i], items[i])
    BY <1>3, <2>1, <2>3, Going
  <2> QED
    BY <1>1, <1>4, <1>8, <2>1, <2>2, <2>4, SameDocuments
<1> QED
  BY <1>6, <1>7, <1>8

\* A session rolled back leaves the rows as they were.
LEMMA DiesOK ==
    ASSUME UploadsOK, NEW w \in Workers, Becomes(w, Idle),
           UNCHANGED <<buyer, items, local, henrri>>
    PROVE  UploadsOK'
<1>1. DataOK'
  BY DEF UploadsOK, DataOK, Becomes, local, henrri
<1>2. /\ UNCHANGED <<buyer, items>>
      /\ \A k \in Invoices :
               /\ ids'[k] = ids[k] /\ lineIds'[k] = lineIds[k]
               /\ logs'[k] = logs[k] /\ docs'[k] = docs[k]
  BY DEF local, henrri
<1>3. None \notin Invoices /\ None \in Invoices \union {None}
  BY Kinds
<1> QED
  BY <1>1, <1>2, <1>3, OneStep

\* The rows an upload commits.
LEMMA CommitRow ==
    ASSUME NEW s, NEW i, NEW id, NEW have \in SUBSET Products, NEW log \in Seq(Entry), NEW ds,
           NEW its, Len(ds) \in Nat, RowOK(id, have, log, ds, its),
           UploadOK(s, i, id, have, ds, its), s.pc = "commit"
    PROVE  /\ RowOK(Id(s, i, id), have \union s.made, log \o s.log, ds, its)
           /\ log \o s.log \in Seq(Entry)
<1>1. PICK e \in Entry : s.log = <<e>> /\ Names(e, ds) /\ (e.ok => e.ext = Id(s, i, id) /\ Final(ds, Id(s, i, id)))
  BY DEF UploadOK, Stage
<1> DEFINE new == log \o <<e>>
<1>2. /\ new \in Seq(Entry) /\ Len(new) = Len(log) + 1 /\ Len(log) \in Nat
      /\ new[Len(log) + 1] = e /\ \A n \in 1 .. Len(log) : new[n] = log[n]
  <2>1. <<e>> \in Seq(Entry) /\ Len(<<e>>) = 1 /\ <<e>>[1] = e
    OBVIOUS
  <2> QED
    BY <2>1, ConcatProperties, LenProperties
<1>3. ASSUME NEW n \in 1 .. Len(new)
      PROVE  Names(new[n], ds)
  <2>1. n = Len(log) + 1 \/ n \in 1 .. Len(log)
    BY <1>2
  <2> QED
    BY <1>1, <1>2, <2>1 DEF RowOK
<1>4. new[Len(new)] = e
  BY <1>2
<1>5. Id(s, i, id) \in 0 .. Len(ds) /\ Bears(ds, Id(s, i, id), have \union s.made)
      /\ s.made \subseteq its
  BY DEF UploadOK, Base
<1> HIDE DEF new
<1>6. RowOK(Id(s, i, id), have \union s.made, new, ds, its)
  BY <1>1, <1>3, <1>4, <1>5 DEF RowOK
<1> QED
  BY <1>1, <1>2, <1>6 DEF new

\* The commit of a session keeps the invariant.
LEMMA CommitOK ==
    ASSUME UploadsOK, NEW w \in Workers, Commit(w)
    PROVE  UploadsOK'
<1> DEFINE s == worker[w]
           i == s.invoice
<1>1. ~Free(w) /\ s.pc = "commit" /\ UNCHANGED <<buyer, items, invoiced, remote, contacts, docs>>
      /\ Becomes(w, Idle)
  BY DEF Commit, Free, henrri
<1>2. Shape(s) /\ s \in SessionRows /\ i \in Invoices \union {None} /\ None \notin Invoices
  BY <1>1, InSession, Kinds DEF Shape, SessionRows
<1>3. PICK S \in SUBSET Rows, T \in SUBSET Rows : s.got \in [S -> Nat] /\ s.gotContact \in [T -> Nat]
  BY <1>2 DEF SessionRows, SomeNumbers
<1>4. /\ ids \in [Rows -> Nat] /\ contactIds \in [Customers -> Nat] /\ Invoices \subseteq Rows
      /\ lineIds \in [Invoices -> SUBSET Products] /\ logs \in [Invoices -> Seq(Entry)]
  BY Kinds DEF UploadsOK, DataOK
<1>5. ids' = [e \in Rows |-> IF e \in DOMAIN s.got THEN s.got[e] ELSE ids[e]]
      /\ contactIds' = [c \in Customers |-> IF c \in DOMAIN s.gotContact THEN s.gotContact[c]
                                            ELSE contactIds[c]]
  BY DEF Commit, Written
<1>6. ids' \in [Rows -> Nat] /\ contactIds' \in [Customers -> Nat]
  BY <1>3, <1>4, <1>5
<1>7. \A k \in Invoices : ids'[k] = Id(s, k, ids[k]) /\ (k # i => ids'[k] = ids[k])
  BY <1>2, <1>4, <1>5 DEF Id, Shape
<1>8. /\ lineIds' = IF i = None THEN lineIds ELSE [lineIds EXCEPT ![i] = @ \union s.made]
      /\ logs' = IF i = None THEN logs ELSE [logs EXCEPT ![i] = @ \o s.log]
  BY DEF Commit
<1>9. s.made \in SUBSET Products
  BY <1>2 DEF SessionRows
<1>10. CASE i = None
  <2>1. DataOK'
    BY <1>1, <1>6, <1>8, <1>10 DEF UploadsOK, DataOK, Becomes
  <2> QED
    BY <1>1, <1>2, <1>7, <1>8, <1>10, <2>1, OneStep
<1>11. CASE i \in Invoices
  <2>1. Alone(w) /\ UploadOK(s, i, ids[i], lineIds[i], docs[i], items[i])
    BY <1>1, <1>11, InSession
  <2>2. Len(docs[i]) \in Nat /\ RowOK(ids[i], lineIds[i], logs[i], docs[i], items[i])
    BY <1>11, LenProperties DEF UploadsOK, DataOK
  <2>3. /\ RowOK(Id(s, i, ids[i]), lineIds[i] \union s.made, logs[i] \o s.log, docs[i], items[i])
        /\ logs[i] \o s.log \in Seq(Entry)
    BY <1>1, <1>4, <1>11, <2>1, <2>2, CommitRow
  <2>4. /\ lineIds' = [lineIds EXCEPT ![i] = @ \union s.made]
        /\ logs' = [logs EXCEPT ![i] = @ \o s.log]
    BY <1>2, <1>8, <1>11
  <2>5. /\ lineIds' \in [Invoices -> SUBSET Products] /\ logs' \in [Invoices -> Seq(Entry)]
        /\ lineIds'[i] = lineIds[i] \union s.made /\ logs'[i] = logs[i] \o s.log
        /\ \A k \in Invoices : k # i => lineIds'[k] = lineIds[k] /\ logs'[k] = logs[k]
    BY <1>4, <1>9, <1>11, <2>3, <2>4
  <2>6. DataOK'
    BY <1>1, <1>6, <2>5 DEF UploadsOK, DataOK, Becomes
  <2>7. RowOK(ids'[i], lineIds'[i], logs'[i], docs'[i], items[i])
    BY <1>1, <1>7, <1>11, <2>3, <2>5
  <2>8. \A v \in Workers : v # w => worker[v].invoice # i
    BY <2>1 DEF Alone
  <2> QED
    BY <1>1, <1>2, <1>7, <1>11, <2>5, <2>6, <2>7, <2>8, OneStep
<1> QED
  BY <1>2, <1>10, <1>11

\* A session at its start.
LEMMA NewSession ==
    ASSUME DataOK, NEW i \in Invoices \union {None}, NEW seen \in SomeNumbers,
           NEW pc \in {"lookup", "customer"}, NEW todo \in Seq(Nat) \union SUBSET Rows,
           pc = "lookup" => i \in Invoices, pc = "customer" => todo \subseteq Customers
    PROVE  /\ Shape(Session(pc, i, todo, seen))
           /\ Session(pc, i, todo, seen).pc = pc /\ Session(pc, i, todo, seen).invoice = i
           /\ Session(pc, i, todo, seen).todo = todo /\ Session(pc, i, todo, seen).seen = seen
           /\ Session(pc, i, todo, seen).made = {}
           /\ Session(pc, i, todo, seen).got = Nothing
           /\ Session(pc, i, todo, seen).gotContact = Nothing /\ DOMAIN Nothing = {}
           /\ i \in Invoices => Session(pc, i, todo, seen).seenLines = lineIds[i]
<1> DEFINE lines == IF i = None THEN {} ELSE lineIds[i]
           r == Session(pc, i, todo, seen)
<1>1. lines \in SUBSET Products /\ (i \in Invoices => lines = lineIds[i])
  BY Kinds DEF DataOK
<1>2. Nothing \in SomeNumbers /\ DOMAIN Nothing = {}
  <2>1. Nothing \in [{} -> Nat] /\ {} \in SUBSET Rows
    BY DEF Nothing
  <2> QED
    BY <2>1 DEF SomeNumbers
<1>3. r = [pc |-> pc, invoice |-> i, todo |-> todo, customer |-> None, seen |-> seen,
           seenLines |-> lines, got |-> Nothing, gotContact |-> Nothing, made |-> {}, log |-> <<>>]
  BY DEF Session
<1> HIDE DEF r, lines
<1>4. <<>> \in Seq(Entry)
  OBVIOUS
<1>5. r \in SessionRows
  BY <1>1, <1>2, <1>3, <1>4 DEF SessionRows
<1>6. r.pc = pc /\ r.invoice = i /\ r.todo = todo /\ r.seen = seen /\ r.made = {} /\ r.got = Nothing
      /\ r.gotContact = Nothing /\ r.seenLines = lines
  BY <1>3
<1>7. Shape(r)
  BY <1>2, <1>5, <1>6 DEF Shape
<1> QED
  BY <1>1, <1>2, <1>6, <1>7 DEF r

\* The start of an upload.
LEMMA StartOK ==
    ASSUME UploadsOK, NEW w \in Workers, NEW i \in Invoices \union {None}, NEW r,
           Becomes(w, r), UNCHANGED <<buyer, items, ids, contactIds, lineIds, logs, henrri>>,
           \A v \in Workers : i = None \/ worker[v].invoice # i,
           r.pc # "idle", Shape(r), r.invoice = i,
           i \in Invoices => UploadOK(r, i, ids[i], lineIds[i], docs[i], items[i])
    PROVE  UploadsOK'
<1>1. DataOK'
  BY DEF UploadsOK, DataOK, Becomes, henrri, Shape
<1>2. /\ UNCHANGED <<buyer, items>>
      /\ \A k \in Invoices :
               /\ ids'[k] = ids[k] /\ lineIds'[k] = lineIds[k]
               /\ logs'[k] = logs[k] /\ docs'[k] = docs[k]
  BY DEF henrri
<1>3. i \in Invoices => /\ RowOK(ids'[i], lineIds'[i], logs'[i], docs'[i], items[i])
                        /\ UploadOK(r, i, ids'[i], lineIds'[i], docs'[i], items[i])
  BY DEF UploadsOK, henrri
<1> QED
  BY <1>1, <1>2, <1>3, OneStep

\* The start of the upload of a new invoice keeps the invariant.
LEMMA CreateInvoiceOK ==
    ASSUME UploadsOK, apart, NEW w \in Workers, NEW i \in Invoices, CreateInvoice(w, i)
    PROVE  UploadsOK'
<1> DEFINE todo == {buyer[i]}
           r == Session("customer", i, todo, Nothing)
<1>1. /\ Becomes(w, r) /\ UNCHANGED <<buyer, items, ids, contactIds, lineIds, logs, henrri>>
      /\ \A v \in Workers : worker[v].invoice # i
  BY DEF CreateInvoice, MayUpload
<1>2. todo \subseteq Customers /\ todo \in SUBSET Rows /\ DataOK
      /\ RowOK(ids[i], lineIds[i], logs[i], docs[i], items[i])
  BY Kinds DEF UploadsOK, DataOK
<1>3. Nothing \in SomeNumbers
  <2>1. Nothing \in [{} -> Nat] /\ {} \in SUBSET Rows
    BY DEF Nothing
  <2> QED
    BY <2>1 DEF SomeNumbers
<1> HIDE DEF todo
<1>4. /\ Shape(r) /\ r.pc = "customer" /\ r.invoice = i /\ r.todo = todo /\ r.seen = Nothing
      /\ r.made = {} /\ r.got = Nothing /\ r.seenLines = lineIds[i] /\ DOMAIN Nothing = {}
  BY <1>2, <1>3, NewSession
<1> HIDE DEF r
<1>5. UploadOK(r, i, ids[i], lineIds[i], docs[i], items[i])
  BY <1>2, <1>4 DEF UploadOK, Base, Stage, Id, RowOK
<1> QED
  BY <1>1, <1>4, <1>5, StartOK

\* The documents a new attempt looks up are documents of the invoice, or none.
LEMMA CandidatesType ==
    ASSUME DataOK, NEW i \in Invoices, RowOK(ids[i], lineIds[i], logs[i], docs[i], items[i])
    PROVE  Candidates(i) \in Seq(0 .. Len(docs[i])) /\ Candidates(i) \in Seq(Nat)
<1> DEFINE n == Len(docs[i])
           log == logs[i]
           former == [k \in 1 .. Len(log) |-> log[Len(log) + 1 - k].ext]
           todo == Candidates(i)
<1>1. n \in Nat /\ Len(log) \in Nat
  BY LenProperties DEF DataOK
<1>2. ids[i] \in 0 .. n /\ \A k \in 1 .. Len(log) : log[k].ext \in 0 .. n
  BY DEF RowOK, Names
<1>3. \A k \in 1 .. Len(log) : Len(log) + 1 - k \in 1 .. Len(log)
  BY <1>1
<1>4. former \in Seq(0 .. n)
  <2> HIDE DEF n, log
  <2>1. former \in [1 .. Len(log) -> 0 .. n]
    BY <1>2, <1>3
  <2> HIDE DEF former
  <2> QED
    BY <1>1, <2>1, SeqDef
<1>5. <<ids[i]>> \in Seq(0 .. n)
  BY <1>2
<1>6. todo = <<ids[i]>> \o former
  BY DEF Candidates
<1> HIDE DEF former, todo, n, log
<1>7. todo \in Seq(0 .. n)
  BY <1>4, <1>5, <1>6, ConcatProperties
<1>8. todo \in Seq(Nat)
  BY <1>1, <1>7, SeqMonotonic
<1> QED
  BY <1>7, <1>8 DEF todo, n

\* The start of a new attempt keeps the invariant.
LEMMA RetryInvoiceOK ==
    ASSUME UploadsOK, apart, NEW w \in Workers, NEW i \in Invoices, RetryInvoice(w, i)
    PROVE  UploadsOK'
<1> DEFINE T == {i, buyer[i]} \union items[i]
           seen == Restrict(ids, T)
           todo == Candidates(i)
           n == Len(docs[i])
           log == logs[i]
           r == Session("lookup", i, todo, seen)
<1>1. /\ Becomes(w, r) /\ UNCHANGED <<buyer, items, ids, contactIds, lineIds, logs, henrri>>
      /\ \A v \in Workers : worker[v].invoice # i
  BY DEF RetryInvoice, MayUpload, local
<1>2. /\ DataOK /\ RowOK(ids[i], lineIds[i], log, docs[i], items[i]) /\ n \in Nat
      /\ Len(log) \in Nat /\ log \in Seq(Entry)
  BY LenProperties DEF UploadsOK, DataOK
<1>3. T \in SUBSET Rows /\ seen \in SomeNumbers /\ i \in DOMAIN seen /\ seen[i] = ids[i]
  <2>1. T \in SUBSET Rows
    BY <1>2, Kinds DEF DataOK
  <2> HIDE DEF T
  <2>2. seen \in [T -> Nat]
    BY <1>2, <2>1 DEF DataOK, Restrict
  <2>3. i \in T
    BY DEF T
  <2> QED
    BY <2>1, <2>2, <2>3 DEF SomeNumbers, Restrict
<1>4. todo \in Seq(0 .. n) /\ todo \in Seq(Nat)
  BY <1>2, CandidatesType
<1> HIDE DEF todo, seen, n, log
<1>5. /\ Shape(r) /\ r.pc = "lookup" /\ r.invoice = i /\ r.todo = todo /\ r.seen = seen
      /\ r.made = {} /\ r.got = Nothing /\ r.seenLines = lineIds[i] /\ DOMAIN Nothing = {}
  BY <1>2, <1>3, <1>4, NewSession
<1> HIDE DEF r
<1>6. UploadOK(r, i, ids[i], lineIds[i], docs[i], items[i])
  <2>1. Base(r, i, ids[i], lineIds[i], docs[i], items[i])
    BY <1>2, <1>3, <1>5 DEF Base, Id, RowOK
  <2>2. Stage(r, i, Id(r, i, ids[i]), docs[i], items[i])
    BY <1>3, <1>4, <1>5 DEF Stage, n
  <2> QED
    BY <2>1, <2>2 DEF UploadOK
<1> QED
  BY <1>1, <1>5, <1>6, StartOK

\* The start of a batch of customers keeps the invariant.
LEMMA SyncCustomersOK ==
    ASSUME UploadsOK, NEW w \in Workers, NEW S \in SUBSET Customers, SyncCustomers(w, S)
    PROVE  UploadsOK'
<1> DEFINE seen == Restrict(ids, S)
           r == Session("customer", None, S, seen)
<1>1. /\ Becomes(w, r) /\ UNCHANGED <<buyer, items, ids, contactIds, lineIds, logs, henrri>>
      /\ None \notin Invoices
  BY Kinds DEF SyncCustomers, local
<1>2. S \in SUBSET Rows /\ DataOK
  BY Kinds DEF UploadsOK
<1>3. seen \in SomeNumbers
  <2>1. seen \in [S -> Nat]
    BY <1>2 DEF DataOK, Restrict
  <2> QED
    BY <1>2, <2>1 DEF SomeNumbers
<1> HIDE DEF seen
<1>4. Shape(r) /\ r.pc = "customer" /\ r.invoice = None
  BY <1>2, <1>3, NewSession
<1> HIDE DEF r
<1> QED
  BY <1>1, <1>4, StartOK

\* A session that reads its rows anew.
LEMMA RenewedShape ==
    ASSUME NEW s, Shape(s), s.pc = "customer", s.invoice = None
    PROVE  /\ Shape(Renewed(s)) /\ Renewed(s).pc = "customer" /\ Renewed(s).invoice = None
           /\ Renewed(s).got = Nothing /\ Renewed(s).gotContact = Nothing
           /\ Renewed(s).seen = Nothing /\ Renewed(s).todo = s.todo /\ DOMAIN Nothing = {}
<1> DEFINE r == Renewed(s)
<1>1. s \in SessionRows /\ s.todo \subseteq Customers
  BY DEF Shape
<1>2. Nothing \in SomeNumbers /\ DOMAIN Nothing = {}
  <2>1. Nothing \in [{} -> Nat] /\ {} \in SUBSET Rows
    BY DEF Nothing
  <2> QED
    BY <2>1 DEF SomeNumbers
<1>3. r = [s EXCEPT !.seen = Nothing, !.got = Nothing, !.gotContact = Nothing]
  BY DEF Renewed
<1> HIDE DEF r
<1>4. /\ r \in SessionRows /\ r.pc = "customer" /\ r.invoice = None /\ r.todo = s.todo
      /\ r.got = Nothing /\ r.gotContact = Nothing /\ r.seen = Nothing
  BY <1>1, <1>2, <1>3 DEF SessionRows
<1>5. Shape(r)
  BY <1>1, <1>2, <1>4 DEF Shape
<1> QED
  BY <1>2, <1>4, <1>5 DEF r

\* The commit or the rollback of a link to the shop touches no invoice.
LEMMA LinkToShopOK ==
    ASSUME UploadsOK, NEW w \in Workers, LinkToShop(w)
    PROVE  UploadsOK'
<1> DEFINE s == worker[w]
           r == Renewed(s)
<1>1. /\ ~Free(w) /\ s.pc = "customer" /\ s.invoice = None /\ Becomes(w, r)
      /\ UNCHANGED <<buyer, items, lineIds, logs, remote, contacts, docs>>
      /\ Written(s) \/ UNCHANGED <<ids, contactIds>>
  BY DEF LinkToShop, Free, henrri
<1>2. Shape(s) /\ s \in SessionRows /\ None \notin Invoices
  BY <1>1, InSession, Kinds DEF Shape
<1>3. PICK S \in SUBSET Rows, T \in SUBSET Rows : s.got \in [S -> Nat] /\ s.gotContact \in [T -> Nat]
  BY <1>2 DEF SessionRows, SomeNumbers
<1>4. ids \in [Rows -> Nat] /\ contactIds \in [Customers -> Nat] /\ Invoices \subseteq Rows
  BY Kinds DEF UploadsOK, DataOK
<1>5. ids' \in [Rows -> Nat] /\ contactIds' \in [Customers -> Nat]
  BY <1>1, <1>3, <1>4 DEF Written
<1>6. \A k \in Invoices : ids'[k] = ids[k]
  BY <1>1, <1>2, <1>4 DEF Written, Shape
<1>7. Shape(r) /\ r.pc = "customer" /\ r.invoice = None
  BY <1>1, <1>2, RenewedShape
<1> HIDE DEF r
<1>8. DataOK'
  BY <1>1, <1>5, <1>7 DEF UploadsOK, DataOK, Becomes, Shape
<1> QED
  BY <1>1, <1>2, <1>6, <1>7, <1>8, OneStep

-----------------------------------------------------------------------------
\* The first invariant holds at the start.
LEMMA UploadsStart == UploadsInit => UploadsInv
<1> SUFFICES ASSUME UploadsInit PROVE UploadsOK
  BY DEF UploadsInv
<1>1. /\ ids \in [Rows -> Nat] /\ contactIds \in [Customers -> Nat]
      /\ lineIds \in [Invoices -> SUBSET Products]
      /\ remote \in [Customers \union Products -> Nat] /\ contacts \in [Customers -> Nat]
      /\ worker \in [Workers -> {Idle} \union SessionRows]
  BY DEF UploadsInit
<1>2. logs \in [Invoices -> Seq(Entry)] /\ docs \in [Invoices -> Seq(DocRow)]
  <2>1. <<>> \in Seq(Entry) /\ <<>> \in Seq(DocRow)
    OBVIOUS
  <2> QED
    BY <2>1 DEF UploadsInit
<1>3. buyer \in [Invoices -> Customers] /\ items \in [Invoices -> SUBSET Products]
  BY DEF UploadsInit
<1>4. ASSUME NEW i \in Invoices
      PROVE  RowOK(ids[i], lineIds[i], logs[i], docs[i], items[i])
  <2>1. ids[i] = 0 /\ lineIds[i] = {} /\ logs[i] = <<>> /\ docs[i] = <<>>
    BY Kinds DEF UploadsInit
  <2> QED
    BY <2>1 DEF RowOK, Bears
<1>5. \A w \in Workers : Free(w)
  BY DEF UploadsInit, Free, Idle
<1> QED
  BY <1>1, <1>2, <1>3, <1>4, <1>5 DEF UploadsOK, DataOK

\* Every step keeps the first invariant.
LEMMA UploadsStep == UploadsInv /\ [UploadsNext]_uploadVars => UploadsInv'
<1> SUFFICES ASSUME UploadsInv, [UploadsNext]_uploadVars, apart' PROVE UploadsOK'
  BY DEF UploadsInv
<1>1. CASE UNCHANGED uploadVars
  BY <1>1 DEF UploadsInv, UploadsOK, uploadVars, local, henrri, DataOK, Alone, Free
<1>2. CASE UploadsNext
  <2>1. apart /\ UploadsOK
    BY <1>2 DEF UploadsNext, UploadsInv
  <2>2. PICK w \in Workers :
        \/ \E i \in Invoices : CreateInvoice(w, i) \/ RetryInvoice(w, i)
        \/ \E S \in Batches : SyncCustomers(w, S)
        \/ LinkToShop(w)
        \/ Lookup(w) \/ Decide(w)
        \/ \E c \in Customers : CreateCustomer(w, c) \/ UpdateCustomer(w, c)
        \/ UpsertContact(w)
        \/ \E p \in Products : UpsertProduct(w, p) \/ CreateLine(w, p)
        \/ CreateDocument(w) \/ UpdateDocument(w) \/ Finalize(w)
        \/ Commit(w) \/ Dies(w)
    BY <1>2 DEF UploadsNext
  <2>3. ASSUME NEW i \in Invoices, CreateInvoice(w, i) \/ RetryInvoice(w, i) PROVE UploadsOK'
    BY <2>1, <2>3, CreateInvoiceOK, RetryInvoiceOK
  <2>4. ASSUME NEW S \in Batches, SyncCustomers(w, S) PROVE UploadsOK'
    <3>1. S \in SUBSET Customers
      BY DEF Batches
    <3> QED
      BY <2>1, <2>4, <3>1, SyncCustomersOK
  <2>12. ASSUME LinkToShop(w) PROVE UploadsOK'
    BY <2>1, <2>12, LinkToShopOK
  <2>5. ASSUME Lookup(w) \/ Decide(w) PROVE UploadsOK'
    BY <2>1, <2>5, LookupOK, DecideOK
  <2>6. ASSUME NEW c \in Customers, CreateCustomer(w, c) \/ UpdateCustomer(w, c) PROVE UploadsOK'
    BY <2>1, <2>6, CreateCustomerOK, UpdateCustomerOK
  <2>7. ASSUME UpsertContact(w) PROVE UploadsOK'
    BY <2>1, <2>7, UpsertContactOK
  <2>8. ASSUME NEW p \in Products, UpsertProduct(w, p) \/ CreateLine(w, p) PROVE UploadsOK'
    BY <2>1, <2>8, UpsertProductOK, CreateLineOK
  <2>9. ASSUME CreateDocument(w) \/ UpdateDocument(w) \/ Finalize(w) PROVE UploadsOK'
    BY <2>1, <2>9, CreateDocumentOK, UpdateDocumentOK, FinalizeOK
  <2>10. ASSUME Commit(w) PROVE UploadsOK'
    BY <2>1, <2>10, CommitOK
  <2>11. ASSUME Dies(w) PROVE UploadsOK'
    BY <2>1, <2>11, DiesOK DEF Dies
  <2> QED
    BY <2>2, <2>3, <2>4, <2>5, <2>6, <2>7, <2>8, <2>9, <2>10, <2>11, <2>12
<1> QED
  BY <1>1, <1>2

\* What the first invariant says of a success.
LEMMA UploadsInvMeans == UploadsInv => SuccessMeansFinalized
<1> SUFFICES ASSUME UploadsInv, apart PROVE SuccessMeansFinalized
  BY DEF SuccessMeansFinalized
<1>1. UploadsOK /\ docs \in [Invoices -> Seq(DocRow)] /\ DOMAIN docs = Invoices
  BY DEF UploadsInv, UploadsOK, DataOK
<1>2. ASSUME NEW i \in Invoices
      PROVE  /\ DOMAIN docs[i] = 1 .. Len(docs[i]) /\ Len(docs[i]) \in Nat
             /\ RowOK(ids[i], lineIds[i], logs[i], docs[i], items[i])
             /\ docs[i] \in Seq(DocRow)
  BY <1>1, LenProperties DEF UploadsOK
<1>3. FinalizedIsComplete
  BY <1>1, <1>2 DEF FinalizedIsComplete, RowOK, Bears
<1>4. ASSUME NEW i \in Invoices, logs[i] # <<>>, Last(logs[i]).ok
      PROVE  ids[i] \in DOMAIN docs[i] /\ docs[i][ids[i]].finalized
  BY <1>2, <1>4 DEF RowOK, Final, Last
<1> QED
  BY <1>1, <1>3, <1>4 DEF SuccessMeansFinalized

-----------------------------------------------------------------------------
(* One worker at a time, requests that are only refused.                   *)

\* The contact of a customer, and the lines of an invoice, as a session has them.
ContactId(s, c, id) == IF c \in DOMAIN s.gotContact THEN s.gotContact[c] ELSE id
Has(s, i) == IF i = s.invoice THEN lineIds[i] \union s.made ELSE lineIds[i]

\* Nobody's session: what the rows have.
Blank == [got |-> Nothing, gotContact |-> Nothing, invoice |-> None, made |-> {}]

\* The session s knows of what Henrri holds, which it holds once.
HeldBy(s, rem, con, ds) ==
    /\ \A e \in Customers \union Products : rem[e] = Id(s, e, ids[e]) /\ rem[e] <= 1
    /\ \A c \in Customers : con[c] = rem[c] /\ con[c] = ContactId(s, c, contactIds[c])
    /\ \A i \in Invoices :
         /\ Len(ds[i]) = Id(s, i, ids[i]) /\ Len(ds[i]) <= 1
         /\ Len(ds[i]) = 1 =>
              \A p \in items[i] : ds[i][1].lines[p] = IF p \in Has(s, i) THEN 1 ELSE 0

\* What it is about to create is not there; it creates no contact apart from
\* its customer.
Pace(s) ==
    /\ \A e \in DOMAIN s.seen : s.seen[e] = ids[e]
    /\ s.pc = "lookup" => DOMAIN s.gotContact = {}
    /\ s.pc \in {"customer", "contact"} => \A c \in s.todo : c \notin DOMAIN s.gotContact
    /\ s.pc = "contact" => contactIds[s.customer] # 0
    /\ s.pc = "lines" => \A p \in s.todo : p \notin s.seenLines \union s.made

CalmOK ==
    /\ \A v, w \in Workers : Free(v) \/ Free(w) \/ v = w
    /\ (\A w \in Workers : Free(w)) => HeldBy(Blank, remote, contacts, docs)
    /\ \A w \in Workers : ~Free(w) => HeldBy(worker[w], remote, contacts, docs) /\ Pace(worker[w])

CalmInv == calm => apart /\ CalmOK

\* A step of the one session at work, or the start of one when there is none.
LEMMA CalmStep ==
    ASSUME UploadsOK, CalmOK, NEW w \in Workers, NEW r, Becomes(w, r), r.pc # "idle",
           UNCHANGED <<buyer, items, ids, contactIds, lineIds>>,
           ~Free(w) \/ \A v \in Workers : Free(v),
           HeldBy(r, remote', contacts', docs'), Pace(r)
    PROVE  CalmOK'
<1>1. worker'[w] = r /\ \A v \in Workers : v # w => worker'[v] = worker[v]
  BY DEF UploadsOK, DataOK, Becomes
<1>2. \A v \in Workers : v # w => worker'[v].pc = "idle"
  BY <1>1 DEF CalmOK, Free
<1>3. HeldBy(r, remote', contacts', docs') <=> HeldBy(r, remote, contacts, docs)'
  BY DEF HeldBy, Has
<1>4. Pace(r) <=> Pace(r)'
  BY DEF Pace
<1>5. ASSUME NEW v \in Workers, worker'[v].pc # "idle"
      PROVE  v = w /\ HeldBy(worker[v], remote, contacts, docs)' /\ Pace(worker[v])'
  <2>1. v = w /\ worker'[v] = r
    BY <1>1, <1>2, <1>5
  <2>2. HeldBy(worker[v], remote, contacts, docs)' <=> HeldBy(r, remote, contacts, docs)'
    BY <2>1 DEF HeldBy, Has, Id, ContactId
  <2>3. Pace(worker[v])' <=> Pace(r)'
    BY <2>1 DEF Pace
  <2> QED
    BY <1>3, <1>4, <2>1, <2>2, <2>3
<1>6. ~\A v \in Workers : worker'[v].pc = "idle"
  BY <1>1
<1> QED
  BY <1>2, <1>5, <1>6 DEF CalmOK, Free

\* What a session has depends on what it was given only.
LEMMA SameHeld ==
    ASSUME NEW s, NEW r, NEW rem, NEW con, NEW ds, HeldBy(s, rem, con, ds),
           r.got = s.got, r.gotContact = s.gotContact, r.invoice = s.invoice, r.made = s.made
    PROVE  HeldBy(r, rem, con, ds)
<1>1. \A e, n : Id(r, e, n) = Id(s, e, n) /\ ContactId(r, e, n) = ContactId(s, e, n)
  BY DEF Id, ContactId
<1>2. \A i : Has(r, i) = Has(s, i)
  BY DEF Has
<1> QED
  BY <1>1, <1>2 DEF HeldBy

\* What a session knows is what its rows and its answers say.
LEMMA CalmKnown ==
    ASSUME UploadsOK, CalmOK, NEW w \in Workers, ~Free(w), NEW e \in Rows
    PROVE  Known(w, e) = Id(worker[w], e, ids[e])
BY DEF CalmOK, Pace, Known, Id

\* A session that fails keeps what it has.
LEMMA CalmFailed ==
    ASSUME UploadsOK, CalmOK, NEW w \in Workers, ~Free(w), NEW s, Becomes(w, Failed(s)),
           UNCHANGED <<buyer, items, ids, contactIds, lineIds, henrri>>,
           Shape(s), s.invoice = worker[w].invoice, s.got = worker[w].got,
           s.gotContact = worker[w].gotContact, s.made = worker[w].made, s.seen = worker[w].seen,
           s.invoice = None =>
             s.todo \subseteq Customers /\ \A c \in s.todo : c \notin DOMAIN s.gotContact
    PROVE  CalmOK'
<1> DEFINE r == Failed(s)
<1>1. HeldBy(worker[w], remote, contacts, docs) /\ Pace(worker[w])
  BY DEF CalmOK
<1>2. /\ r.pc # "idle" /\ r.invoice = s.invoice /\ r.got = s.got /\ r.gotContact = s.gotContact
      /\ r.seen = s.seen /\ r.made = s.made
  BY FailedShape
<1>3. CASE s.invoice = None
  <2>1. r = [s EXCEPT !.customer = None, !.pc = IF s.todo = {} THEN "commit" ELSE "customer"]
    BY <1>3 DEF Failed
  <2>2. r.todo = s.todo /\ r.pc \in {"commit", "customer"}
    BY <2>1 DEF Shape, SessionRows
  <2> HIDE DEF r
  <2>3. Pace(r)
    BY <1>1, <1>2, <1>3, <2>2 DEF Pace
  <2>4. HeldBy(r, remote', contacts', docs')
    BY <1>1, <1>2, SameHeld DEF henrri
  <2> QED
    BY <1>2, <2>3, <2>4, CalmStep DEF r
<1>4. CASE s.invoice # None
  <2>1. r.pc = "commit"
    BY <1>4, FailedShape DEF Shape, SessionRows
  <2> HIDE DEF r
  <2>2. Pace(r)
    BY <1>1, <1>2, <2>1 DEF Pace
  <2>3. HeldBy(r, remote', contacts', docs')
    BY <1>1, <1>2, SameHeld DEF henrri
  <2> QED
    BY <1>2, <2>2, <2>3, CalmStep DEF r
<1> QED
  BY <1>3, <1>4

\* Nor does one that adopts or finds a finalized document.
LEMMA CalmSucceeded ==
    ASSUME UploadsOK, CalmOK, NEW w \in Workers, ~Free(w), NEW s, NEW d, Becomes(w, Succeeded(s, d)),
           UNCHANGED <<buyer, items, ids, contactIds, lineIds, remote, contacts>>,
           Shape(s), s.seen = worker[w].seen, HeldBy(s, remote, contacts, docs')
    PROVE  CalmOK'
<1> DEFINE log == <<[ok |-> TRUE, ext |-> d]>>
           r == Succeeded(s, d)
<1>1. Pace(worker[w])
  BY DEF CalmOK
<1>2. r = [s EXCEPT !.pc = "commit", !.log = log]
  BY DEF Succeeded
<1> HIDE DEF r, log
<1>3. /\ r.pc = "commit" /\ r.got = s.got /\ r.gotContact = s.gotContact /\ r.invoice = s.invoice
      /\ r.made = s.made /\ r.seen = s.seen
  BY <1>2 DEF Shape, SessionRows
<1>4. Pace(r)
  BY <1>1, <1>3 DEF Pace
<1>5. HeldBy(r, remote', contacts', docs')
  BY <1>3, SameHeld
<1> QED
  BY <1>3, <1>4, <1>5, CalmStep DEF r

\* The customer updated has its contact, which the session does not create.
LEMMA UpdateCustomerCalm ==
    ASSUME UploadsOK, CalmOK, NEW w \in Workers, NEW c \in Customers, UpdateCustomer(w, c)
    PROVE  CalmOK'
<1> DEFINE q == worker[w]
           s == [q EXCEPT !.todo = @ \ {c}, !.customer = c]
           r == [s EXCEPT !.pc = "contact"]
<1>1. ~Free(w) /\ q.pc = "customer" /\ c \in q.todo /\ Known(w, c) # 0
      /\ UNCHANGED <<buyer, items, ids, contactIds, lineIds, henrri>>
  BY DEF UpdateCustomer, Free, local
<1>2. Shape(q) /\ Pace(q) /\ HeldBy(q, remote, contacts, docs)
  BY <1>1, InSession DEF CalmOK
<1>3. Becomes(w, Failed(s)) \/ Becomes(w, r)
  BY DEF UpdateCustomer
<1>4. Takes(s, q, c)
  <2>1. s = [q EXCEPT !.todo = @ \ {c}, !.customer = c]
    OBVIOUS
  <2> HIDE DEF s, q
  <2> QED
    BY <1>1, <1>2, <2>1, Taken, Zenon
<1> HIDE DEF s
<1>5. \A x \in s.todo : x \notin DOMAIN s.gotContact
  BY <1>1, <1>2, <1>4 DEF Takes, Pace
<1>6. CASE Becomes(w, Failed(s))
  BY <1>1, <1>4, <1>5, <1>6, CalmFailed DEF Takes
<1>7. CASE Becomes(w, r)
  <2>1. r.pc = "contact" /\ r.todo = s.todo /\ r.customer = c /\ r.gotContact = q.gotContact
        /\ r.invoice = q.invoice /\ r.got = q.got /\ r.seen = q.seen /\ r.made = q.made
    BY <1>4 DEF SessionRows, Takes, Shape
  <2> HIDE DEF r
  <2>2. contactIds[c] # 0
    <3>1. c \notin DOMAIN q.gotContact /\ c \in Rows
      BY <1>1, <1>2, Kinds DEF Pace
    <3>2. Id(q, c, ids[c]) # 0
      BY <1>1, <3>1, CalmKnown
    <3>3. contacts[c] = remote[c] /\ contacts[c] = contactIds[c] /\ remote[c] = Id(q, c, ids[c])
      BY <1>2, <3>1 DEF HeldBy, ContactId
    <3> QED
      BY <3>2, <3>3
  <2>3. Pace(r)
    BY <1>2, <1>4, <1>5, <2>1, <2>2 DEF Pace, Takes
  <2>4. HeldBy(r, remote', contacts', docs')
    BY <1>1, <1>2, <2>1, SameHeld DEF henrri
  <2> QED
    BY <1>1, <1>7, <2>1, <2>3, <2>4, CalmStep
<1> QED
  BY <1>3, <1>6, <1>7

\* A session that is done with its customer.
LEMMA CalmDone ==
    ASSUME UploadsOK, CalmOK, NEW w \in Workers, ~Free(w), NEW s, Becomes(w, CustomerDone(s)),
           UNCHANGED <<buyer, items, ids, contactIds, lineIds>>,
           Shape(s), s.pc \in {"customer", "contact"}, s.seen = worker[w].seen,
           HeldBy(s, remote', contacts', docs'),
           \A c \in s.todo : c \notin DOMAIN s.gotContact
    PROVE  CalmOK'
<1> DEFINE r == CustomerDone(s)
<1>1. Pace(worker[w]) /\ s \in SessionRows
  BY DEF CalmOK, Shape
<1>2. /\ r.got = s.got /\ r.gotContact = s.gotContact /\ r.invoice = s.invoice
      /\ r.made = s.made /\ r.seen = s.seen
      /\ r.pc \in {"customer", "commit", "products"} /\ (r.pc = "customer" => r.todo = s.todo)
  <2>1. CASE s.invoice = None
    <3> DEFINE pc == IF s.todo = {} THEN "commit" ELSE "customer"
    <3>1. r = [s EXCEPT !.customer = None, !.pc = pc] /\ pc \in {"customer", "commit"}
      BY <2>1 DEF CustomerDone
    <3> HIDE DEF pc, r
    <3> QED
      BY <1>1, <3>1 DEF SessionRows
  <2>2. CASE s.invoice # None
    <3> DEFINE todo == items[s.invoice]
    <3>1. r = [s EXCEPT !.customer = None, !.pc = "products", !.todo = todo]
      BY <2>2 DEF CustomerDone
    <3> HIDE DEF todo, r
    <3> QED
      BY <1>1, <3>1 DEF SessionRows
  <2> QED
    BY <2>1, <2>2
<1> HIDE DEF r
<1>3. Pace(r)
  BY <1>1, <1>2 DEF Pace
<1>4. HeldBy(r, remote', contacts', docs')
  BY <1>2, SameHeld
<1> QED
  BY <1>2, <1>3, <1>4, CalmStep DEF r

\* The contact of a known customer is known: none is created.
LEMMA UpsertContactCalm ==
    ASSUME UploadsOK, CalmOK, calm, NEW w \in Workers, UpsertContact(w)
    PROVE  CalmOK'
<1> DEFINE s == worker[w]
           c == s.customer
<1>1. ~Free(w) /\ s.pc = "contact" /\ UNCHANGED <<buyer, items, ids, contactIds, lineIds>>
      /\ s.pc \in {"customer", "contact"}
  BY DEF UpsertContact, Free, local
<1>2. /\ Shape(s) /\ s.todo \subseteq Customers /\ Pace(s) /\ HeldBy(s, remote, contacts, docs)
      /\ contactIds[c] # 0 /\ \A x \in s.todo : x \notin DOMAIN s.gotContact
  BY <1>1, InSession DEF Shape, CalmOK, Pace
<1>3. UNCHANGED henrri /\ (Becomes(w, Failed(s)) \/ Becomes(w, CustomerDone(s)))
  BY <1>2 DEF UpsertContact, Refused
<1>4. CASE Becomes(w, Failed(s))
  BY <1>1, <1>2, <1>3, <1>4, CalmFailed
<1>5. CASE Becomes(w, CustomerDone(s))
  <2>1. HeldBy(s, remote', contacts', docs')
    BY <1>2, <1>3 DEF henrri
  <2> QED
    BY <1>1, <1>2, <1>5, <2>1, CalmDone
<1> QED
  BY <1>3, <1>4, <1>5

\* The customer created, with its contact, was not at Henrri.
LEMMA CreateCustomerCalm ==
    ASSUME UploadsOK, CalmOK, calm, NEW w \in Workers, NEW c \in Customers, CreateCustomer(w, c)
    PROVE  CalmOK'
<1> DEFINE q == worker[w]
           s == [q EXCEPT !.todo = @ \ {c}, !.customer = c]
           a == [s EXCEPT !.got = With(@, c, remote[c] + 1)]
           b == [a EXCEPT !.gotContact = With(@, c, contacts[c] + 1)]
<1>1. ~Free(w) /\ q.pc = "customer" /\ c \in q.todo /\ Known(w, c) = 0 /\ c \in Rows
      /\ UNCHANGED <<buyer, items, ids, contactIds, lineIds>>
  BY Kinds DEF CreateCustomer, Free, local
<1>2. Shape(q) /\ Pace(q) /\ HeldBy(q, remote, contacts, docs)
  BY <1>1, InSession DEF CalmOK
<1>3. Takes(s, q, c)
  <2>1. s = [q EXCEPT !.todo = @ \ {c}, !.customer = c]
    OBVIOUS
  <2> HIDE DEF s, q
  <2> QED
    BY <1>1, <1>2, <2>1, Taken, Zenon
<1>4. \A x \in s.todo : x \notin DOMAIN s.gotContact
  BY <1>1, <1>2, <1>3 DEF Takes, Pace
<1>5. /\ remote \in [Customers \union Products -> Nat] /\ contacts \in [Customers -> Nat]
      /\ remote[c] = 0 /\ contacts[c] = 0
  <2>1. Id(q, c, ids[c]) = 0
    BY <1>1, CalmKnown
  <2> QED
    BY <1>2, <2>1 DEF UploadsOK, DataOK, HeldBy
<1>6. \/ Becomes(w, Failed(s)) /\ UNCHANGED henrri
      \/ /\ remote' = [remote EXCEPT ![c] = @ + 1]
         /\ contacts' = [contacts EXCEPT ![c] = @ + 1]
         /\ docs' = docs
         /\ Becomes(w, CustomerDone([s EXCEPT !.got = With(@, c, remote'[c]),
                                              !.gotContact = With(@, c, contacts'[c])]))
  BY DEF CreateCustomer
<1> HIDE DEF s
<1>7. CASE Becomes(w, Failed(s)) /\ UNCHANGED henrri
  BY <1>1, <1>3, <1>4, <1>7, CalmFailed DEF Takes
<1>8. CASE /\ remote' = [remote EXCEPT ![c] = @ + 1]
           /\ contacts' = [contacts EXCEPT ![c] = @ + 1]
           /\ docs' = docs
           /\ Becomes(w, CustomerDone([s EXCEPT !.got = With(@, c, remote'[c]),
                                                !.gotContact = With(@, c, contacts'[c])]))
  <2>1. /\ remote'[c] = 1 /\ contacts'[c] = 1 /\ remote[c] + 1 = 1 /\ contacts[c] + 1 = 1
        /\ \A e \in Customers \union Products : e # c => remote'[e] = remote[e]
        /\ \A e \in Customers : e # c => contacts'[e] = contacts[e]
    BY <1>5, <1>8
  <2>2. Becomes(w, CustomerDone([s EXCEPT !.got = With(@, c, remote[c] + 1),
                                          !.gotContact = With(@, c, contacts[c] + 1)]))
    BY <1>8, <2>1
  <2>3. Shape(s) /\ s \in SessionRows /\ s.got \in SomeNumbers /\ s.gotContact \in SomeNumbers
    BY <1>3 DEF Takes, Shape, SessionRows
  <2>4. /\ Shape(a) /\ a.pc = s.pc /\ a.invoice = s.invoice /\ a.seen = s.seen /\ a.todo = s.todo
        /\ a.made = s.made /\ a.gotContact = s.gotContact /\ a.got = With(s.got, c, remote[c] + 1)
    BY <1>5, <2>3, GainedApart
  <2>5. b = [s EXCEPT !.got = With(@, c, remote[c] + 1), !.gotContact = With(@, c, contacts[c] + 1)]
    BY <2>3 DEF SessionRows
  <2> HIDE DEF a
  <2>6. /\ Shape(b) /\ b.pc = a.pc /\ b.invoice = a.invoice /\ b.got = a.got /\ b.todo = a.todo
        /\ b.seen = a.seen /\ b.made = a.made
        /\ b.gotContact = With(a.gotContact, c, contacts[c] + 1)
    BY <1>5, <2>4, GainedContact
  <2>7. Becomes(w, CustomerDone(b))
    BY <2>2, <2>5
  <2> HIDE DEF b
  <2>8. /\ b.got = With(s.got, c, 1) /\ b.gotContact = With(s.gotContact, c, 1)
        /\ b.invoice = q.invoice /\ b.made = q.made /\ b.seen = q.seen /\ b.pc = "customer"
        /\ b.todo = s.todo /\ s.got = q.got /\ s.gotContact = q.gotContact
    BY <1>3, <2>1, <2>4, <2>6 DEF Takes
  <2>9. /\ DOMAIN b.got = DOMAIN s.got \union {c} /\ b.got[c] = 1
        /\ \A x \in DOMAIN s.got : x # c => b.got[x] = s.got[x]
        /\ DOMAIN b.gotContact = DOMAIN s.gotContact \union {c} /\ b.gotContact[c] = 1
        /\ \A x \in DOMAIN s.gotContact : x # c => b.gotContact[x] = s.gotContact[x]
    BY <2>8 DEF With
  <2> HIDE DEF q
  <2>10. /\ \A e, n : e # c => Id(b, e, n) = Id(q, e, n) /\ ContactId(b, e, n) = ContactId(q, e, n)
         /\ \A n : Id(b, c, n) = 1 /\ ContactId(b, c, n) = 1
         /\ \A i : Has(b, i) = Has(q, i)
    BY <2>8, <2>9 DEF Id, ContactId, Has
  <2>11. \A i \in Invoices : i # c
    BY Kinds
  <2>12. HeldBy(b, remote', contacts', docs')
    BY <1>2, <1>8, <2>1, <2>10, <2>11 DEF HeldBy
  <2>13. \A x \in b.todo : x \notin DOMAIN b.gotContact
    <3>1. c \notin b.todo
      BY <1>3, <2>8 DEF Takes
    <3> QED
      BY <1>4, <2>8, <2>9, <3>1
  <2> QED
    BY <1>1, <2>6, <2>7, <2>8, <2>12, <2>13, CalmDone DEF q
<1> QED
  BY <1>6, <1>7, <1>8

\* A product of the invoice is done.
LEMMA CalmProduct ==
    ASSUME UploadsOK, CalmOK, NEW w \in Workers, ~Free(w), NEW s, NEW p,
           Becomes(w, ProductDone(s, p)),
           UNCHANGED <<buyer, items, ids, contactIds, lineIds>>,
           Shape(s), s.pc = "products", s.seen = worker[w].seen,
           HeldBy(s, remote', contacts', docs')
    PROVE  CalmOK'
<1> DEFINE left == s.todo \ {p}
           pc == IF left = {} THEN "document" ELSE s.pc
           r == [s EXCEPT !.todo = left, !.pc = pc]
<1>1. Pace(worker[w]) /\ s \in SessionRows
  BY DEF CalmOK, Shape
<1>2. Becomes(w, r) /\ pc \in {"products", "document"}
  BY DEF ProductDone
<1> HIDE DEF left, pc
<1>3. /\ r.got = s.got /\ r.gotContact = s.gotContact /\ r.invoice = s.invoice
      /\ r.made = s.made /\ r.seen = s.seen /\ r.pc = pc
  BY <1>1 DEF SessionRows
<1> HIDE DEF r
<1>4. Pace(r)
  BY <1>1, <1>2, <1>3 DEF Pace
<1>5. HeldBy(r, remote', contacts', docs')
  BY <1>3, SameHeld
<1> QED
  BY <1>2, <1>3, <1>4, <1>5, CalmStep

\* The product created was not at Henrri.
LEMMA UpsertProductCalm ==
    ASSUME UploadsOK, CalmOK, calm, NEW w \in Workers, NEW p \in Products, UpsertProduct(w, p)
    PROVE  CalmOK'
<1> DEFINE s == worker[w]
           r == [s EXCEPT !.got = With(@, p, remote[p] + 1)]
<1>1. ~Free(w) /\ s.pc = "products" /\ p \in Rows /\ UNCHANGED <<buyer, items, ids, contactIds, lineIds>>
  BY Kinds DEF UpsertProduct, Free, local
<1>2. Shape(s) /\ s.invoice # None /\ Pace(s) /\ HeldBy(s, remote, contacts, docs)
      /\ s.got \in SomeNumbers
  BY <1>1, InSession, Kinds DEF Shape, CalmOK, SessionRows
<1>3. \/ Becomes(w, Failed(s)) /\ UNCHANGED henrri
      \/ Becomes(w, ProductDone(s, p)) /\ UNCHANGED henrri
      \/ /\ Known(w, p) = 0 /\ remote' = [remote EXCEPT ![p] = @ + 1]
         /\ UNCHANGED <<contacts, docs>>
         /\ Becomes(w, ProductDone([s EXCEPT !.got = With(@, p, remote'[p])], p))
  BY DEF UpsertProduct, Refused
<1>4. CASE Becomes(w, Failed(s)) /\ UNCHANGED henrri
  BY <1>1, <1>2, <1>4, CalmFailed
<1>5. CASE Becomes(w, ProductDone(s, p)) /\ UNCHANGED henrri
  <2>1. HeldBy(s, remote', contacts', docs')
    BY <1>2, <1>5 DEF henrri
  <2> QED
    BY <1>1, <1>2, <1>5, <2>1, CalmProduct
<1>6. CASE /\ Known(w, p) = 0 /\ remote' = [remote EXCEPT ![p] = @ + 1]
           /\ UNCHANGED <<contacts, docs>>
           /\ Becomes(w, ProductDone([s EXCEPT !.got = With(@, p, remote'[p])], p))
  <2>1. /\ remote'[p] = 1 /\ remote[p] + 1 = 1
        /\ \A e \in Customers \union Products : e # p => remote'[e] = remote[e]
    <3>1. Id(s, p, ids[p]) = 0
      BY <1>1, <1>6, CalmKnown
    <3>2. remote[p] = 0 /\ remote \in [Customers \union Products -> Nat]
      BY <1>2, <3>1 DEF HeldBy, UploadsOK, DataOK
    <3> QED
      BY <1>6, <3>2
  <2>2. Becomes(w, ProductDone(r, p))
    BY <1>6, <2>1
  <2>3. /\ Shape(r) /\ r.pc = s.pc /\ r.invoice = s.invoice /\ r.seen = s.seen
        /\ r.made = s.made /\ r.gotContact = s.gotContact /\ r.got = With(s.got, p, 1)
    BY <1>2, <2>1, GainedApart
  <2>4. /\ DOMAIN r.got = DOMAIN s.got \union {p} /\ r.got[p] = 1
        /\ \A x \in DOMAIN s.got : x # p => r.got[x] = s.got[x]
    BY <2>3 DEF With
  <2> HIDE DEF r, s
  <2>5. /\ \A e, n : e # p => Id(r, e, n) = Id(s, e, n)
        /\ \A e, n : ContactId(r, e, n) = ContactId(s, e, n)
        /\ \A n : Id(r, p, n) = 1
        /\ \A i : Has(r, i) = Has(s, i)
    BY <2>3, <2>4 DEF Id, ContactId, Has
  <2>6. (\A i \in Invoices : i # p) /\ (\A c \in Customers : c # p)
    BY Kinds
  <2>7. HeldBy(r, remote', contacts', docs')
    BY <1>2, <1>6, <2>1, <2>5, <2>6 DEF HeldBy
  <2> QED
    BY <1>1, <2>2, <2>3, <2>7, CalmProduct DEF s
<1> QED
  BY <1>3, <1>4, <1>5, <1>6

\* The header of the document is there: the lines still to be created are not.
LEMMA CalmHeader ==
    ASSUME UploadsOK, CalmOK, NEW w \in Workers, ~Free(w), NEW s, Becomes(w, HeaderDone(s)),
           UNCHANGED <<buyer, items, ids, contactIds, lineIds>>,
           Shape(s), s.seen = worker[w].seen, HeldBy(s, remote', contacts', docs')
    PROVE  CalmOK'
<1> DEFINE todo == LinesTodo(s)
           pc == IF LinesTodo(s) = {} THEN "finalize" ELSE "lines"
           r == HeaderDone(s)
<1>1. Pace(worker[w]) /\ s \in SessionRows
  BY DEF CalmOK, Shape
<1>2. /\ r = [s EXCEPT !.todo = todo, !.pc = pc] /\ pc \in {"finalize", "lines"}
      /\ \A p \in todo : p \notin s.seenLines \union s.made
  BY DEF HeaderDone, LinesTodo
<1> HIDE DEF todo, pc, r
<1>3. /\ r.got = s.got /\ r.gotContact = s.gotContact /\ r.invoice = s.invoice
      /\ r.made = s.made /\ r.seen = s.seen /\ r.seenLines = s.seenLines /\ r.pc = pc /\ r.todo = todo
  BY <1>1, <1>2 DEF SessionRows
<1>4. Pace(r)
  BY <1>1, <1>2, <1>3 DEF Pace
<1>5. HeldBy(r, remote', contacts', docs')
  BY <1>3, SameHeld
<1>6. Becomes(w, r) /\ r.pc # "idle"
  BY <1>2, <1>3 DEF r
<1> QED
  BY <1>4, <1>5, <1>6, CalmStep

\* The update of a header creates nothing.
LEMMA UpdateDocumentCalm ==
    ASSUME UploadsOK, CalmOK, NEW w \in Workers, UpdateDocument(w)
    PROVE  CalmOK'
<1> DEFINE s == worker[w]
           d == Known(w, s.invoice)
<1>1. ~Free(w) /\ s.pc = "document" /\ UNCHANGED <<buyer, items, ids, contactIds, lineIds, henrri>>
      /\ UNCHANGED <<remote, contacts, docs>>
  BY DEF UpdateDocument, Free, local, henrri
<1>2. Shape(s) /\ s.invoice # None /\ HeldBy(s, remote, contacts, docs)
      /\ HeldBy(s, remote', contacts', docs')
  BY <1>1, InSession, Kinds DEF Shape, CalmOK
<1>3. Becomes(w, Failed(s)) \/ Becomes(w, Succeeded(s, d)) \/ Becomes(w, HeaderDone(s))
  BY DEF UpdateDocument
<1> HIDE DEF d
<1>4. CASE Becomes(w, Failed(s))
  BY <1>1, <1>2, <1>4, CalmFailed
<1>5. CASE Becomes(w, Succeeded(s, d))
  BY <1>1, <1>2, <1>5, CalmSucceeded
<1>6. CASE Becomes(w, HeaderDone(s))
  BY <1>1, <1>2, <1>6, CalmHeader
<1> QED
  BY <1>3, <1>4, <1>5, <1>6

\* The decision after the candidates creates nothing.
LEMMA DecideCalm ==
    ASSUME UploadsOK, CalmOK, NEW w \in Workers, Decide(w)
    PROVE  CalmOK'
<1> DEFINE s == worker[w]
           todo == {buyer[s.invoice]}
           d == s.seen[s.invoice]
           r == [s EXCEPT !.pc = "customer", !.todo = todo]
<1>1. ~Free(w) /\ s.pc = "lookup" /\ UNCHANGED <<buyer, items, ids, contactIds, lineIds, henrri>>
      /\ UNCHANGED <<remote, contacts, docs>>
  BY DEF Decide, Free, local, henrri
<1>2. /\ Shape(s) /\ s.invoice \in Invoices /\ Pace(s) /\ HeldBy(s, remote, contacts, docs)
      /\ HeldBy(s, remote', contacts', docs')
  BY <1>1, InSession, Kinds DEF Shape, CalmOK
<1>3. Becomes(w, Succeeded(s, d)) \/ Becomes(w, r)
  BY DEF Decide
<1> HIDE DEF d, todo
<1>4. CASE Becomes(w, Succeeded(s, d))
  BY <1>1, <1>2, <1>4, CalmSucceeded
<1>5. CASE Becomes(w, r)
  <2>1. /\ r.got = s.got /\ r.gotContact = s.gotContact /\ r.invoice = s.invoice
        /\ r.made = s.made /\ r.seen = s.seen /\ r.pc = "customer" /\ r.todo = todo
    BY <1>2 DEF Shape, SessionRows
  <2> HIDE DEF r
  <2>2. \A c \in todo : c \notin DOMAIN s.gotContact
    BY <1>1, <1>2 DEF Pace
  <2>3. Pace(r)
    BY <1>2, <2>1, <2>2 DEF Pace
  <2>4. HeldBy(r, remote', contacts', docs')
    BY <1>2, <2>1, SameHeld
  <2> QED
    BY <1>1, <1>5, <2>1, <2>3, <2>4, CalmStep
<1> QED
  BY <1>3, <1>4, <1>5

\* A candidate adopted is the one document of the invoice, which is known.
LEMMA LookupCalm ==
    ASSUME UploadsOK, CalmOK, NEW w \in Workers, Lookup(w)
    PROVE  CalmOK'
<1> DEFINE s == worker[w]
           i == s.invoice
           d == Head(s.todo)
           rest == Tail(s.todo)
           g == With(s.got, i, d)
           a == [s EXCEPT !.got = g]
           r == [s EXCEPT !.todo = rest]
<1>1. ~Free(w) /\ s.pc = "lookup" /\ s.todo # <<>>
      /\ UNCHANGED <<buyer, items, ids, contactIds, lineIds, henrri>>
      /\ UNCHANGED <<remote, contacts, docs>>
  BY DEF Lookup, Free, local, henrri
<1>2. /\ Shape(s) /\ s \in SessionRows /\ s.got \in SomeNumbers /\ i \in Invoices /\ i \in Rows
      /\ Pace(s) /\ HeldBy(s, remote, contacts, docs) /\ HeldBy(s, remote', contacts', docs')
      /\ \A e \in Customers \union Products : e # i
  BY <1>1, InSession, Kinds DEF Shape, CalmOK, SessionRows
<1>3. \/ d # 0 /\ Becomes(w, Succeeded(a, d))
      \/ Becomes(w, r)
  BY DEF Lookup
<1>4. s.todo \in Seq(0 .. Len(docs[i])) /\ i \notin DOMAIN s.got /\ Len(docs[i]) \in Nat
  BY <1>1, <1>2, InSession, LenProperties DEF UploadOK, Stage, UploadsOK, DataOK
<1>5. d \in 0 .. Len(docs[i])
  BY <1>1, <1>4, HeadTailProperties
<1> HIDE DEF d, rest
<1>6. CASE d # 0 /\ Becomes(w, Succeeded(a, d))
  <2>1. d = Len(docs[i]) /\ d = Id(s, i, ids[i])
    BY <1>2, <1>4, <1>5, <1>6 DEF HeldBy
  <2>2. g \in SomeNumbers /\ DOMAIN g = DOMAIN s.got \union {i} /\ g[i] = d
        /\ \A x \in DOMAIN s.got : x # i => g[x] = s.got[x]
    <3>1. d \in Nat
      BY <1>4, <1>5
    <3> HIDE DEF s, i
    <3> QED
      BY <1>2, <3>1, Gained
  <2> HIDE DEF g
  <2>3. /\ a.got = g /\ a.pc = s.pc /\ a.invoice = i /\ a.seen = s.seen /\ a.made = s.made
        /\ a.gotContact = s.gotContact /\ a \in SessionRows
    BY <1>2, <2>2 DEF SessionRows
  <2> HIDE DEF a
  <2>4. Shape(a)
    <3>1. /\ a.pc = "lookup" /\ a.invoice \in Invoices
          /\ DOMAIN a.got \intersect Invoices \subseteq {a.invoice}
      BY <1>1, <1>2, <2>2, <2>3 DEF Shape
    <3> QED
      BY <2>3, <3>1 DEF Shape
  <2>5. /\ \A e, n : e # i => Id(a, e, n) = Id(s, e, n)
        /\ Id(a, i, ids[i]) = Id(s, i, ids[i])
        /\ \A e, n : ContactId(a, e, n) = ContactId(s, e, n)
        /\ \A k : Has(a, k) = Has(s, k)
    BY <2>1, <2>2, <2>3 DEF Id, ContactId, Has
  <2>6. HeldBy(a, remote', contacts', docs')
    <3>1. (\A k \in Invoices : Id(a, k, ids[k]) = Id(s, k, ids[k]))
          /\ \A e \in Customers \union Products : Id(a, e, ids[e]) = Id(s, e, ids[e])
      BY <1>2, <2>5
    <3> HIDE DEF s
    <3> QED
      BY <1>2, <2>5, <3>1 DEF HeldBy
  <2> QED
    BY <1>1, <1>6, <2>3, <2>4, <2>6, CalmSucceeded
<1>7. CASE Becomes(w, r)
  <2>1. /\ r.got = s.got /\ r.gotContact = s.gotContact /\ r.invoice = s.invoice
        /\ r.made = s.made /\ r.seen = s.seen /\ r.pc = "lookup"
    BY <1>1, <1>2 DEF SessionRows
  <2> HIDE DEF r
  <2>2. Pace(r)
    BY <1>1, <1>2, <2>1 DEF Pace
  <2>3. HeldBy(r, remote', contacts', docs')
    BY <1>2, <2>1, SameHeld
  <2> QED
    BY <1>1, <1>7, <2>1, <2>2, <2>3, CalmStep
<1> QED
  BY <1>3, <1>6, <1>7

\* A session that changes its document, and what it knows of it.
LEMMA DocumentHeld ==
    ASSUME NEW s, NEW r, NEW i \in Invoices, NEW rem, NEW con, NEW ds, NEW new,
           HeldBy(s, rem, con, ds), s.invoice = i, r.invoice = i, r.gotContact = s.gotContact,
           \A e \in Rows : e # i => Id(r, e, ids[e]) = Id(s, e, ids[e]),
           \A k \in Invoices : k # i => new[k] = ds[k],
           Len(new[i]) = 1, Id(r, i, ids[i]) = 1,
           \A p \in items[i] :
               new[i][1].lines[p] = IF p \in lineIds[i] \union r.made THEN 1 ELSE 0
    PROVE  HeldBy(r, rem, con, new)
<1>1. ASSUME NEW e \in Customers \union Products
      PROVE  rem[e] = Id(r, e, ids[e]) /\ rem[e] <= 1
  <2>1. e # i /\ e \in Rows
    BY Kinds
  <2> QED
    BY <2>1 DEF HeldBy
<1>2. ASSUME NEW c \in Customers
      PROVE  con[c] = rem[c] /\ con[c] = ContactId(r, c, contactIds[c])
  BY DEF HeldBy, ContactId
<1>3. ASSUME NEW k \in Invoices, k # i
      PROVE  /\ Len(new[k]) = Id(r, k, ids[k]) /\ Len(new[k]) <= 1
             /\ Len(new[k]) = 1 =>
                  \A p \in items[k] : new[k][1].lines[p] = IF p \in Has(r, k) THEN 1 ELSE 0
  <2>1. k \in Rows /\ Has(r, k) = Has(s, k) /\ new[k] = ds[k]
    BY <1>3, Kinds DEF Has
  <2> QED
    BY <1>3, <2>1 DEF HeldBy
<1>4. ASSUME NEW k \in Invoices, k = i
      PROVE  /\ Len(new[k]) = Id(r, k, ids[k]) /\ Len(new[k]) <= 1
             /\ Len(new[k]) = 1 =>
                  \A p \in items[k] : new[k][1].lines[p] = IF p \in Has(r, k) THEN 1 ELSE 0
  <2>1. Has(r, k) = lineIds[k] \union r.made
    BY <1>4 DEF Has
  <2>2. Len(new[k]) = 1 /\ Id(r, k, ids[k]) = 1
    BY <1>4
  <2>3. ASSUME NEW p \in items[k]
        PROVE  new[k][1].lines[p] = IF p \in lineIds[k] \union r.made THEN 1 ELSE 0
    BY <1>4, Zenon
  <2>4. 1 <= 1
    OBVIOUS
  <2> QED
    BY <2>1, <2>2, <2>3, <2>4
<1>5. ASSUME NEW k \in Invoices
      PROVE  /\ Len(new[k]) = Id(r, k, ids[k]) /\ Len(new[k]) <= 1
             /\ Len(new[k]) = 1 =>
                  \A p \in items[k] : new[k][1].lines[p] = IF p \in Has(r, k) THEN 1 ELSE 0
  BY <1>3, <1>4
<1> QED
  BY <1>1, <1>2, <1>5, Zenon DEF HeldBy

\* The document created is the first of its invoice.
LEMMA CreateDocumentCalm ==
    ASSUME UploadsOK, CalmOK, calm, NEW w \in Workers, CreateDocument(w)
    PROVE  CalmOK'
<1> DEFINE s == worker[w]
           i == s.invoice
           doc == [finalized |-> FALSE, lines |-> [p \in Products |-> 0]]
           new == Append(docs[i], doc)
           g == With(s.got, i, 1)
           a == [s EXCEPT !.got = g]
<1>1. ~Free(w) /\ s.pc = "document" /\ Known(w, i) = 0
      /\ UNCHANGED <<buyer, items, ids, contactIds, lineIds, remote, contacts>>
  BY DEF CreateDocument, Free, local, henrri, Refused
<1>2. /\ Shape(s) /\ s \in SessionRows /\ s.got \in SomeNumbers /\ i \in Invoices /\ i \in Rows
      /\ i # None /\ HeldBy(s, remote, contacts, docs)
      /\ \A e \in Customers \union Products : e # i
  BY <1>1, InSession, Kinds DEF Shape, CalmOK, SessionRows
<1>3. \/ Becomes(w, Failed(s)) /\ UNCHANGED henrri
      \/ /\ docs' = [docs EXCEPT ![i] = new]
         /\ Becomes(w, HeaderDone([s EXCEPT !.got = With(@, i, Len(docs'[i]))]))
  BY DEF CreateDocument, Refused
<1>4. CASE Becomes(w, Failed(s)) /\ UNCHANGED henrri
  BY <1>1, <1>2, <1>4, CalmFailed
<1>5. CASE /\ docs' = [docs EXCEPT ![i] = new]
           /\ Becomes(w, HeaderDone([s EXCEPT !.got = With(@, i, Len(docs'[i]))]))
  <2>1. Len(docs[i]) = 0 /\ Id(s, i, ids[i]) = 0
    <3>1. Id(s, i, ids[i]) = 0
      BY <1>1, <1>2, CalmKnown
    <3> QED
      BY <1>2, <3>1 DEF HeldBy
  <2>2. s.made = {} /\ lineIds[i] = {}
    <3>1. UploadOK(s, i, ids[i], lineIds[i], docs[i], items[i])
      BY <1>1, <1>2, InSession
    <3> QED
      BY <1>1, <2>1, <3>1 DEF UploadOK, Base, Stage, Bears
  <2>3. /\ docs \in [Invoices -> Seq(DocRow)] /\ doc \in DocRow /\ items[i] \subseteq Products
        /\ \A p \in Products : doc.lines[p] = 0
    BY <1>2 DEF UploadsOK, DataOK, DocRow
  <2> HIDE DEF doc
  <2>4. Len(new) = 1 /\ new[1] = doc
    BY <1>2, <2>1, <2>3, AppendProperties
  <2> HIDE DEF new
  <2>5. docs'[i] = new /\ \A k \in Invoices : k # i => docs'[k] = docs[k]
    BY <1>2, <1>5, <2>3
  <2>6. Becomes(w, HeaderDone(a))
    BY <1>5, <2>4, <2>5
  <2>7. g \in SomeNumbers /\ DOMAIN g = DOMAIN s.got \union {i} /\ g[i] = 1
        /\ \A x \in DOMAIN s.got : x # i => g[x] = s.got[x]
    <3>1. PICK n \in Nat : n = 1
      OBVIOUS
    <3> HIDE DEF s, i
    <3> QED
      BY <1>2, <3>1, Gained
  <2> HIDE DEF g
  <2>8. /\ a.got = g /\ a.pc = s.pc /\ a.invoice = i /\ a.seen = s.seen /\ a.made = s.made
        /\ a.gotContact = s.gotContact /\ a \in SessionRows
    BY <1>2, <2>7 DEF SessionRows
  <2> HIDE DEF a
  <2>9. Shape(a)
    <3>1. /\ a.pc = "document" /\ a.invoice \in Invoices
          /\ DOMAIN a.got \intersect Invoices \subseteq {a.invoice}
      BY <1>1, <1>2, <2>7, <2>8 DEF Shape
    <3> QED
      BY <2>8, <3>1 DEF Shape
  <2>10. /\ \A e, n : e # i => Id(a, e, n) = Id(s, e, n)
         /\ \A n : Id(a, i, n) = 1
         /\ \A e, n : ContactId(a, e, n) = ContactId(s, e, n)
         /\ \A k : Has(a, k) = Has(s, k)
         /\ Has(s, i) = {}
    BY <2>2, <2>7, <2>8 DEF Id, ContactId, Has
  <2>11. HeldBy(a, remote', contacts', docs')
    <3>1. /\ Len(docs'[i]) = 1 /\ Id(a, i, ids[i]) = 1
          /\ \A p \in items[i] :
               docs'[i][1].lines[p] = IF p \in lineIds[i] \union a.made THEN 1 ELSE 0
      BY <2>2, <2>3, <2>4, <2>5, <2>8, <2>10
    <3>2. \A e \in Rows : e # i => Id(a, e, ids[e]) = Id(s, e, ids[e])
      BY <2>10
    <3>3. HeldBy(s, remote', contacts', docs) /\ s.invoice = i
      BY <1>1, <1>2
    <3> HIDE DEF s, i
    <3> QED
      BY <1>2, <2>5, <2>8, <3>1, <3>2, <3>3, DocumentHeld
  <2> QED
    BY <1>1, <2>6, <2>8, <2>9, <2>11, CalmHeader
<1> QED
  BY <1>3, <1>4, <1>5

\* The finalization creates nothing.
LEMMA FinalizeCalm ==
    ASSUME UploadsOK, CalmOK, calm, NEW w \in Workers, Finalize(w)
    PROVE  CalmOK'
<1> DEFINE s == worker[w]
           i == s.invoice
           d == Known(w, i)
           doc == [docs[i][1] EXCEPT !.finalized = TRUE]
           new == [docs[i] EXCEPT ![1] = doc]
<1>1. ~Free(w) /\ s.pc = "finalize" /\ UNCHANGED <<buyer, items, ids, contactIds, lineIds, remote, contacts>>
  BY DEF Finalize, Free, local, henrri, Refused
<1>2. /\ Shape(s) /\ i \in Invoices /\ i \in Rows /\ i # None /\ HeldBy(s, remote, contacts, docs)
  BY <1>1, InSession, Kinds DEF Shape, CalmOK
<1>3. \/ Becomes(w, Failed(s)) /\ UNCHANGED henrri
      \/ /\ docs' = [docs EXCEPT ![i][d].finalized = TRUE]
         /\ Becomes(w, Succeeded(s, d))
  BY DEF Finalize, Refused
<1>4. CASE Becomes(w, Failed(s)) /\ UNCHANGED henrri
  BY <1>1, <1>2, <1>4, CalmFailed
<1>5. CASE /\ docs' = [docs EXCEPT ![i][d].finalized = TRUE]
           /\ Becomes(w, Succeeded(s, d))
  <2>1. d = 1 /\ Len(docs[i]) = 1 /\ Id(s, i, ids[i]) = 1
        /\ \A p \in items[i] : docs[i][1].lines[p] = IF p \in Has(s, i) THEN 1 ELSE 0
    <3>1. d = Id(s, i, ids[i])
      BY <1>1, <1>2, CalmKnown
    <3>2. d # 0
      BY <1>1, <1>2, <3>1, InSession DEF UploadOK, Stage
    <3>3. /\ Len(docs[i]) = Id(s, i, ids[i]) /\ Len(docs[i]) <= 1
          /\ Len(docs[i]) = 1 =>
               \A p \in items[i] : docs[i][1].lines[p] = IF p \in Has(s, i) THEN 1 ELSE 0
      BY <1>2 DEF HeldBy
    <3>4. Len(docs[i]) \in Nat
      BY <1>2, LenProperties DEF UploadsOK, DataOK
    <3> QED
      BY <3>1, <3>2, <3>3, <3>4
  <2>2. docs \in [Invoices -> Seq(DocRow)] /\ docs[i] \in Seq(DocRow) /\ items[i] \subseteq Products
        /\ docs[i][1] \in DocRow
    <3>1. docs[i] \in Seq(DocRow) /\ docs \in [Invoices -> Seq(DocRow)] /\ items[i] \subseteq Products
      BY <1>2 DEF UploadsOK, DataOK
    <3> QED
      BY <2>1, <3>1, LenProperties
  <2>3. docs' = [docs EXCEPT ![i] = new]
    BY <1>5, <2>1
  <2>4. doc \in DocRow /\ doc.lines = docs[i][1].lines
    BY <2>2 DEF DocRow
  <2> HIDE DEF doc
  <2>5. Len(new) = 1 /\ new[1] = doc
    BY <2>1, <2>2, <2>4, ExceptSeq
  <2> HIDE DEF new
  <2>6. docs'[i] = new /\ \A k \in Invoices : k # i => docs'[k] = docs[k]
    BY <1>2, <2>2, <2>3
  <2>7. Becomes(w, Succeeded(s, d))
    BY <1>5
  <2> HIDE DEF d
  <2>8. HeldBy(s, remote, contacts, docs')
    <3>1. Has(s, i) = lineIds[i] \union s.made
      BY DEF Has
    <3>2. \A p \in items[i] :
               docs'[i][1].lines[p] = IF p \in lineIds[i] \union s.made THEN 1 ELSE 0
      BY <2>1, <2>4, <2>5, <2>6, <3>1
    <3>3. s.invoice = i /\ Len(docs'[i]) = 1
      BY <2>5, <2>6
    <3> HIDE DEF s, i
    <3> QED
      BY <1>2, <2>1, <2>6, <3>2, <3>3, DocumentHeld
  <2> QED
    BY <1>1, <1>2, <2>7, <2>8, CalmSucceeded
<1> QED
  BY <1>3, <1>4, <1>5

\* The line created was not on the document.
LEMMA CreateLineCalm ==
    ASSUME UploadsOK, CalmOK, calm, NEW w \in Workers, NEW p \in Products, CreateLine(w, p)
    PROVE  CalmOK'
<1> DEFINE s == worker[w]
           i == s.invoice
           d == Known(w, i)
           left == s.todo \ {p}
           made == s.made \union {p}
           pc == IF left = {} THEN "finalize" ELSE s.pc
           r == [s EXCEPT !.todo = left, !.made = made, !.pc = pc]
           lns == [docs[i][1].lines EXCEPT ![p] = @ + 1]
           doc == [docs[i][1] EXCEPT !.lines = lns]
           new == [docs[i] EXCEPT ![1] = doc]
<1>1. ~Free(w) /\ s.pc = "lines" /\ p \in s.todo
      /\ UNCHANGED <<buyer, items, ids, contactIds, lineIds, remote, contacts>>
  BY DEF CreateLine, Free, local, henrri, Refused
<1>2. /\ Shape(s) /\ s \in SessionRows /\ i \in Invoices /\ i \in Rows /\ i # None
      /\ HeldBy(s, remote, contacts, docs) /\ Pace(s)
  BY <1>1, InSession, Kinds DEF Shape, CalmOK
<1>3. \/ Becomes(w, Failed(s)) /\ UNCHANGED henrri
      \/ /\ docs' = [docs EXCEPT ![i][d].lines[p] = @ + 1]
         /\ Becomes(w, r)
  BY DEF CreateLine, Refused
<1>4. CASE Becomes(w, Failed(s)) /\ UNCHANGED henrri
  BY <1>1, <1>2, <1>4, CalmFailed
<1>5. CASE /\ docs' = [docs EXCEPT ![i][d].lines[p] = @ + 1]
           /\ Becomes(w, r)
  <2>1. d = 1 /\ Len(docs[i]) = 1 /\ Id(s, i, ids[i]) = 1 /\ s.seenLines = lineIds[i]
        /\ \A o \in items[i] : docs[i][1].lines[o] = IF o \in Has(s, i) THEN 1 ELSE 0
    <3>1. d = Id(s, i, ids[i])
      BY <1>1, <1>2, CalmKnown
    <3>2. d # 0 /\ s.seenLines = lineIds[i]
      BY <1>1, <1>2, <3>1, InSession DEF UploadOK, Stage, Base
    <3>3. /\ Len(docs[i]) = Id(s, i, ids[i]) /\ Len(docs[i]) <= 1
          /\ Len(docs[i]) = 1 =>
               \A o \in items[i] : docs[i][1].lines[o] = IF o \in Has(s, i) THEN 1 ELSE 0
      BY <1>2 DEF HeldBy
    <3>4. Len(docs[i]) \in Nat
      BY <1>2, LenProperties DEF UploadsOK, DataOK
    <3> QED
      BY <3>1, <3>2, <3>3, <3>4
  <2>2. docs \in [Invoices -> Seq(DocRow)] /\ docs[i] \in Seq(DocRow) /\ items[i] \subseteq Products
        /\ docs[i][1] \in DocRow /\ docs[i][1].lines \in [Products -> Nat]
    <3>1. docs[i] \in Seq(DocRow) /\ docs \in [Invoices -> Seq(DocRow)] /\ items[i] \subseteq Products
      BY <1>2 DEF UploadsOK, DataOK
    <3> QED
      BY <2>1, <3>1, LinesType, LenProperties
  <2>3. docs' = [docs EXCEPT ![i] = new]
    BY <1>5, <2>1
  <2>4. /\ lns \in [Products -> Nat] /\ lns[p] = docs[i][1].lines[p] + 1
        /\ \A o \in Products : o # p => lns[o] = docs[i][1].lines[o]
    <3> DEFINE old == docs[i][1].lines
    <3>1. old \in [Products -> Nat] /\ lns = [old EXCEPT ![p] = @ + 1]
      BY <2>2
    <3> HIDE DEF old, lns
    <3>2. /\ lns \in [Products -> Nat] /\ lns[p] = old[p] + 1
          /\ \A o \in Products : o # p => lns[o] = old[o]
      BY <3>1
    <3> QED
      BY <3>2 DEF old
  <2> HIDE DEF lns
  <2>5. doc \in DocRow /\ doc.lines = lns
    BY <2>2, <2>4 DEF DocRow
  <2> HIDE DEF doc
  <2>6. Len(new) = 1 /\ new[1] = doc
    BY <2>1, <2>2, <2>5, ExceptSeq
  <2> HIDE DEF new
  <2>7. docs'[i] = new /\ \A k \in Invoices : k # i => docs'[k] = docs[k]
    BY <1>2, <2>2, <2>3
  <2>8. p \notin lineIds[i] \union s.made /\ pc \in {"lines", "finalize"}
        /\ (pc = "lines" => \A o \in left : o \notin s.seenLines \union made)
    BY <1>1, <1>2, <2>1 DEF Pace
  <2>9. Becomes(w, r)
    BY <1>5
  <2> HIDE DEF d, left, pc
  <2>10. /\ r.pc = pc /\ r.todo = left /\ r.invoice = i /\ r.got = s.got
         /\ r.gotContact = s.gotContact
         /\ r.seen = s.seen /\ r.seenLines = s.seenLines /\ r.made = made
    BY <1>2 DEF SessionRows
  <2> HIDE DEF r
  <2>11. Pace(r)
    BY <1>2, <2>8, <2>10 DEF Pace
  <2>12. HeldBy(r, remote, contacts, docs')
    <3>1. Has(s, i) = lineIds[i] \union s.made
      BY DEF Has
    <3>2. ASSUME NEW o \in items[i]
          PROVE  docs'[i][1].lines[o] = IF o \in lineIds[i] \union r.made THEN 1 ELSE 0
      <4>1. CASE o = p
        BY <2>1, <2>2, <2>4, <2>5, <2>6, <2>7, <2>8, <2>10, <3>1, <4>1
      <4>2. CASE o # p
        BY <2>1, <2>2, <2>4, <2>5, <2>6, <2>7, <2>8, <2>10, <3>1, <4>2
      <4> QED
        BY <4>1, <4>2
    <3>3. s.invoice = i /\ Len(docs'[i]) = 1 /\ Id(r, i, ids[i]) = 1
          /\ \A e \in Rows : e # i => Id(r, e, ids[e]) = Id(s, e, ids[e])
      BY <2>1, <2>6, <2>7, <2>10 DEF Id
    <3> HIDE DEF s, i
    <3> QED
      BY <1>2, <2>7, <2>10, <3>2, <3>3, DocumentHeld
  <2>13. HeldBy(r, remote', contacts', docs') /\ r.pc # "idle"
    BY <1>1, <2>8, <2>10, <2>12
  <2> QED
    BY <1>1, <2>9, <2>11, <2>13, CalmStep
<1> QED
  BY <1>3, <1>4, <1>5

\* A commit writes what the session has, and nobody is left at work.
LEMMA CommitCalm ==
    ASSUME UploadsOK, CalmOK, NEW w \in Workers, Commit(w)
    PROVE  CalmOK'
<1> DEFINE s == worker[w]
           i == s.invoice
<1>1. ~Free(w) /\ UNCHANGED <<buyer, items, remote, contacts, docs>> /\ Becomes(w, Idle)
  BY DEF Commit, Free, henrri
<1>2. /\ Shape(s) /\ HeldBy(s, remote, contacts, docs)
      /\ i \in Invoices \union {None} /\ None \notin Invoices
  BY <1>1, InSession, Kinds DEF CalmOK, Shape, SessionRows
<1>3. \A v \in Workers : worker'[v].pc = "idle"
  BY <1>1 DEF UploadsOK, DataOK, Becomes, CalmOK, Free, Idle
<1>4. \A e \in Rows : ids'[e] = Id(s, e, ids[e])
  BY DEF Commit, Written, Id
<1>5. \A c \in Customers : contactIds'[c] = ContactId(s, c, contactIds[c])
  BY DEF Commit, Written, ContactId
<1>6. \A k \in Invoices : lineIds'[k] = Has(s, k)
  <2>1. lineIds \in [Invoices -> SUBSET Products]
    BY DEF UploadsOK, DataOK
  <2>2. lineIds' = IF i = None THEN lineIds ELSE [lineIds EXCEPT ![i] = @ \union s.made]
    BY DEF Commit
  <2> QED
    BY <1>2, <2>1, <2>2 DEF Has
<1>7. /\ \A e, n : Id(Blank, e, n) = n /\ ContactId(Blank, e, n) = n
      /\ \A k \in Invoices : Has(Blank, k)' = lineIds'[k]
  <2>1. Blank.got = Nothing /\ Blank.gotContact = Nothing /\ DOMAIN Nothing = {}
        /\ Blank.invoice = None /\ Blank.made = {}
    BY DEF Blank, Nothing
  <2> QED
    BY <1>2, <2>1 DEF Id, ContactId, Has
<1>8. ASSUME NEW e \in Customers \union Products
      PROVE  remote'[e] = Id(Blank, e, ids'[e]) /\ remote'[e] <= 1
  <2>1. e \in Rows
    BY DEF Rows
  <2> HIDE DEF s
  <2> QED
    BY <1>1, <1>2, <1>4, <1>7, <2>1 DEF HeldBy
<1>9. ASSUME NEW c \in Customers
      PROVE  contacts'[c] = remote'[c] /\ contacts'[c] = ContactId(Blank, c, contactIds'[c])
  <2> HIDE DEF s
  <2> QED
    BY <1>1, <1>2, <1>5, <1>7 DEF HeldBy
<1>10. ASSUME NEW k \in Invoices
       PROVE  /\ Len(docs'[k]) = Id(Blank, k, ids'[k]) /\ Len(docs'[k]) <= 1
              /\ Len(docs'[k]) = 1 =>
                   \A p \in items'[k] : docs'[k][1].lines[p] = IF p \in Has(Blank, k)' THEN 1 ELSE 0
  <2>1. k \in Rows
    BY Kinds
  <2>2. /\ Len(docs[k]) = Id(s, k, ids[k]) /\ Len(docs[k]) <= 1
        /\ Len(docs[k]) = 1 =>
             \A p \in items[k] : docs[k][1].lines[p] = IF p \in Has(s, k) THEN 1 ELSE 0
    BY <1>2 DEF HeldBy
  <2>3. Id(Blank, k, ids'[k]) = Id(s, k, ids[k]) /\ Has(Blank, k)' = Has(s, k)
    BY <1>4, <1>6, <1>7, <2>1
  <2> QED
    BY <1>1, <2>2, <2>3
<1>11. HeldBy(Blank, remote, contacts, docs)'
  BY <1>8, <1>9, <1>10 DEF HeldBy
<1> QED
  BY <1>3, <1>11 DEF CalmOK, Free

\* A session starts with what the rows have.
LEMMA StartCalm ==
    ASSUME UploadsOK, CalmOK, NEW w \in Workers, \A v \in Workers : Free(v),
           NEW i \in Invoices \union {None}, NEW seen \in SomeNumbers,
           NEW pc \in {"lookup", "customer"}, NEW todo \in Seq(Nat) \union SUBSET Rows,
           pc = "lookup" => i \in Invoices, pc = "customer" => todo \subseteq Customers,
           Becomes(w, Session(pc, i, todo, seen)), \A e \in DOMAIN seen : seen[e] = ids[e],
           UNCHANGED <<buyer, items, ids, contactIds, lineIds, henrri>>
    PROVE  CalmOK'
<1> DEFINE r == Session(pc, i, todo, seen)
<1>1. DataOK
  BY DEF UploadsOK
<1>2. /\ r.pc = pc /\ r.invoice = i /\ r.todo = todo /\ r.seen = seen /\ r.made = {}
      /\ r.got = Nothing /\ r.gotContact = Nothing /\ DOMAIN Nothing = {}
  BY <1>1, NewSession
<1> HIDE DEF r
<1>3. Pace(r)
  BY <1>2 DEF Pace
<1>4. HeldBy(Blank, remote, contacts, docs)
  BY DEF CalmOK
<1>5. HeldBy(r, remote, contacts, docs)
  <2>1. Blank.got = r.got /\ Blank.gotContact = r.gotContact /\ Blank.made = {}
    BY <1>2 DEF Blank
  <2>2. \A k : Has(Blank, k) = lineIds[k] /\ Has(r, k) = lineIds[k]
    BY <1>2, <2>1 DEF Has
  <2>3. \A e, n : Id(r, e, n) = Id(Blank, e, n) /\ ContactId(r, e, n) = ContactId(Blank, e, n)
    BY <2>1 DEF Id, ContactId
  <2> QED
    BY <1>4, <2>2, <2>3 DEF HeldBy
<1>6. HeldBy(r, remote', contacts', docs') /\ r.pc # "idle"
  BY <1>2, <1>5 DEF henrri
<1> QED
  BY <1>3, <1>6, CalmStep DEF r

\* The upload of a new invoice starts from the rows.
LEMMA CreateInvoiceCalm ==
    ASSUME UploadsOK, CalmOK, calm, NEW w \in Workers, NEW i \in Invoices, CreateInvoice(w, i)
    PROVE  CalmOK'
<1> DEFINE todo == {buyer[i]}
<1>1. todo \subseteq Customers /\ todo \in SUBSET Rows
  BY Kinds DEF UploadsOK, DataOK
<1>2. Nothing \in SomeNumbers /\ DOMAIN Nothing = {}
  <2>1. Nothing \in [{} -> Nat] /\ {} \in SUBSET Rows
    BY DEF Nothing
  <2> QED
    BY <2>1 DEF SomeNumbers, Nothing
<1>3. /\ Becomes(w, Session("customer", i, todo, Nothing)) /\ \A v \in Workers : Free(v)
      /\ UNCHANGED <<buyer, items, ids, contactIds, lineIds, henrri>>
  BY DEF CreateInvoice, MayUpload, MayStart
<1> HIDE DEF todo
<1> QED
  BY <1>1, <1>2, <1>3, StartCalm

\* A batch of customers starts from the rows.
LEMMA SyncCustomersCalm ==
    ASSUME UploadsOK, CalmOK, calm, NEW w \in Workers, NEW S \in SUBSET Customers, SyncCustomers(w, S)
    PROVE  CalmOK'
<1> DEFINE seen == Restrict(ids, S)
<1>1. S \in SUBSET Rows /\ DataOK
  BY Kinds DEF UploadsOK
<1>2. seen \in SomeNumbers /\ \A e \in DOMAIN seen : seen[e] = ids[e]
  <2>1. seen \in [S -> Nat] /\ \A e \in S : seen[e] = ids[e]
    BY <1>1 DEF DataOK, Restrict
  <2> QED
    BY <1>1, <2>1 DEF SomeNumbers
<1>3. /\ Becomes(w, Session("customer", None, S, seen)) /\ \A v \in Workers : Free(v)
      /\ UNCHANGED <<buyer, items, ids, contactIds, lineIds, henrri>>
  BY DEF SyncCustomers, MayStart, local
<1> HIDE DEF seen
<1> QED
  BY <1>1, <1>2, <1>3, StartCalm

\* The commit of a link to the shop writes what the session has.
LEMMA LinkToShopCalm ==
    ASSUME UploadsOK, CalmOK, calm, NEW w \in Workers, LinkToShop(w)
    PROVE  CalmOK'
<1> DEFINE s == worker[w]
<1>0. PICK r : r = Renewed(s)
  OBVIOUS
<1>1. /\ ~Free(w) /\ s.pc = "customer" /\ s.invoice = None /\ Becomes(w, r)
      /\ UNCHANGED <<buyer, items, lineIds, remote, contacts, docs>>
      /\ Written(s)
  BY <1>0 DEF LinkToShop, Free, henrri
<1>2. Shape(s) /\ HeldBy(s, remote, contacts, docs) /\ None \notin Invoices
  BY <1>1, InSession, Kinds DEF CalmOK
<1>3. /\ r.pc = "customer" /\ r.invoice = None /\ r.got = Nothing /\ r.gotContact = Nothing
      /\ r.seen = Nothing /\ DOMAIN Nothing = {}
  BY <1>0, <1>1, <1>2, RenewedShape
<1>4. \A e \in Rows : ids'[e] = Id(s, e, ids[e])
  BY <1>1 DEF Written, Id
<1>5. \A c \in Customers : contactIds'[c] = ContactId(s, c, contactIds[c])
  BY <1>1 DEF Written, ContactId
<1>6. /\ \A e, n : Id(r, e, n) = n /\ ContactId(r, e, n) = n
      /\ \A k \in Invoices : Has(r, k)' = lineIds[k] /\ Has(s, k) = lineIds[k]
  BY <1>1, <1>2, <1>3 DEF Id, ContactId, Has
<1>7. HeldBy(r, remote, contacts, docs)'
  <2>1. ASSUME NEW e \in Customers \union Products
        PROVE  remote'[e] = Id(r, e, ids'[e]) /\ remote'[e] <= 1
    <3>1. e \in Rows
      BY DEF Rows
    <3> HIDE DEF s
    <3> QED
      BY <1>1, <1>2, <1>4, <1>6, <3>1 DEF HeldBy
  <2>2. ASSUME NEW c \in Customers
        PROVE  contacts'[c] = remote'[c] /\ contacts'[c] = ContactId(r, c, contactIds'[c])
    <3> HIDE DEF s
    <3> QED
      BY <1>1, <1>2, <1>5, <1>6 DEF HeldBy
  <2>3. ASSUME NEW k \in Invoices
        PROVE  /\ Len(docs'[k]) = Id(r, k, ids'[k]) /\ Len(docs'[k]) <= 1
               /\ Len(docs'[k]) = 1 =>
                    \A p \in items'[k] : docs'[k][1].lines[p] = IF p \in Has(r, k)' THEN 1 ELSE 0
    <3>1. k \in Rows
      BY Kinds
    <3>2. /\ Len(docs[k]) = Id(s, k, ids[k]) /\ Len(docs[k]) <= 1
          /\ Len(docs[k]) = 1 =>
               \A p \in items[k] : docs[k][1].lines[p] = IF p \in Has(s, k) THEN 1 ELSE 0
      BY <1>2 DEF HeldBy
    <3>3. Id(r, k, ids'[k]) = Id(s, k, ids[k]) /\ Has(r, k)' = Has(s, k)
      BY <1>4, <1>6, <3>1
    <3> QED
      BY <1>1, <3>2, <3>3
  <2> QED
    BY <2>1, <2>2, <2>3 DEF HeldBy
<1>8. Pace(r)'
  BY <1>3 DEF Pace
<1>9. worker'[w] = r /\ \A v \in Workers : v # w => worker'[v].pc = "idle"
  BY <1>1 DEF UploadsOK, DataOK, Becomes, CalmOK, Free
<1>10. HeldBy(worker[w], remote, contacts, docs)' /\ Pace(worker[w])'
  <2>1. (worker[w])' = r
    BY <1>9
  <2> QED
    BY <1>7, <1>8, <2>1 DEF HeldBy, Has, Id, ContactId, Pace
<1> QED
  BY <1>3, <1>9, <1>10 DEF CalmOK, Free

\* A new attempt starts from the rows.
LEMMA RetryInvoiceCalm ==
    ASSUME UploadsOK, CalmOK, calm, NEW w \in Workers, NEW i \in Invoices, RetryInvoice(w, i)
    PROVE  CalmOK'
<1> DEFINE T == {i, buyer[i]} \union items[i]
           seen == Restrict(ids, T)
           todo == Candidates(i)
<1>1. T \in SUBSET Rows /\ DataOK /\ RowOK(ids[i], lineIds[i], logs[i], docs[i], items[i])
  BY Kinds DEF UploadsOK, DataOK
<1>2. /\ Becomes(w, Session("lookup", i, todo, seen)) /\ \A v \in Workers : Free(v)
      /\ UNCHANGED <<buyer, items, ids, contactIds, lineIds, henrri>>
  BY DEF RetryInvoice, MayUpload, MayStart, local
<1>3. todo \in Seq(Nat)
  BY <1>1, CandidatesType
<1> HIDE DEF T
<1>4. seen \in SomeNumbers /\ \A e \in DOMAIN seen : seen[e] = ids[e]
  <2>1. seen \in [T -> Nat] /\ \A e \in T : seen[e] = ids[e]
    BY <1>1 DEF DataOK, Restrict
  <2> QED
    BY <1>1, <2>1 DEF SomeNumbers
<1> HIDE DEF seen, todo
<1> QED
  BY <1>2, <1>3, <1>4, StartCalm

-----------------------------------------------------------------------------
\* The second invariant holds at the start.
LEMMA CalmStart == UploadsInit => CalmInv
<1> SUFFICES ASSUME UploadsInit, calm PROVE apart /\ CalmOK
  BY DEF CalmInv
<1>1. apart /\ \A w \in Workers : Free(w)
  BY DEF UploadsInit, Free, Idle
<1>2. Blank.got = Nothing /\ Blank.gotContact = Nothing /\ DOMAIN Nothing = {}
  BY DEF Blank, Nothing
<1>3. \A e, n : Id(Blank, e, n) = n /\ ContactId(Blank, e, n) = n
  BY <1>2 DEF Id, ContactId
<1>4. \A i \in Invoices : docs[i] = <<>> /\ ids[i] = 0
  BY Kinds DEF UploadsInit
<1>5. \A e \in Customers \union Products : remote[e] = 0 /\ ids[e] = 0
  BY DEF UploadsInit, Rows
<1>6. \A c \in Customers : contacts[c] = 0 /\ contactIds[c] = 0
  BY DEF UploadsInit
<1>7. HeldBy(Blank, remote, contacts, docs)
  BY <1>3, <1>4, <1>5, <1>6 DEF HeldBy
<1> QED
  BY <1>1, <1>7 DEF CalmOK

\* Every step keeps the second invariant, the first one given.
LEMMA CalmNext == UploadsInv /\ CalmInv /\ [UploadsNext]_uploadVars => CalmInv'
<1> SUFFICES ASSUME UploadsInv, CalmInv, [UploadsNext]_uploadVars, calm' PROVE apart' /\ CalmOK'
  BY DEF CalmInv
<1>1. CASE UNCHANGED uploadVars
  BY <1>1 DEF CalmInv, CalmOK, uploadVars, local, henrri, Free, HeldBy, Pace, Id, ContactId, Has
<1>2. CASE UploadsNext
  <2>1. calm /\ apart /\ apart' /\ UploadsOK /\ CalmOK
    BY <1>2 DEF UploadsNext, UploadsInv, CalmInv
  <2>2. PICK w \in Workers :
        \/ \E i \in Invoices : CreateInvoice(w, i) \/ RetryInvoice(w, i)
        \/ \E S \in Batches : SyncCustomers(w, S)
        \/ LinkToShop(w)
        \/ Lookup(w) \/ Decide(w)
        \/ \E c \in Customers : CreateCustomer(w, c) \/ UpdateCustomer(w, c)
        \/ UpsertContact(w)
        \/ \E p \in Products : UpsertProduct(w, p) \/ CreateLine(w, p)
        \/ CreateDocument(w) \/ UpdateDocument(w) \/ Finalize(w)
        \/ Commit(w) \/ Dies(w)
    BY <1>2 DEF UploadsNext
  <2>3. ASSUME NEW i \in Invoices, CreateInvoice(w, i) \/ RetryInvoice(w, i) PROVE CalmOK'
    BY <2>1, <2>3, CreateInvoiceCalm, RetryInvoiceCalm
  <2>4. ASSUME NEW S \in Batches, SyncCustomers(w, S) PROVE CalmOK'
    <3>1. S \in SUBSET Customers
      BY DEF Batches
    <3> QED
      BY <2>1, <2>4, <3>1, SyncCustomersCalm
  <2>12. ASSUME LinkToShop(w) PROVE CalmOK'
    BY <2>1, <2>12, LinkToShopCalm
  <2>5. ASSUME Lookup(w) \/ Decide(w) PROVE CalmOK'
    BY <2>1, <2>5, LookupCalm, DecideCalm
  <2>6. ASSUME NEW c \in Customers, CreateCustomer(w, c) \/ UpdateCustomer(w, c) PROVE CalmOK'
    BY <2>1, <2>6, CreateCustomerCalm, UpdateCustomerCalm
  <2>7. ASSUME UpsertContact(w) PROVE CalmOK'
    BY <2>1, <2>7, UpsertContactCalm
  <2>8. ASSUME NEW p \in Products, UpsertProduct(w, p) \/ CreateLine(w, p) PROVE CalmOK'
    BY <2>1, <2>8, UpsertProductCalm, CreateLineCalm
  <2>9. ASSUME CreateDocument(w) \/ UpdateDocument(w) \/ Finalize(w) PROVE CalmOK'
    BY <2>1, <2>9, CreateDocumentCalm, UpdateDocumentCalm, FinalizeCalm
  <2>10. ASSUME Commit(w) PROVE CalmOK'
    BY <2>1, <2>10, CommitCalm
  <2>11. ~Dies(w)
    BY <2>1 DEF Dies
  <2> QED
    BY <2>1, <2>2, <2>3, <2>4, <2>5, <2>6, <2>7, <2>8, <2>9, <2>10, <2>11, <2>12
<1> QED
  BY <1>1, <1>2

\* What the second invariant says of Henrri.
LEMMA CalmInvMeans == UploadsInv /\ CalmInv => NoDuplicates
<1> SUFFICES ASSUME UploadsInv, CalmInv, calm
             PROVE  /\ \A e \in DOMAIN remote : remote[e] <= 1
                    /\ \A c \in DOMAIN contacts : contacts[c] <= 1
                    /\ \A i \in DOMAIN docs :
                         /\ Len(docs[i]) <= 1
                         /\ \A d \in DOMAIN docs[i] : \A p \in items[i] : docs[i][d].lines[p] <= 1
  BY DEF NoDuplicates
<1>1. UploadsOK /\ CalmOK
  BY DEF UploadsInv, CalmInv
<1>2. /\ DOMAIN remote = Customers \union Products /\ DOMAIN contacts = Customers
      /\ DOMAIN docs = Invoices
      /\ \A i \in Invoices : DOMAIN docs[i] = 1 .. Len(docs[i]) /\ Len(docs[i]) \in Nat
  BY <1>1, LenProperties DEF UploadsOK, DataOK
<1>3. PICK s : HeldBy(s, remote, contacts, docs)
  BY <1>1 DEF CalmOK
<1>4. ASSUME NEW i \in Invoices, NEW d \in DOMAIN docs[i]
      PROVE  d = 1 /\ Len(docs[i]) = 1
  <2>1. Len(docs[i]) <= 1 /\ d \in 1 .. Len(docs[i]) /\ Len(docs[i]) \in Nat
    BY <1>2, <1>3 DEF HeldBy
  <2>2. PICK n \in Nat : n = Len(docs[i])
    BY <2>1
  <2>3. n <= 1 /\ d \in 1 .. n
    BY <2>1, <2>2
  <2>4. d = 1 /\ n = 1
    BY <2>3
  <2> QED
    BY <2>2, <2>4
<1> QED
  BY <1>2, <1>3, <1>4 DEF HeldBy

-----------------------------------------------------------------------------
(* What the uploads guarantee.                                             *)

\* The two invariants hold throughout, whatever fails.
THEOREM UploadsInductive == UploadsSpec => [](UploadsInv /\ CalmInv)
<1>1. UploadsInit => UploadsInv /\ CalmInv
  BY UploadsStart, CalmStart
<1>2. UploadsInv /\ CalmInv /\ [UploadsNext]_uploadVars => UploadsInv' /\ CalmInv'
  BY UploadsStep, CalmNext
<1> QED
  BY <1>1, <1>2, PTL DEF UploadsSpec

\* With each worker on an invoice of its own, lost answers and crashes: an
\* invoice that the log says is uploaded names a finalized document, and a
\* document is finalized with all its lines (upload_invoice, _finalize).
THEOREM UploadsSafe == UploadsSpec => []SuccessMeansFinalized
<1>1. UploadsInv => SuccessMeansFinalized
  BY UploadsInvMeans
<1> QED
  BY <1>1, UploadsInductive, PTL

\* One worker at a time and refusals at any step: no new attempt creates at
\* Henrri what an earlier one created (Known, LinesTodo, the commit of a failure).
THEOREM CalmSafe == UploadsSpec => []NoDuplicates
<1>1. UploadsInv /\ CalmInv => NoDuplicates
  BY CalmInvMeans
<1> QED
  BY <1>1, UploadsInductive, PTL
=============================================================================
