-------------------------- MODULE TransactionRoute --------------------------
(***************************************************************************)
(* Remote transactions: the routes /transaction/:db/start and              *)
(* /transaction/:db/finish together with MDE.transact, which reads a value,*)
(* waits for the callback and writes what it returns.                      *)
(*                                                                         *)
(* Start lists the transaction, arms a timer of TRANSACTION_TIMEOUT_MS and *)
(* lets transact call back with the value; the callback answers the client *)
(* and leaves behind tx.finish, which resolves the promise transact waits  *)
(* for.  The finish request or the timer calls it.                         *)
(*                                                                         *)
(* The value is a counter that every client increments.                    *)
(***************************************************************************)
EXTENDS Naturals, FiniteSets

CONSTANTS
  Transactions,
  MayRefuse      \* whether the backend may refuse a read or a write

ASSUME TransactionAssumption ==
  /\ IsFiniteSet(Transactions)
  /\ MayRefuse \in BOOLEAN

VARIABLES
  value,     \* the value at the path
  stage,     \* how far transact is
  read,      \* the value the client was given
  listed,    \* whether the transaction is in the map _transactions
  timer,     \* its timeout
  finish,    \* how far the handler of the finish request is
  sent,      \* what that request carries: a value, nothing to cancel, or a
             \* value no record can hold
  replies    \* what finish requests were answered

routeVars == <<value, stage, read, listed, timer, finish, sent, replies>>

Stages == {"none", "reading", "checking", "waiting", "updating",
           "written", "refused", "cancelled", "failed", "withheld"}

Payloads == {"nothing", "value", "unstorable"}

RouteTypeOK ==
  /\ value \in Nat
  /\ stage \in [Transactions -> Stages]
  /\ read \in [Transactions -> Nat]
  /\ listed \in [Transactions -> BOOLEAN]
  /\ timer \in [Transactions -> {"off", "armed", "cleared", "fired"}]
  /\ finish \in [Transactions -> {"none", "checking", "finishing", "over"}]
  /\ sent \in [Transactions -> Payloads]
  /\ replies \in [Transactions -> SUBSET {"done", "gone", "denied", "error"}]

RouteInit ==
  /\ value = 0
  /\ stage = [t \in Transactions |-> "none"]
  /\ read = [t \in Transactions |-> 0]
  /\ listed = [t \in Transactions |-> FALSE]
  /\ timer = [t \in Transactions |-> "off"]
  /\ finish = [t \in Transactions |-> "none"]
  /\ sent = [t \in Transactions |-> "nothing"]
  /\ replies = [t \in Transactions |-> {}]

\* tx.finish(v) resolves the promise transact waits for; a promise that is
\* resolved stays as it is.
Resolved(t, next) == IF stage[t] = "waiting" THEN [stage EXCEPT ![t] = next] ELSE stage

\* The start request, its access check passed.
Start(t) ==
  /\ stage[t] = "none"
  /\ stage' = [stage EXCEPT ![t] = "reading"]
  /\ listed' = [listed EXCEPT ![t] = TRUE]
  /\ timer' = [timer EXCEPT ![t] = "armed"]
  /\ UNCHANGED <<value, read, finish, sent, replies>>

\* transact gets the value and calls back.  A read the backend refuses
\* finds nothing.
Read(t) ==
  /\ stage[t] = "reading"
  /\ stage' = [stage EXCEPT ![t] = "checking"]
  /\ \E found \in {value} \cup (IF MayRefuse THEN {0} ELSE {}) :
       read' = [read EXCEPT ![t] = found]
  /\ UNCHANGED <<value, listed, timer, finish, sent, replies>>

\* The callback may show the value to the user: it leaves tx.finish behind
\* and answers with the id.
Offer(t) ==
  /\ stage[t] = "checking"
  /\ stage' = [stage EXCEPT ![t] = "waiting"]
  /\ UNCHANGED <<value, read, listed, timer, finish, sent, replies>>

\* It may not: undefined cancels.  The timer and the map are left alone.
Withhold(t) ==
  /\ stage[t] = "checking"
  /\ stage' = [stage EXCEPT ![t] = "withheld"]
  /\ UNCHANGED <<value, read, listed, timer, finish, sent, replies>>

Timeout_StaysListed(t) ==
  /\ timer[t] = "armed"
  /\ timer' = [timer EXCEPT ![t] = "fired"]
  /\ stage' = Resolved(t, "cancelled")
  /\ UNCHANGED <<value, read, listed, finish, sent, replies>>

\* The timer: tx.finish?.() does nothing before the callback has set it.
Timeout(t) ==
  /\ timer[t] = "armed"
  /\ timer' = [timer EXCEPT ![t] = "fired"]
  /\ listed' = [listed EXCEPT ![t] = FALSE]
  /\ stage' = Resolved(t, "cancelled")
  /\ UNCHANGED <<value, read, finish, sent, replies>>

\* Only a client that was answered knows the id.
Known(t) == stage[t] \notin {"none", "reading", "checking", "withheld"}

FinishGone(t) ==
  /\ Known(t)
  /\ ~listed[t]
  /\ replies' = [replies EXCEPT ![t] = @ \cup {"gone"}]
  /\ UNCHANGED <<value, stage, read, listed, timer, finish, sent>>

\* The finish request is found: no timeout and no second request from here.
Finish_TimerRuns(t, content) ==
  /\ Known(t)
  /\ listed[t]
  /\ listed' = [listed EXCEPT ![t] = FALSE]
  /\ finish' = [finish EXCEPT ![t] = "checking"]
  /\ sent' = [sent EXCEPT ![t] = content]
  /\ UNCHANGED <<value, stage, read, timer, replies>>

Finish(t, content) ==
  /\ Known(t)
  /\ listed[t]
  /\ timer' = [timer EXCEPT ![t] = "cleared"]
  /\ listed' = [listed EXCEPT ![t] = FALSE]
  /\ finish' = [finish EXCEPT ![t] = "checking"]
  /\ sent' = [sent EXCEPT ![t] = content]
  /\ UNCHANGED <<value, stage, read, replies>>

\* A rule forbids the write or the value is malformed: cancel.
Deny_Unresolved(t) ==
  /\ finish[t] = "checking"
  /\ finish' = [finish EXCEPT ![t] = "over"]
  /\ replies' = [replies EXCEPT ![t] = @ \cup {"denied"}]
  /\ UNCHANGED <<value, stage, read, listed, timer, sent>>

Deny(t) ==
  /\ finish[t] = "checking"
  /\ finish' = [finish EXCEPT ![t] = "over"]
  /\ replies' = [replies EXCEPT ![t] = @ \cup {"denied"}]
  /\ stage' = Resolved(t, "cancelled")
  /\ UNCHANGED <<value, read, listed, timer, sent>>

\* Both checks passed: finish with the value, or with undefined.
Commit(t) ==
  /\ finish[t] = "checking"
  /\ finish' = [finish EXCEPT ![t] = "finishing"]
  /\ stage' = Resolved(t, IF sent[t] = "nothing" THEN "cancelled" ELSE "updating")
  /\ UNCHANGED <<value, read, listed, timer, sent, replies>>

\* transact updates the path with what the client made of the value it read.
Write(t) ==
  /\ stage[t] = "updating"
  /\ sent[t] = "value"
  /\ value' = read[t] + 1
  /\ stage' = [stage EXCEPT ![t] = "written"]
  /\ UNCHANGED <<read, listed, timer, finish, sent, replies>>

\* The backend refuses it: the error ends up in batchError, which nobody
\* reads, and the promise of set resolves all the same.
WriteRefused(t) ==
  /\ MayRefuse
  /\ stage[t] = "updating"
  /\ sent[t] = "value"
  /\ stage' = [stage EXCEPT ![t] = "refused"]
  /\ UNCHANGED <<value, read, listed, timer, finish, sent, replies>>

\* valueFitsInline throws on a type it does not know (a bigint), before
\* anything is emitted: the promise of set rejects.
WriteThrows(t) ==
  /\ stage[t] = "updating"
  /\ sent[t] = "unstorable"
  /\ stage' = [stage EXCEPT ![t] = "failed"]
  /\ UNCHANGED <<value, read, listed, timer, finish, sent, replies>>

Reply_AtOnce(t) ==
  /\ finish[t] = "finishing"
  /\ finish' = [finish EXCEPT ![t] = "over"]
  /\ replies' = [replies EXCEPT ![t] = @ \cup {"done"}]
  /\ UNCHANGED <<value, stage, read, listed, timer, sent>>

\* What transact returns with.
Returned(t) == stage[t] \in {"written", "refused", "cancelled", "failed"}

Reply_Stage(t) ==
  /\ finish[t] = "finishing"
  /\ Returned(t)
  /\ finish' = [finish EXCEPT ![t] = "over"]
  /\ replies' = [replies EXCEPT ![t] = @ \cup {stage[t]}]
  /\ UNCHANGED <<value, stage, read, listed, timer, sent>>

\* The promise tx.finish returned settles, and the finish request with it.
Reply(t) ==
  /\ finish[t] = "finishing"
  /\ Returned(t)
  /\ finish' = [finish EXCEPT ![t] = "over"]
  /\ replies' = [replies EXCEPT ![t] = @ \cup {IF stage[t] = "failed" THEN "error" ELSE "done"}]
  /\ UNCHANGED <<value, stage, read, listed, timer, sent>>

\* Everything that happens without the client.
Server(t) ==
  \/ Read(t) \/ Offer(t) \/ Withhold(t)
  \/ Deny(t) \/ Commit(t)
  \/ Write(t) \/ WriteRefused(t) \/ WriteThrows(t)
  \/ Reply(t)

Client(t) ==
  \/ Start(t)
  \/ FinishGone(t)
  \/ \E content \in Payloads : Finish(t, content)

RouteNext == \E t \in Transactions : Server(t) \/ Timeout(t) \/ Client(t)

RouteSpec == RouteInit /\ [][RouteNext]_routeVars

\* Timers fire and pending work completes; clients may vanish at any time.
FairSpec ==
  RouteSpec /\ \A t \in Transactions : WF_routeVars(Server(t)) /\ WF_routeVars(Timeout(t))

----------------------------------------------------------------------------
Settled(t) == Returned(t) \/ stage[t] = "withheld"

(***************************************************************************)
(* What a finish request is answered is what became of it, however the     *)
(* timer, retries of the request and rules interleave: told "done", a      *)
(* value has been handed to the storage and is written unless the backend  *)
(* refused it; told of an error, nothing of it was ever written.           *)
(***************************************************************************)
AnswersAreTrue ==
  \A t \in Transactions :
    /\ "done" \in replies[t] /\ sent[t] # "nothing" => stage[t] \in {"written", "refused"}
    /\ replies[t] \cap {"denied", "error"} # {} => stage[t] \in {"cancelled", "failed"}

(***************************************************************************)
(* A transaction that timed out never writes, not even when the finish     *)
(* request was on its way.                                                 *)
(***************************************************************************)
LateNeverWrites ==
  \A t \in Transactions :
    timer[t] = "fired" => stage[t] \notin {"updating", "written", "refused", "failed"}

(***************************************************************************)
(* The map of transactions does not grow: each one is taken off again,     *)
(* also when the client never comes back.                                  *)
(***************************************************************************)
Delisted == \A t \in Transactions : listed[t] ~> ~listed[t]

(***************************************************************************)
(* No transaction whose value was offered in time stays open: transact     *)
(* returns, whether the client sends a value, cancels, is denied or never  *)
(* comes back.                                                             *)
(***************************************************************************)
Settles == \A t \in Transactions : stage[t] = "waiting" /\ listed[t] ~> Settled(t)

(***************************************************************************)
(* The comment at the timer: "Finish without value cancels the             *)
(* transaction", so one whose timer fired is over.                         *)
(***************************************************************************)
TimeoutCancels == \A t \in Transactions : timer[t] = "fired" ~> Settled(t)
=============================================================================
