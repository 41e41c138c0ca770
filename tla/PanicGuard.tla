----------------------------- MODULE PanicGuard -----------------------------
(***************************************************************************)
(* The middleware that keeps the server alive when a request handler       *)
(* panics (src/panic_guard.rs), on top of tower-lsp's table of pending     *)
(* requests.                                                               *)
(*                                                                         *)
(* One task reads the client's messages and polls the handlers, so what    *)
(* happens between two polls is one step.  A call enters the pending table *)
(* when the message is read; its handler is polled later, with up to       *)
(* Concurrency others.  A handler that panics never leaves the table: the  *)
(* guard remembers its id and clears it on the way into the next call.     *)
(***************************************************************************)
EXTENDS Integers, SequencesExt

CONSTANTS
  Ids,            \* request ids, which a client uses again once answered
  Concurrency,    \* handlers that tower-lsp polls at a time
  MaxCalls        \* bound: messages of the client

VARIABLES
  pending,   \* the pending table: the call that holds each id, 0 for none
  futures,     \* the futures not yet over: sequence of [id, kind, call]
  abortedCalls,  \* calls whose abort handle was used
  leaked,    \* ids whose handler panicked
  calls,     \* messages read so far
  asked,     \* history: the client's open request of each id, 0 for none
  unwanted,  \* history: <<id, call>> of the requests the client asked to cancel
  answers    \* history: the last answer of each id

guardVars == <<pending, futures, abortedCalls, leaked, calls, asked, unwanted, answers>>

-----------------------------------------------------------------------------
(* tower-lsp, as the guard uses it: what its calls do to the table. *)

\* A $/cancelRequest drops the entry and aborts its call.
Freed(table, id)    == [table EXCEPT ![id] = 0]
Aborts(table, ids) == {table[id] : id \in ids} \ {0}

\* A call is registered as it is made, and rejected when its id is taken.
Entered(table, id, call) == IF table[id] = 0 THEN [table EXCEPT ![id] = call] ELSE table
FutureOf(table, id, call) ==
  [id |-> id, call |-> call, kind |-> IF table[id] = 0 THEN "handler" ELSE "rejected"]

-----------------------------------------------------------------------------
(* PanicGuard::call *)

Cleared(table) == [id \in Ids |-> IF id \in ToSet(leaked) THEN 0 ELSE table[id]]

\* Mutant: the leaked ids are cleared after the call was made.
CallThenClear(id, call) ==
  /\ pending' = Cleared(Entered(pending, id, call))
  /\ abortedCalls' = abortedCalls \cup Aborts(Entered(pending, id, call), ToSet(leaked))
  /\ futures' = Append(futures, FutureOf(pending, id, call))
  /\ leaked' = <<>>

\* The cancels of the leaked ids resolve at their first poll, before the call.
ClearThenCall(id, call) ==
  /\ pending' = Entered(Cleared(pending), id, call)
  /\ abortedCalls' = abortedCalls \cup Aborts(pending, ToSet(leaked))
  /\ futures' = Append(futures, FutureOf(Cleared(pending), id, call))
  /\ leaked' = <<>>

Request(id) ==
  /\ calls < MaxCalls /\ calls' = calls + 1
  /\ asked[id] = 0
  /\ ClearThenCall(id, calls')
  /\ asked' = [asked EXCEPT ![id] = calls']
  /\ UNCHANGED <<unwanted, answers>>

\* The client's own $/cancelRequest, a notification: it is called through the
\* guard too, has no id of its own, and drops the entry when it is polled.
CancelRequest(id) ==
  /\ calls < MaxCalls /\ calls' = calls + 1
  /\ asked[id] # 0
  /\ pending' = Cleared(pending) /\ leaked' = <<>>
  /\ abortedCalls' = abortedCalls \cup Aborts(pending, ToSet(leaked))
  /\ futures' = Append(futures, [id |-> id, call |-> calls', kind |-> "cancel"])
  /\ unwanted' = unwanted \cup {<<id, asked[id]>>}
  /\ UNCHANGED <<asked, answers>>

-----------------------------------------------------------------------------
(* Polls: any of the first futures in the queue may be the next to end. *)

Ends(i) == futures' = RemoveAt(futures, i)
Answer(t, what) ==
  /\ answers' = [answers EXCEPT ![t.id] = [call |-> t.call, what |-> what]]
  /\ asked' = [asked EXCEPT ![t.id] = 0]

\* The handler returns, or is found aborted: tower-lsp removes its id.
HandlerReturns(i) ==
  LET t == futures[i] IN
  /\ t.kind = "handler"
  /\ Ends(i) /\ pending' = Freed(pending, t.id)
  /\ Answer(t, IF t.call \in abortedCalls THEN "cancelled" ELSE "done")
  /\ UNCHANGED <<abortedCalls, leaked, calls, unwanted>>

\* The guard catches the unwinding and answers for the handler. The entry in
\* the table stays.
HandlerPanics(i) ==
  LET t == futures[i] IN
  /\ t.kind = "handler" /\ t.call \notin abortedCalls
  /\ Ends(i) /\ leaked' = Append(leaked, t.id)
  /\ Answer(t, "internal error")
  /\ UNCHANGED <<pending, abortedCalls, calls, unwanted>>

Rejected(i) ==
  LET t == futures[i] IN
  /\ t.kind = "rejected"
  /\ Ends(i) /\ Answer(t, "invalid request")
  /\ UNCHANGED <<pending, abortedCalls, leaked, calls, unwanted>>

Cancels(i) ==
  LET t == futures[i] IN
  /\ t.kind = "cancel"
  /\ Ends(i) /\ pending' = Freed(pending, t.id)
  /\ abortedCalls' = abortedCalls \cup Aborts(pending, {t.id})
  /\ UNCHANGED <<leaked, calls, asked, unwanted, answers>>

GuardInit ==
  /\ pending = [id \in Ids |-> 0] /\ futures = <<>> /\ abortedCalls = {} /\ leaked = <<>>
  /\ calls = 0 /\ asked = [id \in Ids |-> 0] /\ unwanted = {}
  /\ answers = [id \in Ids |-> [call |-> 0, what |-> "none"]]

GuardNext ==
  \/ \E id \in Ids : Request(id) \/ CancelRequest(id)
  \/ \E i \in DOMAIN futures :
       i <= Concurrency /\ (HandlerReturns(i) \/ HandlerPanics(i) \/ Rejected(i) \/ Cancels(i))

GuardSpec == GuardInit /\ [][GuardNext]_guardVars

-----------------------------------------------------------------------------
(* Properties. *)

\* A request fares as if no request before it had panicked: it is not rejected
\* for an id that was free again, and not cancelled unless the client asked for
\* that, if with a cancel that was meant for an earlier request of the id.
\* And a cancel still reaches the request it is meant for.
PanicsStayAlone ==
  /\ \A id \in Ids : answers[id].what # "invalid request"
  /\ \A id \in Ids :
       answers[id].what = "cancelled" => \E c \in 1..answers[id].call : <<id, c>> \in unwanted
  /\ \A t \in ToSet(futures) : t.kind = "handler" =>
       pending[t.id] = t.call \/ t.call \in abortedCalls
=============================================================================
