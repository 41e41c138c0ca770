------------------------- MODULE PanicGuard_proofs --------------------------
(***************************************************************************)
(* That a handler that panics costs its own request and no other, for any  *)
(* ids, any number of handlers polled at a time and any number of calls.   *)
(*                                                                         *)
(* The invariant follows each id from the call that takes it to the answer *)
(* that frees it: the pending table holds the open request of the id, or   *)
(* what a panic left there, which is in the guard's list until the next    *)
(* call; and a call is aborted only by a cancel that the client has asked  *)
(* for since, because a leaked entry's call has no future left to abort.   *)
(***************************************************************************)
EXTENDS PanicGuard, TLAPS

\* A list that has nothing twice.
OnceEach(s) == \A i, j \in DOMAIN s : s[i] = s[j] => i = j

\* What RemoveAt makes of a list, element by element.
LEMMA RemoveAtIs ==
  ASSUME NEW S, NEW s \in Seq(S), NEW k \in DOMAIN s
  PROVE  /\ RemoveAt(s, k) \in Seq(S)
         /\ DOMAIN RemoveAt(s, k) = 1..(Len(s) - 1)
         /\ \A i \in 1..(Len(s) - 1) : RemoveAt(s, k)[i] = IF i < k THEN s[i] ELSE s[i + 1]
<1>1. k \in 1..Len(s) /\ Len(s) \in Nat
  OBVIOUS
<1>2. /\ SubSeq(s, 1, k - 1) \in Seq(S)
      /\ Len(SubSeq(s, 1, k - 1)) = k - 1
      /\ \A i \in 1..(k - 1) : SubSeq(s, 1, k - 1)[i] = s[i]
  BY <1>1
<1>3. /\ SubSeq(s, k + 1, Len(s)) \in Seq(S)
      /\ Len(SubSeq(s, k + 1, Len(s))) = Len(s) - k
      /\ \A i \in 1..(Len(s) - k) : SubSeq(s, k + 1, Len(s))[i] = s[k + i]
  BY <1>1
<1> DEFINE u == SubSeq(s, 1, k - 1)
           w == SubSeq(s, k + 1, Len(s))
<1>4. /\ u \o w \in Seq(S)
      /\ Len(u \o w) = Len(u) + Len(w)
      /\ \A i \in 1..(Len(u) + Len(w)) : (u \o w)[i] = IF i <= Len(u) THEN u[i] ELSE w[i - Len(u)]
  <2> HIDE DEF u, w
  <2> QED BY <1>2, <1>3 DEF u, w
<1>5. RemoveAt(s, k) = u \o w
  BY DEF RemoveAt
<1> HIDE DEF u, w
<1>6. Len(u) = k - 1 /\ Len(w) = Len(s) - k
  BY <1>2, <1>3 DEF u, w
<1>7. \A i \in 1..(Len(s) - 1) : (u \o w)[i] = IF i < k THEN s[i] ELSE s[i + 1]
  <2> TAKE i \in 1..(Len(s) - 1)
  <2>1. CASE i < k
    BY <2>1, <1>1, <1>2, <1>4, <1>6 DEF u
  <2>2. CASE ~(i < k)
    <3>1. (u \o w)[i] = w[i - (k - 1)] /\ i - (k - 1) \in 1..(Len(s) - k)
      BY <2>2, <1>1, <1>4, <1>6
    <3>2. w[i - (k - 1)] = s[k + (i - (k - 1))]
      BY <3>1, <1>3 DEF w
    <3> QED BY <3>1, <3>2, <2>2, <1>1
  <2> QED BY <2>1, <2>2
<1> QED BY <1>1, <1>4, <1>5, <1>6, <1>7

\* Taking one out of a list that has each once leaves the others, once each.
LEMMA RemoveAtTakesOne ==
  ASSUME NEW S, NEW s \in Seq(S), OnceEach(s), NEW k \in DOMAIN s, NEW t, t = RemoveAt(s, k)
  PROVE  t \in Seq(S) /\ OnceEach(t) /\ ToSet(t) = ToSet(s) \ {s[k]}
<1>1. /\ t \in Seq(S) /\ DOMAIN t = 1..(Len(s) - 1) /\ DOMAIN s = 1..Len(s) /\ Len(s) \in Nat
      /\ k \in 1..Len(s)
      /\ \A i \in 1..(Len(s) - 1) : t[i] = IF i < k THEN s[i] ELSE s[i + 1]
  BY RemoveAtIs
<1>2. OnceEach(t)
  <2> SUFFICES ASSUME NEW i \in DOMAIN t, NEW j \in DOMAIN t, t[i] = t[j] PROVE i = j
    BY DEF OnceEach
  <2> DEFINE at(m) == IF m < k THEN m ELSE m + 1
  <2>1. at(i) \in DOMAIN s /\ at(j) \in DOMAIN s /\ t[i] = s[at(i)] /\ t[j] = s[at(j)]
    BY <1>1
  <2>2. at(i) = at(j)
    <3> HIDE DEF at
    <3> QED BY <2>1 DEF OnceEach
  <2> QED BY <1>1, <2>2
<1>3. \A i \in DOMAIN t : t[i] \in ToSet(s) /\ t[i] # s[k]
  BY <1>1 DEF ToSet, OnceEach
<1>4. \A i \in DOMAIN s : i # k => s[i] \in ToSet(t)
  <2> TAKE i \in DOMAIN s
  <2> HAVE i # k
  <2>1. CASE i < k
    <3>1. i \in DOMAIN t /\ t[i] = s[i]
      BY <1>1, <2>1
    <3> QED BY <3>1 DEF ToSet
  <2>2. CASE i > k
    <3>1. i - 1 \in DOMAIN t /\ t[i - 1] = s[i]
      BY <1>1, <2>2
    <3> QED BY <3>1 DEF ToSet
  <2> QED BY <1>1, <2>1, <2>2
<1>5. ToSet(t) = ToSet(s) \ {s[k]}
  BY <1>3, <1>4 DEF ToSet
<1> QED BY <1>1, <1>2, <1>5

\* A new element of a list.
LEMMA AppendAddsOne ==
  ASSUME NEW S, NEW s \in Seq(S), OnceEach(s), NEW x \in S, x \notin ToSet(s)
  PROVE  Append(s, x) \in Seq(S) /\ OnceEach(Append(s, x)) /\ ToSet(Append(s, x)) = ToSet(s) \cup {x}
<1> PICK t : t = Append(s, x)
  OBVIOUS
<1>1. /\ t \in Seq(S) /\ DOMAIN t = 1..(Len(s) + 1) /\ DOMAIN s = 1..Len(s) /\ Len(s) \in Nat
      /\ t[Len(s) + 1] = x /\ \A i \in 1..Len(s) : t[i] = s[i]
  OBVIOUS
<1>2. OnceEach(t)
  BY <1>1 DEF OnceEach, ToSet
<1>3. ToSet(t) = ToSet(s) \cup {x}
  BY <1>1 DEF ToSet
<1> QED BY <1>1, <1>2, <1>3

\* What any list is after one more element.
LEMMA AppendIs ==
  ASSUME NEW S, NEW s \in Seq(S), NEW x \in S
  PROVE  Append(s, x) \in Seq(S) /\ ToSet(Append(s, x)) = ToSet(s) \cup {x} /\ ToSet(s) \subseteq S
<1> PICK t : t = Append(s, x)
  OBVIOUS
<1>1. /\ t \in Seq(S) /\ DOMAIN t = 1..(Len(s) + 1) /\ DOMAIN s = 1..Len(s) /\ Len(s) \in Nat
      /\ t[Len(s) + 1] = x /\ \A i \in 1..Len(s) : t[i] = s[i]
  OBVIOUS
<1>2. ToSet(t) = ToSet(s) \cup {x}
  BY <1>1 DEF ToSet
<1>3. ToSet(s) \subseteq S
  BY DEF ToSet
<1> QED BY <1>1, <1>2, <1>3

-----------------------------------------------------------------------------
(* The invariant. *)

\* The futures of calls that were not rejected, what answers say, and the
\* futures of handlers.
Futures == [id : Ids, call : Nat, kind : {"handler", "cancel"}]
Words == {"none", "done", "cancelled", "internal error", "invalid request"}
Handlers(F) == {t \in F : t.kind = "handler"}

\* Calls are numbered as they are read, and no future is one of a rejected call.
Typed ==
  /\ calls \in Nat
  /\ pending \in [Ids -> 0..calls] /\ asked \in [Ids -> 0..calls]
  /\ futures \in Seq(Futures) /\ OnceEach(futures)
  /\ \A t \in ToSet(futures) : t.call \in 1..calls
  /\ \A s, t \in ToSet(futures) : s.call = t.call => s = t
  /\ leaked \in Seq(Ids) /\ abortedCalls \subseteq 1..calls
  /\ answers \in [Ids -> [call : Nat, what : Words]]

\* The handler of an id's open request, and the entry of the table that it has
\* unless its call is aborted; no other id has its call.
Held ==
  \A t \in Handlers(ToSet(futures)) :
    /\ asked[t.id] = t.call
    /\ pending[t.id] = t.call \/ t.call \in abortedCalls
    /\ \A id \in Ids : pending[id] = t.call => id = t.id

\* What is in the table otherwise was left by a panic, and is listed; an id is
\* listed only while it has no open request.
Leaks ==
  /\ \A id \in Ids : pending[id] # 0 => id \in ToSet(leaked) \/ asked[id] = pending[id]
  /\ \A id \in ToSet(leaked) : asked[id] = 0

\* The client wanted the cancels that are under way, for an open request or an
\* earlier one of its id, and those that have hit a handler.
Wanted ==
  /\ \A t \in ToSet(futures) : t.kind = "cancel" =>
       \E c \in 1..calls : /\ <<t.id, c>> \in unwanted
                           /\ asked[t.id] # 0 => c <= asked[t.id]
  /\ \A t \in Handlers(ToSet(futures)) : t.call \in abortedCalls =>
       \E c \in 1..t.call : <<t.id, c>> \in unwanted

\* What the answers say.
Answered ==
  \A id \in Ids :
    /\ answers[id].what # "invalid request"
    /\ answers[id].what = "cancelled" => \E c \in 1..answers[id].call : <<id, c>> \in unwanted

\* The invariant of the guard and the table together.
GInv == Typed /\ Held /\ Leaks /\ Wanted /\ Answered

-----------------------------------------------------------------------------
\* Nothing was called yet.
LEMMA InitHolds ==
  ASSUME GuardInit
  PROVE  GInv
<1>1. ToSet(futures) = {} /\ ToSet(leaked) = {}
  BY DEF GuardInit, ToSet
<1>2. futures \in Seq(Futures) /\ leaked \in Seq(Ids) /\ OnceEach(futures)
  BY DEF GuardInit, OnceEach
<1>3. Typed
  <2>1. calls = 0 /\ abortedCalls = {}
    BY DEF GuardInit
  <2>2. pending \in [Ids -> 0..calls] /\ asked \in [Ids -> 0..calls]
    BY DEF GuardInit
  <2>3. answers \in [Ids -> [call : Nat, what : Words]]
    BY DEF GuardInit, Words
  <2> QED BY <1>1, <1>2, <2>1, <2>2, <2>3 DEF Typed
<1>4. Held /\ Wanted
  BY <1>1 DEF Held, Wanted, Handlers
<1>5. Leaks
  BY <1>1 DEF GuardInit, Leaks
<1>6. Answered
  BY DEF GuardInit, Answered
<1> QED BY <1>3, <1>4, <1>5, <1>6 DEF GInv

\* The futures after one of them has ended.
LEMMA EndsTakesOne ==
  ASSUME Typed, NEW i \in DOMAIN futures, Ends(i)
  PROVE  /\ futures' \in Seq(Futures) /\ OnceEach(futures')
         /\ ToSet(futures)' = ToSet(futures) \ {futures[i]}
         /\ futures[i] \in Futures /\ futures[i] \in ToSet(futures)
<1> PICK s, t : s = futures /\ t = futures'
  OBVIOUS
<1>1. s \in Seq(Futures) /\ OnceEach(s) /\ i \in DOMAIN s /\ t = RemoveAt(s, i)
  BY DEF Typed, Ends
<1>2. t \in Seq(Futures) /\ OnceEach(t) /\ ToSet(t) = ToSet(s) \ {s[i]}
  BY <1>1, RemoveAtTakesOne
<1>3. s[i] \in Futures /\ s[i] \in ToSet(s)
  BY <1>1 DEF ToSet
<1> QED BY <1>2, <1>3

\* The futures after a call.
LEMMA AppendsOne ==
  ASSUME Typed, NEW x \in Futures, x.call > calls, futures' = Append(futures, x)
  PROVE  /\ futures' \in Seq(Futures) /\ OnceEach(futures')
         /\ ToSet(futures)' = ToSet(futures) \cup {x}
<1> PICK s, t : s = futures /\ t = futures'
  OBVIOUS
<1>1. calls \in Nat /\ \A u \in ToSet(s) : u.call \in 1..calls
  BY DEF Typed
<1>2. x \notin ToSet(s)
  BY <1>1
<1>3. s \in Seq(Futures) /\ OnceEach(s) /\ t = Append(s, x) /\ x \in Futures
  BY DEF Typed
<1>4. t \in Seq(Futures) /\ OnceEach(t) /\ ToSet(t) = ToSet(s) \cup {x}
  BY <1>2, <1>3, AppendAddsOne
<1> QED BY <1>4

\* What a future is of.
LEMMA FuturesAre ==
  ASSUME GInv
  PROVE  \A t \in ToSet(futures) : t \in Futures /\ t.id \in Ids /\ t.call \in 1..calls
<1>1. \A t \in ToSet(futures) : t \in Futures
  BY DEF GInv, Typed, ToSet
<1> QED BY <1>1 DEF GInv, Typed, Futures

\* The table after the guard has cleared what panics left: nothing is left but
\* open requests, and no handler is aborted.
LEMMA ClearingSpares ==
  ASSUME GInv
  PROVE  /\ Cleared(pending) \in [Ids -> 0..calls]
         /\ \A id \in Ids : Cleared(pending)[id] # 0 => /\ Cleared(pending)[id] = pending[id]
                                                        /\ asked[id] = pending[id]
         /\ \A t \in Handlers(ToSet(futures)) :
              /\ Cleared(pending)[t.id] = pending[t.id]
              /\ t.call \notin Aborts(pending, ToSet(leaked))
         /\ Aborts(pending, ToSet(leaked)) \subseteq 1..calls
<1>1. \A id \in Ids : Cleared(pending)[id] = IF id \in ToSet(leaked) THEN 0 ELSE pending[id]
  BY DEF Cleared
<1>2. Cleared(pending) \in [Ids -> 0..calls]
  BY DEF Cleared, GInv, Typed
<1>3. \A t \in Handlers(ToSet(futures)) : t.id \in Ids /\ t.id \notin ToSet(leaked) /\ t.call # 0
  <2>1. \A t \in ToSet(futures) : t \in Futures
    BY DEF GInv, Typed, ToSet
  <2> QED BY <2>1 DEF GInv, Typed, Held, Leaks, Handlers, Futures
<1>4. ToSet(leaked) \subseteq Ids
  BY DEF GInv, Typed, ToSet
<1> QED BY <1>1, <1>2, <1>3, <1>4 DEF GInv, Typed, Held, Leaks, Aborts

\* A request clears what panics left and then takes its id, which is free: the
\* client has no open request of it.
LEMMA RequestKeeps ==
  ASSUME GInv, NEW id \in Ids, Request(id)
  PROVE  GInv'
<1> PICK table, gone, F : /\ table = Cleared(pending) /\ gone = Aborts(pending, ToSet(leaked))
                          /\ F = ToSet(futures)
  OBVIOUS
<1>1. /\ table \in [Ids -> 0..calls]
      /\ \A k \in Ids : table[k] # 0 => table[k] = pending[k] /\ asked[k] = pending[k]
      /\ \A t \in Handlers(F) : table[t.id] = pending[t.id] /\ t.call \notin gone
      /\ gone \subseteq 1..calls
  BY ClearingSpares
<1>2. table[id] = 0 /\ asked[id] = 0 /\ calls' = calls + 1 /\ calls \in Nat
  BY <1>1 DEF Request, GInv, Typed
<1> PICK x : x = [id |-> id, call |-> calls', kind |-> "handler"]
  OBVIOUS
<1>3. x \in Futures /\ x.call = calls + 1 /\ x.id = id /\ x.kind = "handler"
  BY <1>2 DEF Futures
<1>4. /\ pending' = [table EXCEPT ![id] = calls']
      /\ abortedCalls' = abortedCalls \cup gone
      /\ futures' = Append(futures, x) /\ leaked' = <<>>
      /\ asked' = [asked EXCEPT ![id] = calls'] /\ unwanted' = unwanted /\ answers' = answers
  BY <1>2 DEF Request, ClearThenCall, Entered, FutureOf
<1>5. futures' \in Seq(Futures) /\ OnceEach(futures') /\ ToSet(futures)' = F \cup {x}
  BY <1>2, <1>3, <1>4, AppendsOne DEF GInv
<1>6. ToSet(leaked)' = {} /\ leaked' \in Seq(Ids)
  BY <1>4 DEF ToSet
<1>7. /\ \A k \in Ids : pending'[k] = IF k = id THEN calls + 1 ELSE table[k]
      /\ \A k \in Ids : asked'[k] = IF k = id THEN calls + 1 ELSE asked[k]
  BY <1>1, <1>2, <1>4 DEF GInv, Typed
<1>8. \A t \in F : t \in Futures /\ t.call \in 1..calls
  BY DEF GInv, Typed, ToSet
<1>9. \A t \in Handlers(F) : t.id # id
  BY <1>2, <1>8 DEF GInv, Held, Handlers, Futures
<1>10. Typed'
  <2>1. pending' \in [Ids -> 0..calls'] /\ asked' \in [Ids -> 0..calls']
    BY <1>1, <1>2, <1>4 DEF GInv, Typed
  <2>2. \A t \in F \cup {x} : t.call \in 1..calls'
    BY <1>2, <1>3, <1>8
  <2>3. \A s, t \in F \cup {x} : s.call = t.call => s = t
    <3>1. \A s, t \in F : s.call = t.call => s = t
      BY DEF GInv, Typed
    <3>2. \A s \in F : s.call # x.call
      BY <1>2, <1>3, <1>8
    <3> QED BY <3>1, <3>2
  <2>4. abortedCalls' \subseteq 1..calls'
    <3>1. abortedCalls \subseteq 1..calls /\ gone \subseteq 1..calls
      BY <1>1 DEF GInv, Typed
    <3>2. 1..calls \subseteq 1..calls'
      BY <1>2
    <3> QED BY <1>4, <3>1, <3>2
  <2>5. calls' \in Nat /\ answers' \in [Ids -> [call : Nat, what : Words]]
    BY <1>2, <1>4 DEF GInv, Typed
  <2> QED BY <1>5, <1>6, <2>1, <2>2, <2>3, <2>4, <2>5 DEF Typed
<1>11. Held'
  BY <1>1, <1>2, <1>3, <1>4, <1>5, <1>7, <1>8, <1>9 DEF GInv, Held, Handlers, Futures, Typed
<1>12. Leaks'
  BY <1>1, <1>2, <1>6, <1>7 DEF GInv, Leaks
<1>13. Wanted'
  <2>1. ASSUME NEW t \in F, t.kind = "cancel"
        PROVE  \E c \in 1..calls' : <<t.id, c>> \in unwanted' /\ (asked'[t.id] # 0 => c <= asked'[t.id])
    <3>1. PICK c \in 1..calls : <<t.id, c>> \in unwanted /\ (asked[t.id] # 0 => c <= asked[t.id])
      BY <2>1 DEF GInv, Wanted
    <3>2. t.id \in Ids
      BY <1>8 DEF Futures
    <3>3. c \in 1..calls' /\ (asked'[t.id] # 0 => c <= asked'[t.id])
      BY <1>2, <1>7, <3>1, <3>2
    <3> QED BY <1>4, <3>1, <3>3
  <2>2. ASSUME NEW t \in Handlers(F), t.call \in abortedCalls'
        PROVE  \E c \in 1..t.call : <<t.id, c>> \in unwanted'
    <3>1. t.call \in abortedCalls
      BY <1>1, <1>4, <2>2
    <3> QED BY <1>4, <3>1 DEF GInv, Wanted
  <2>3. x.call \notin abortedCalls'
    BY <1>1, <1>2, <1>3, <1>4 DEF GInv, Typed
  <2> QED BY <1>3, <1>5, <2>1, <2>2, <2>3 DEF Wanted, Handlers
<1>14. Answered'
  BY <1>4 DEF GInv, Answered
<1> QED BY <1>10, <1>11, <1>12, <1>13, <1>14 DEF GInv

\* A cancel that is read clears what panics left; its own work comes later.
LEMMA CancelRequestKeeps ==
  ASSUME GInv, NEW id \in Ids, CancelRequest(id)
  PROVE  GInv'
<1> PICK table, gone, F : /\ table = Cleared(pending) /\ gone = Aborts(pending, ToSet(leaked))
                          /\ F = ToSet(futures)
  OBVIOUS
<1>1. /\ table \in [Ids -> 0..calls]
      /\ \A k \in Ids : table[k] # 0 => table[k] = pending[k] /\ asked[k] = pending[k]
      /\ \A t \in Handlers(F) : table[t.id] = pending[t.id] /\ t.call \notin gone
      /\ gone \subseteq 1..calls
  BY ClearingSpares
<1>2. calls' = calls + 1 /\ calls \in Nat /\ asked[id] \in 1..calls
  BY DEF CancelRequest, GInv, Typed
<1> PICK x : x = [id |-> id, call |-> calls', kind |-> "cancel"]
  OBVIOUS
<1>3. x \in Futures /\ x.call = calls + 1 /\ x.id = id /\ x.kind = "cancel"
  BY <1>2 DEF Futures
<1>4. /\ pending' = table /\ abortedCalls' = abortedCalls \cup gone
      /\ futures' = Append(futures, x) /\ leaked' = <<>>
      /\ asked' = asked /\ unwanted' = unwanted \cup {<<id, asked[id]>>} /\ answers' = answers
  BY <1>2 DEF CancelRequest
<1>5. futures' \in Seq(Futures) /\ OnceEach(futures') /\ ToSet(futures)' = F \cup {x}
  BY <1>2, <1>3, <1>4, AppendsOne DEF GInv
<1>6. ToSet(leaked)' = {} /\ leaked' \in Seq(Ids)
  BY <1>4 DEF ToSet
<1>7. \A t \in F : t \in Futures /\ t.call \in 1..calls
  BY DEF GInv, Typed, ToSet
<1>8. Handlers(F \cup {x}) = Handlers(F)
  BY <1>3 DEF Handlers
<1>9. Typed'
  <2>1. pending' \in [Ids -> 0..calls'] /\ asked' \in [Ids -> 0..calls']
    BY <1>1, <1>2, <1>4 DEF GInv, Typed
  <2>2. \A t \in F \cup {x} : t.call \in 1..calls'
    BY <1>2, <1>3, <1>7
  <2>3. \A s, t \in F \cup {x} : s.call = t.call => s = t
    <3>1. \A s, t \in F : s.call = t.call => s = t
      BY DEF GInv, Typed
    <3>2. \A s \in F : s.call # x.call
      BY <1>2, <1>3, <1>7
    <3> QED BY <3>1, <3>2
  <2>4. abortedCalls' \subseteq 1..calls'
    <3>1. abortedCalls \subseteq 1..calls /\ gone \subseteq 1..calls
      BY <1>1 DEF GInv, Typed
    <3>2. 1..calls \subseteq 1..calls'
      BY <1>2
    <3> QED BY <1>4, <3>1, <3>2
  <2>5. calls' \in Nat /\ answers' \in [Ids -> [call : Nat, what : Words]]
    BY <1>2, <1>4 DEF GInv, Typed
  <2> QED BY <1>5, <1>6, <2>1, <2>2, <2>3, <2>4, <2>5 DEF Typed
<1>10. Held'
  BY <1>1, <1>4, <1>5, <1>7, <1>8 DEF GInv, Held, Handlers, Typed, Futures
<1>11. Leaks'
  BY <1>1, <1>4, <1>6 DEF GInv, Leaks
<1>12. Wanted'
  BY <1>1, <1>2, <1>3, <1>4, <1>5, <1>7, <1>8 DEF GInv, Wanted, Handlers, Futures
<1>13. Answered'
  BY <1>4 DEF GInv, Answered
<1> QED BY <1>9, <1>10, <1>11, <1>12, <1>13 DEF GInv

\* What every step of a handler's end has in common: its id has no open
\* request left, and the other handlers are untouched.
LEMMA HandlerEnds ==
  ASSUME GInv, NEW i \in DOMAIN futures, Ends(i), NEW t, t = futures[i], t.kind = "handler",
         NEW what \in Words, Answer(t, what), calls' = calls
  PROVE  /\ t \in Handlers(ToSet(futures)) /\ t.id \in Ids /\ t.call \in 1..calls
         /\ futures' \in Seq(Futures) /\ OnceEach(futures')
         /\ ToSet(futures)' = ToSet(futures) \ {t}
         /\ \A id \in Ids : asked'[id] = IF id = t.id THEN 0 ELSE asked[id]
         /\ asked' \in [Ids -> 0..calls]
         /\ \A s \in Handlers(ToSet(futures)') : s \in Handlers(ToSet(futures)) /\ s.id \in Ids /\ s.id # t.id
         /\ \A id \in Ids : answers'[id] = IF id = t.id THEN [call |-> t.call, what |-> what] ELSE answers[id]
         /\ answers' \in [Ids -> [call : Nat, what : Words]]
<1>1. /\ futures' \in Seq(Futures) /\ OnceEach(futures')
      /\ ToSet(futures)' = ToSet(futures) \ {t} /\ t \in Futures /\ t \in ToSet(futures)
  BY EndsTakesOne DEF GInv
<1>2. t \in Handlers(ToSet(futures)) /\ t.id \in Ids /\ t.call \in Nat /\ t.call \in 1..calls
  BY <1>1 DEF Handlers, Futures, GInv, Typed
<1>3. \A id \in Ids : asked'[id] = IF id = t.id THEN 0 ELSE asked[id]
  BY <1>2 DEF Answer, GInv, Typed
<1>4. asked' \in [Ids -> 0..calls]
  BY <1>2 DEF Answer, GInv, Typed
<1>5. \A id \in Ids : answers'[id] = IF id = t.id THEN [call |-> t.call, what |-> what] ELSE answers[id]
  BY <1>2 DEF Answer, GInv, Typed
<1>6. answers' \in [Ids -> [call : Nat, what : Words]]
  BY <1>2 DEF Answer, GInv, Typed
<1>7. ASSUME NEW s \in Handlers(ToSet(futures)')
      PROVE  s \in Handlers(ToSet(futures)) /\ s.id \in Ids /\ s.id # t.id
  <2>1. s \in ToSet(futures) /\ s # t /\ s.kind = "handler"
    BY <1>1 DEF Handlers
  <2>2. s \in Handlers(ToSet(futures)) /\ s \in Futures
    BY <2>1 DEF Handlers, GInv, Typed, ToSet
  <2>3. asked[s.id] = s.call /\ asked[t.id] = t.call
    BY <1>2, <2>2 DEF GInv, Held
  <2>4. s.call # t.call
    BY <1>1, <2>1 DEF GInv, Typed
  <2> QED BY <2>2, <2>3, <2>4 DEF Futures
<1> QED BY <1>1, <1>2, <1>3, <1>4, <1>5, <1>6, <1>7

\* The cancels under way were wanted before the end of a handler as after it.
LEMMA EndKeepsCancels ==
  ASSUME GInv, NEW t, ToSet(futures)' \subseteq ToSet(futures), unwanted' = unwanted, calls' = calls,
         \A id \in Ids : asked'[id] = IF id = t.id THEN 0 ELSE asked[id]
  PROVE  \A s \in ToSet(futures)' : s.kind = "cancel" =>
           \E c \in 1..calls' : /\ <<s.id, c>> \in unwanted'
                                /\ asked'[s.id] # 0 => c <= asked'[s.id]
<1> SUFFICES ASSUME NEW s \in ToSet(futures)', s.kind = "cancel"
             PROVE  \E c \in 1..calls' : /\ <<s.id, c>> \in unwanted'
                                         /\ asked'[s.id] # 0 => c <= asked'[s.id]
  OBVIOUS
<1>1. s \in Futures
  BY FuturesAre
<1>2. PICK c \in 1..calls : /\ <<s.id, c>> \in unwanted
                            /\ asked[s.id] # 0 => c <= asked[s.id]
  BY DEF GInv, Wanted
<1>3. s.id \in Ids
  BY <1>1 DEF Futures
<1> QED BY <1>2, <1>3

\* An answer frees the id. One that says "cancelled" was wanted, by Wanted.
LEMMA HandlerReturnsKeeps ==
  ASSUME GInv, NEW i \in DOMAIN futures, HandlerReturns(i)
  PROVE  GInv'
<1> PICK t, what, F : /\ t = futures[i] /\ F = ToSet(futures)
                      /\ what = IF t.call \in abortedCalls THEN "cancelled" ELSE "done"
  OBVIOUS
<1>1. /\ Ends(i) /\ t.kind = "handler" /\ Answer(t, what) /\ what \in Words
      /\ pending' = Freed(pending, t.id) /\ abortedCalls' = abortedCalls /\ leaked' = leaked
      /\ calls' = calls /\ unwanted' = unwanted
  BY DEF HandlerReturns, Words
<1>2. /\ t \in Handlers(F) /\ t.id \in Ids /\ t.call \in 1..calls
      /\ futures' \in Seq(Futures) /\ OnceEach(futures')
      /\ ToSet(futures)' = F \ {t}
      /\ \A id \in Ids : asked'[id] = IF id = t.id THEN 0 ELSE asked[id]
      /\ asked' \in [Ids -> 0..calls]
      /\ \A s \in Handlers(ToSet(futures)') : s \in Handlers(F) /\ s.id \in Ids /\ s.id # t.id
      /\ \A id \in Ids : answers'[id] = IF id = t.id THEN [call |-> t.call, what |-> what] ELSE answers[id]
      /\ answers' \in [Ids -> [call : Nat, what : Words]]
  BY <1>1, HandlerEnds
<1>3. /\ pending' \in [Ids -> 0..calls] /\ calls \in Nat
      /\ \A id \in Ids : pending'[id] = IF id = t.id THEN 0 ELSE pending[id]
  BY <1>1, <1>2 DEF Freed, GInv, Typed
<1>4. Typed'
  <2>1. /\ \A s \in ToSet(futures)' : s.call \in 1..calls
        /\ \A s, u \in ToSet(futures)' : s.call = u.call => s = u
    BY <1>2 DEF GInv, Typed
  <2> QED BY <1>1, <1>2, <1>3, <2>1 DEF GInv, Typed
<1>5. Held'
  <2>1. \A s \in Handlers(F) : s.call # 0
    BY FuturesAre DEF Handlers
  <2>2. ASSUME NEW s \in Handlers(ToSet(futures)')
        PROVE  /\ asked'[s.id] = s.call
               /\ pending'[s.id] = s.call \/ s.call \in abortedCalls'
               /\ \A id \in Ids : pending'[id] = s.call => id = s.id
    <3>1. s \in Handlers(F) /\ s.id \in Ids /\ s.id # t.id
      BY <1>2
    <3>2. /\ asked[s.id] = s.call
          /\ pending[s.id] = s.call \/ s.call \in abortedCalls
          /\ \A id \in Ids : pending[id] = s.call => id = s.id
      BY <3>1 DEF GInv, Held
    <3>3. asked'[s.id] = s.call /\ (pending'[s.id] = s.call \/ s.call \in abortedCalls')
      BY <1>1, <1>2, <1>3, <3>1, <3>2
    <3>4. \A id \in Ids : pending'[id] = s.call => id = s.id
      BY <1>3, <2>1, <3>1, <3>2
    <3> QED BY <3>3, <3>4
  <2> QED BY <2>2 DEF Held
<1>6. Leaks'
  <2>1. ToSet(leaked)' = ToSet(leaked) /\ ToSet(leaked) \subseteq Ids
    BY <1>1 DEF GInv, Typed, ToSet
  <2> QED BY <1>2, <1>3, <2>1 DEF GInv, Leaks
<1>7. Wanted'
  <2>1. \A s \in ToSet(futures)' : s.kind = "cancel" =>
          \E c \in 1..calls' : /\ <<s.id, c>> \in unwanted'
                               /\ asked'[s.id] # 0 => c <= asked'[s.id]
    <3>1. ToSet(futures)' \subseteq ToSet(futures)
      BY <1>2
    <3>2. unwanted' = unwanted /\ calls' = calls
      BY <1>1
    <3>3. \A id \in Ids : asked'[id] = IF id = t.id THEN 0 ELSE asked[id]
      BY <1>2
    <3> QED BY <3>1, <3>2, <3>3, EndKeepsCancels
  <2>2. \A s \in Handlers(ToSet(futures)') : s.call \in abortedCalls' =>
          \E c \in 1..s.call : <<s.id, c>> \in unwanted'
    BY <1>1, <1>2 DEF GInv, Wanted
  <2> QED BY <2>1, <2>2 DEF Wanted
<1>8. Answered'
  <2>1. t.call \in abortedCalls => \E c \in 1..t.call : <<t.id, c>> \in unwanted
    BY <1>2 DEF GInv, Wanted
  <2>2. what # "invalid request" /\ (what = "cancelled" => t.call \in abortedCalls)
    OBVIOUS
  <2>3. ASSUME NEW id \in Ids
        PROVE  /\ answers'[id].what # "invalid request"
               /\ answers'[id].what = "cancelled" => \E c \in 1..answers'[id].call : <<id, c>> \in unwanted'
    <3>1. CASE id = t.id
      <4>1. answers'[id].what = what /\ answers'[id].call = t.call
        BY <1>2, <3>1
      <4> QED BY <1>1, <2>1, <2>2, <3>1, <4>1
    <3>2. CASE id # t.id
      <4>1. answers'[id] = answers[id]
        BY <1>2, <3>2
      <4> QED BY <1>1, <4>1 DEF GInv, Answered
    <3> QED BY <3>1, <3>2
  <2> QED BY <2>3 DEF Answered
<1> QED BY <1>4, <1>5, <1>6, <1>7, <1>8 DEF GInv

\* A panic leaves the entry in the table and lists the id.
LEMMA HandlerPanicsKeeps ==
  ASSUME GInv, NEW i \in DOMAIN futures, HandlerPanics(i)
  PROVE  GInv'
<1> PICK t, F : t = futures[i] /\ F = ToSet(futures)
  OBVIOUS
<1> DEFINE what == "internal error"
<1>1. /\ Ends(i) /\ t.kind = "handler" /\ Answer(t, what) /\ what \in Words
      /\ leaked' = Append(leaked, t.id) /\ pending' = pending /\ abortedCalls' = abortedCalls
      /\ calls' = calls /\ unwanted' = unwanted
  BY DEF HandlerPanics, Words
<1>2. /\ t \in Handlers(F) /\ t.id \in Ids /\ t.call \in 1..calls
      /\ futures' \in Seq(Futures) /\ OnceEach(futures')
      /\ ToSet(futures)' = F \ {t}
      /\ \A id \in Ids : asked'[id] = IF id = t.id THEN 0 ELSE asked[id]
      /\ asked' \in [Ids -> 0..calls]
      /\ \A s \in Handlers(ToSet(futures)') : s \in Handlers(F) /\ s.id \in Ids /\ s.id # t.id
      /\ \A id \in Ids : answers'[id] = IF id = t.id THEN [call |-> t.call, what |-> what] ELSE answers[id]
      /\ answers' \in [Ids -> [call : Nat, what : Words]]
  <2>1. t = futures[i]
    OBVIOUS
  <2> QED BY <1>1, <2>1, HandlerEnds
<1>3. leaked' \in Seq(Ids) /\ ToSet(leaked)' = ToSet(leaked) \cup {t.id} /\ ToSet(leaked) \subseteq Ids
  <2> PICK s, u, id : s = leaked /\ u = leaked' /\ id = t.id
    OBVIOUS
  <2>1. s \in Seq(Ids) /\ id \in Ids /\ u = Append(s, id)
    BY <1>1, <1>2 DEF GInv, Typed
  <2>2. u \in Seq(Ids) /\ ToSet(u) = ToSet(s) \cup {id} /\ ToSet(s) \subseteq Ids
    BY <2>1, AppendIs
  <2> QED BY <2>2
<1>4. Typed'
  <2>1. /\ \A s \in ToSet(futures)' : s.call \in 1..calls
        /\ \A s, u \in ToSet(futures)' : s.call = u.call => s = u
    BY <1>2 DEF GInv, Typed
  <2> QED BY <1>1, <1>2, <1>3, <2>1 DEF GInv, Typed
<1>5. Held'
  BY <1>1, <1>2 DEF GInv, Held
<1>6. Leaks'
  BY <1>1, <1>2, <1>3 DEF GInv, Leaks
<1>7. Wanted'
  <2>1. \A s \in ToSet(futures)' : s.kind = "cancel" =>
          \E c \in 1..calls' : /\ <<s.id, c>> \in unwanted'
                               /\ asked'[s.id] # 0 => c <= asked'[s.id]
    <3>1. ToSet(futures)' \subseteq ToSet(futures)
      BY <1>2
    <3>2. unwanted' = unwanted /\ calls' = calls
      BY <1>1
    <3>3. \A id \in Ids : asked'[id] = IF id = t.id THEN 0 ELSE asked[id]
      BY <1>2
    <3> QED BY <3>1, <3>2, <3>3, EndKeepsCancels
  <2>2. \A s \in Handlers(ToSet(futures)') : s.call \in abortedCalls' =>
          \E c \in 1..s.call : <<s.id, c>> \in unwanted'
    BY <1>1, <1>2 DEF GInv, Wanted
  <2> QED BY <2>1, <2>2 DEF Wanted
<1>8. Answered'
  <2>1. what # "invalid request" /\ what # "cancelled"
    OBVIOUS
  <2>2. ASSUME NEW id \in Ids
        PROVE  /\ answers'[id].what # "invalid request"
               /\ answers'[id].what = "cancelled" => \E c \in 1..answers'[id].call : <<id, c>> \in unwanted'
    <3>1. CASE id = t.id
      <4>1. answers'[id] = [call |-> t.call, what |-> what]
        BY <1>2, <3>1
      <4>2. answers'[id].what = what
        <5> HIDE DEF what
        <5> QED BY <4>1
      <4> QED BY <2>1, <4>2
    <3>2. CASE id # t.id
      <4>1. answers'[id] = answers[id]
        BY <1>2, <3>2
      <4> QED BY <1>1, <4>1 DEF GInv, Answered
    <3> QED BY <3>1, <3>2
  <2> QED BY <2>2 DEF Answered
<1> QED BY <1>4, <1>5, <1>6, <1>7, <1>8 DEF GInv

\* A cancel that is polled late may find another request of its id in the
\* table: it aborts that one, which the client had asked to cancel as little as
\* Wanted says.
LEMMA CancelsKeeps ==
  ASSUME GInv, NEW i \in DOMAIN futures, Cancels(i)
  PROVE  GInv'
<1> PICK t, F : t = futures[i] /\ F = ToSet(futures)
  OBVIOUS
<1>1. /\ Ends(i) /\ t.kind = "cancel" /\ pending' = Freed(pending, t.id)
      /\ abortedCalls' = abortedCalls \cup Aborts(pending, {t.id}) /\ leaked' = leaked
      /\ calls' = calls /\ asked' = asked /\ unwanted' = unwanted /\ answers' = answers
  BY DEF Cancels
<1>2. /\ futures' \in Seq(Futures) /\ OnceEach(futures')
      /\ ToSet(futures)' = F \ {t} /\ t \in Futures /\ t \in F /\ t.id \in Ids
  BY <1>1, EndsTakesOne DEF GInv, Futures
<1>3. /\ pending' \in [Ids -> 0..calls] /\ calls \in Nat /\ pending[t.id] \in 0..calls
      /\ \A id \in Ids : pending'[id] = IF id = t.id THEN 0 ELSE pending[id]
  BY <1>1, <1>2 DEF Freed, GInv, Typed
<1>4. \A c : c \in abortedCalls' <=> c \in abortedCalls \/ (c = pending[t.id] /\ c # 0)
  BY <1>1 DEF Aborts
<1>5. Handlers(ToSet(futures)') = Handlers(F)
  BY <1>1, <1>2 DEF Handlers
<1>6. \A s \in Handlers(F) : s \in F /\ s.id \in Ids /\ s.call \in 1..calls
  BY FuturesAre DEF Handlers
<1>7. Typed'
  <2>1. /\ \A s \in ToSet(futures)' : s.call \in 1..calls
        /\ \A s, u \in ToSet(futures)' : s.call = u.call => s = u
    BY <1>2 DEF GInv, Typed
  <2>2. abortedCalls' \subseteq 1..calls
    <3>1. abortedCalls \subseteq 1..calls
      BY DEF GInv, Typed
    <3>2. pending[t.id] # 0 => pending[t.id] \in 1..calls
      BY <1>3
    <3> QED BY <1>4, <3>1, <3>2
  <2> QED BY <1>1, <1>2, <1>3, <2>1, <2>2 DEF GInv, Typed
<1>8. Held'
  <2>1. ASSUME NEW s \in Handlers(F)
        PROVE  /\ asked[s.id] = s.call
               /\ pending'[s.id] = s.call \/ s.call \in abortedCalls'
               /\ \A id \in Ids : pending'[id] = s.call => id = s.id
    BY <1>3, <1>4, <1>6 DEF GInv, Held
  <2> QED BY <1>1, <1>5, <2>1 DEF Held
<1>9. Leaks'
  <2>1. ToSet(leaked)' = ToSet(leaked)
    BY <1>1
  <2> QED BY <1>1, <1>3, <2>1 DEF GInv, Leaks
<1>10. Wanted'
  <2>1. ASSUME NEW s \in Handlers(F), s.call \in abortedCalls'
        PROVE  \E c \in 1..s.call : <<s.id, c>> \in unwanted
    <3>1. CASE s.call \in abortedCalls
      BY <3>1 DEF GInv, Wanted
    <3>2. CASE s.call \notin abortedCalls
      <4>1. pending[t.id] = s.call /\ s.id = t.id /\ asked[t.id] = s.call /\ s.call # 0
        BY <1>2, <1>4, <1>6, <2>1, <3>2 DEF GInv, Held
      <4>2. PICK c \in 1..calls : <<t.id, c>> \in unwanted /\ (asked[t.id] # 0 => c <= asked[t.id])
        BY <1>1, <1>2 DEF GInv, Wanted
      <4> QED BY <1>6, <4>1, <4>2
    <3> QED BY <3>1, <3>2
  <2>2. \A s \in ToSet(futures)' : s.kind = "cancel" =>
          \E c \in 1..calls' : /\ <<s.id, c>> \in unwanted'
                               /\ asked'[s.id] # 0 => c <= asked'[s.id]
    BY <1>1, <1>2 DEF GInv, Wanted
  <2> QED BY <1>1, <1>5, <2>1, <2>2 DEF Wanted
<1>11. Answered'
  BY <1>1 DEF GInv, Answered
<1> QED BY <1>7, <1>8, <1>9, <1>10, <1>11 DEF GInv

\* No call is ever rejected.
LEMMA NoneRejected ==
  ASSUME GInv, NEW i \in DOMAIN futures
  PROVE  ~Rejected(i)
<1>1. futures[i] \in Futures
  BY DEF GInv, Typed
<1> QED BY <1>1 DEF Rejected, Futures

\* The steps together.
LEMMA NextKeeps ==
  ASSUME GInv, [GuardNext]_guardVars
  PROVE  GInv'
<1>1. CASE UNCHANGED guardVars
  BY <1>1 DEF guardVars, GInv, Typed, Held, Leaks, Wanted, Answered
<1>2. CASE \E id \in Ids : Request(id) \/ CancelRequest(id)
  BY <1>2, RequestKeeps, CancelRequestKeeps
<1>3. ASSUME NEW i \in DOMAIN futures, HandlerReturns(i) \/ HandlerPanics(i) \/ Rejected(i) \/ Cancels(i)
      PROVE  GInv'
  BY <1>3, HandlerReturnsKeeps, HandlerPanicsKeeps, CancelsKeeps, NoneRejected
<1> QED BY <1>1, <1>2, <1>3 DEF GuardNext

\* The invariant has the property in it.
LEMMA StaysAlone ==
  ASSUME GInv
  PROVE  PanicsStayAlone
BY DEF GInv, Held, Handlers, Answered, PanicsStayAlone

\* PanicGuard::call: whatever the requests, cancels and panics of the client's
\* session, an id that a panic leaves in the pending table costs no later
\* request its answer, and no open request its place in the table.
THEOREM PanicsCostOne == GuardSpec => []PanicsStayAlone
<1>1. GuardInit => GInv
  BY InitHolds
<1>2. GInv /\ [GuardNext]_guardVars => GInv'
  BY NextKeeps
<1>3. GInv => PanicsStayAlone
  BY StaysAlone
<1> QED BY <1>1, <1>2, <1>3, PTL DEF GuardSpec
=============================================================================
