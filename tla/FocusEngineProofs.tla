-------------------------- MODULE FocusEngineProofs --------------------------
(***************************************************************************)
(* Theorems about FocusEngine, for any sessions and bounds: its types, and *)
(* what its comment says of the needs-you queue.  The calls interleave at  *)
(* every await, so the argument is about the calls still under way: what   *)
(* the last one will leave behind, and in which order they are handled     *)
(* (QueueInv).                                                             *)
(***************************************************************************)
EXTENDS FocusEngine, SumFacts

-----------------------------------------------------------------------------
(* The queue                                                               *)

\* The recursion of Dequeued, one step of it.
Keeping(q, s, kept, n) ==
  IF n = 0 THEN <<>>
  ELSE IF q[n] = s THEN kept[n - 1] ELSE Append(kept[n - 1], q[n])

LEMMA KeptExists ==
  ASSUME NEW q, NEW s, Len(q) \in Nat
  PROVE  \E kept : kept = [n \in 0..Len(q) |-> Keeping(q, s, kept, n)]
<1> DEFINE Defined(m) == \E kept : kept = [n \in 0..m |-> Keeping(q, s, kept, n)]
<1>1. Defined(0)
  <2> DEFINE none == [n \in 0..0 |-> <<>>]
  <2>1. none = [n \in 0..0 |-> Keeping(q, s, none, n)]
    BY DEF Keeping
  <2> QED  BY <2>1
<1>2. ASSUME NEW m \in Nat, Defined(m) PROVE Defined(m + 1)
  <2>1. PICK g : g = [n \in 0..m |-> Keeping(q, s, g, n)]
    BY <1>2
  <2> DEFINE h == [n \in 0..(m + 1) |-> Keeping(q, s, g, n)]
  <2>2. \A n \in 0..m : h[n] = g[n]
    <3>1. \A n \in 0..m : n \in 0..(m + 1)
      OBVIOUS
    <3>2. \A n \in 0..m : g[n] = Keeping(q, s, g, n)
      BY <2>1
    <3> QED  BY <3>1, <3>2
  <2> HIDE DEF h
  <2>3. ASSUME NEW n \in 0..(m + 1) PROVE Keeping(q, s, g, n) = Keeping(q, s, h, n)
    <3>1. n # 0 => n - 1 \in 0..m
      OBVIOUS
    <3> QED  BY <2>2, <3>1 DEF Keeping
  <2>4. h = [n \in 0..(m + 1) |-> Keeping(q, s, h, n)]
    BY <2>3 DEF h
  <2> QED  BY <2>4
<1> HIDE DEF Defined
<1> DEFINE Missing == {m \in Nat : ~Defined(m)}
<1>3. ASSUME Missing # {} PROVE FALSE
  <2>1. Missing \in SUBSET Nat
    OBVIOUS
  <2>2. PICK m \in Missing : \A k \in Missing : m <= k
    <3> HIDE DEF Missing
    <3> QED  BY <1>3, <2>1, LeastNatural
  <2>3. m # 0 /\ m \in Nat /\ ~Defined(m)
    BY <1>1
  <2>4. m - 1 \in Nat /\ m - 1 \notin Missing
    BY <2>2, <2>3
  <2>5. Defined((m - 1) + 1)
    BY <1>2, <2>4
  <2> QED  BY <2>3, <2>5
<1>4. Defined(Len(q))
  BY <1>3
<1> QED  BY <1>4 DEF Defined

\* What is left of q after its first n elements, in the order of q.
KeptFrom(q, s, k, n) ==
  /\ \A o : Contains(k, o) <=> o # s /\ \E i \in 1..n : q[i] = o
  /\ \A i, j \in 1..Len(k) : i < j =>
       \E a, b \in 1..n : a < b /\ q[a] = k[i] /\ q[b] = k[j]

LEMMA KeepsOne ==
  ASSUME NEW S, NEW q \in Seq(S), NEW s, NEW n \in 1..Len(q), NEW k \in Seq(S),
         KeptFrom(q, s, k, n - 1), q[n] # s
  PROVE  Append(k, q[n]) \in Seq(S) /\ KeptFrom(q, s, Append(k, q[n]), n)
<1> DEFINE x == q[n]
           more == Append(k, x)
<1>1. /\ x \in S /\ more \in Seq(S) /\ Len(k) \in Nat /\ Len(more) = Len(k) + 1 /\ n \in Nat
      /\ more[Len(k) + 1] = x /\ \A i \in 1..Len(k) : more[i] = k[i]
      /\ n - 1 \in Nat
  OBVIOUS
<1>2. \A i \in 1..(n - 1) : i \in 1..n /\ i < n
  BY <1>1
<1> HIDE DEF more
<1>3. ASSUME NEW o PROVE Contains(more, o) <=> o # s /\ \E i \in 1..n : q[i] = o
  <2>1. Contains(more, o) <=> Contains(k, o) \/ o = x
    BY <1>1 DEF Contains
  <2>2. Contains(k, o) <=> o # s /\ \E i \in 1..(n - 1) : q[i] = o
    BY DEF KeptFrom
  <2>3. \A i \in 1..n : i \in 1..(n - 1) \/ i = n
    BY <1>1
  <2> QED  BY <1>1, <1>2, <2>1, <2>2, <2>3
<1>4. ASSUME NEW i \in 1..Len(more), NEW j \in 1..Len(more), i < j
      PROVE  \E a, b \in 1..n : a < b /\ q[a] = more[i] /\ q[b] = more[j]
  <2>1. CASE j = Len(k) + 1
    <3>1. i \in 1..Len(k) /\ more[i] = k[i] /\ more[j] = x
      BY <1>1, <1>4, <2>1
    <3>2. Contains(k, k[i])
      BY <3>1 DEF Contains
    <3>3. PICK a \in 1..(n - 1) : q[a] = k[i]
      BY <3>2 DEF KeptFrom
    <3>4. a \in 1..n /\ n \in 1..n /\ a < n
      BY <1>2
    <3> QED  BY <3>1, <3>3, <3>4
  <2>2. CASE j # Len(k) + 1
    <3>1. i \in 1..Len(k) /\ j \in 1..Len(k)
      BY <1>1, <1>4, <2>2
    <3>2. PICK a, b \in 1..(n - 1) : a < b /\ q[a] = k[i] /\ q[b] = k[j]
      BY <1>4, <3>1 DEF KeptFrom
    <3> QED  BY <1>1, <1>2, <3>1, <3>2
  <2> QED  BY <2>1, <2>2
<1>5. KeptFrom(q, s, more, n)
  BY <1>3, <1>4 DEF KeptFrom
<1> QED  BY <1>1, <1>5 DEF more

LEMMA SkipsOne ==
  ASSUME NEW S, NEW q \in Seq(S), NEW s, NEW n \in 1..Len(q), NEW k,
         KeptFrom(q, s, k, n - 1), q[n] = s
  PROVE  KeptFrom(q, s, k, n)
<1>1. /\ \A i \in 1..(n - 1) : i \in 1..n
      /\ \A i \in 1..n : i \in 1..(n - 1) \/ i = n
  OBVIOUS
<1>2. \A o : Contains(k, o) <=> o # s /\ \E i \in 1..n : q[i] = o
  BY <1>1 DEF KeptFrom
<1>3. \A i, j \in 1..Len(k) : i < j => \E a, b \in 1..n : a < b /\ q[a] = k[i] /\ q[b] = k[j]
  BY <1>1 DEF KeptFrom
<1> QED  BY <1>2, <1>3 DEF KeptFrom

\* Who stands before whom in k, stands before them in q.
OrderOf(k, q) ==
  \A i, j \in 1..Len(k) : i < j =>
    \E a, b \in 1..Len(q) : a < b /\ q[a] = k[i] /\ q[b] = k[j]

\* Taking s out of a queue keeps the others, in their order.
LEMMA DequeuedFacts ==
  ASSUME NEW S, NEW q \in Seq(S), NEW s
  PROVE  /\ Dequeued(q, s) \in Seq(S)
         /\ \A o : Contains(Dequeued(q, s), o) <=> o # s /\ Contains(q, o)
         /\ OrderOf(Dequeued(q, s), q)
<1>1. Len(q) \in Nat
  OBVIOUS
<1> DEFINE Rec(kept) == kept = [n \in 0..Len(q) |-> Keeping(q, s, kept, n)]
           it == CHOOSE kept : Rec(kept)
<1>2. Dequeued(q, s) = it[Len(q)]
  BY DEF Dequeued, Keeping
<1>3. Rec(it)
  <2>1. \E kept : Rec(kept)
    BY <1>1, KeptExists
  <2> HIDE DEF Rec
  <2> QED  BY <2>1
<1> HIDE DEF it
<1>4. \A n \in 0..Len(q) : it[n] = Keeping(q, s, it, n)
  BY <1>3
<1> DEFINE Good(n) == it[n] \in Seq(S) /\ KeptFrom(q, s, it[n], n)
           Bad == {n \in Nat : n <= Len(q) /\ ~Good(n)}
<1>5. Good(0)
  <2>1. it[0] = <<>> /\ <<>> \in Seq(S) /\ Len(<<>>) = 0
    BY <1>1, <1>4 DEF Keeping
  <2>2. KeptFrom(q, s, <<>>, 0)
    BY <2>1 DEF KeptFrom, Contains
  <2> QED  BY <2>1, <2>2
<1>6. ASSUME NEW n \in 1..Len(q), Good(n - 1) PROVE Good(n)
  <2>1. n \in 0..Len(q) /\ n # 0
    BY <1>1
  <2>2. CASE q[n] = s
    <3>1. it[n] = it[n - 1]
      BY <1>4, <2>1, <2>2 DEF Keeping
    <3> QED  BY <1>6, <2>2, <3>1, SkipsOne
  <2>3. CASE q[n] # s
    <3>1. it[n] = Append(it[n - 1], q[n])
      BY <1>4, <2>1, <2>3 DEF Keeping
    <3> QED  BY <1>6, <2>3, <3>1, KeepsOne
  <2> QED  BY <2>2, <2>3
<1> HIDE DEF Good
<1>7. ASSUME Bad # {} PROVE FALSE
  <2>1. Bad \in SUBSET Nat
    OBVIOUS
  <2>2. PICK m \in Bad : \A k \in Bad : m <= k
    <3> HIDE DEF Bad
    <3> QED  BY <1>7, <2>1, LeastNatural
  <2>3. m \in 1..Len(q) /\ ~Good(m)
    BY <1>1, <1>5
  <2>4. m - 1 \in Nat /\ m - 1 <= Len(q) /\ ~(m <= m - 1)
    BY <1>1, <2>3
  <2>5. Good(m - 1)
    BY <2>2, <2>4
  <2> QED  BY <1>6, <2>3, <2>5
<1>8. Good(Len(q))
  BY <1>1, <1>7
<1> DEFINE k == Dequeued(q, s)
<1>9. k \in Seq(S) /\ KeptFrom(q, s, k, Len(q))
  BY <1>2, <1>8 DEF Good
<1> HIDE DEF k
<1>10. \A o : Contains(k, o) <=> o # s /\ Contains(q, o)
  BY <1>9 DEF KeptFrom, Contains
<1>11. OrderOf(k, q)
  BY <1>9 DEF KeptFrom, OrderOf
<1> QED  BY <1>9, <1>10, <1>11 DEF k

LEMMA EnqueuedFacts ==
  ASSUME NEW S, NEW q \in Seq(S), NEW s \in S
  PROVE  /\ Enqueued(q, s) \in Seq(S)
         /\ \A o : Contains(Enqueued(q, s), o) <=> o = s \/ Contains(q, o)
         /\ Contains(q, s) => Enqueued(q, s) = q
         /\ ~Contains(q, s) => /\ Len(Enqueued(q, s)) = Len(q) + 1
                               /\ Enqueued(q, s)[Len(q) + 1] = s
                               /\ \A i \in 1..Len(q) : Enqueued(q, s)[i] = q[i]
<1>1. CASE Contains(q, s)
  <2>1. Enqueued(q, s) = q
    BY <1>1 DEF Enqueued
  <2> QED  BY <1>1, <2>1
<1>2. CASE ~Contains(q, s)
  <2> DEFINE more == Append(q, s)
  <2>1. Enqueued(q, s) = more
    BY <1>2 DEF Enqueued
  <2>2. /\ more \in Seq(S) /\ Len(more) = Len(q) + 1 /\ Len(q) \in Nat
        /\ more[Len(q) + 1] = s /\ \A i \in 1..Len(q) : more[i] = q[i]
    OBVIOUS
  <2> HIDE DEF more
  <2>3. \A o : Contains(more, o) <=> o = s \/ Contains(q, o)
    BY <2>2 DEF Contains
  <2> QED  BY <1>2, <2>1, <2>2, <2>3
<1> QED  BY <1>1, <1>2

-----------------------------------------------------------------------------
(* What a step does to the calls under way                                 *)

Unhandled == {"detect", "detected"}

LEMMA CallTypes ==
  ASSUME TypeOK
  PROVE  /\ calls \in Seq(Calls) /\ Len(calls) \in Nat
         /\ \A i \in 1..Len(calls) :
              /\ calls[i] \in Calls /\ calls[i].kind \in CallKinds /\ calls[i].session \in Sessions
              /\ calls[i].at \in Waits /\ calls[i].sample \in Panes \cup {None}
              /\ calls[i].left \in BOOLEAN
<1>1. calls \in Seq(Calls)
  BY DEF TypeOK
<1>2. Len(calls) \in Nat /\ \A i \in 1..Len(calls) : calls[i] \in Calls
  BY <1>1
<1> QED  BY <1>1, <1>2 DEF Calls

\* The calls of every session are as they were, those unhandled included.
KeepsCalls(s) ==
  /\ TransitionsOf(s)' = TransitionsOf(s) /\ PendingOf(s)' = PendingOf(s)
  /\ \A i \in TransitionsOf(s) : calls'[i].kind = calls[i].kind

\* Only how far the calls have come may change, and of no call that was or is unhandled.
LEMMA SameCalls ==
  ASSUME TypeOK, Len(calls') = Len(calls),
         \A i \in 1..Len(calls) :
           /\ calls'[i].kind = calls[i].kind /\ calls'[i].session = calls[i].session
           /\ calls[i].kind \in Transitions =>
                (calls'[i].at \in Unhandled <=> calls[i].at \in Unhandled)
  PROVE  \A s \in Sessions : KeepsCalls(s)
BY DEF KeepsCalls, TransitionsOf, PendingOf, Unhandled

\* Call i goes on as c.
LEMMA OneCall ==
  ASSUME TypeOK, NEW i \in 1..Len(calls), NEW c \in Calls,
         calls' = [calls EXCEPT ![i] = c]
  PROVE  /\ calls' \in Seq(Calls) /\ Len(calls') = Len(calls) /\ Len(calls') <= MaxCalls
         /\ calls'[i] = c /\ \A j \in 1..Len(calls) : j # i => calls'[j] = calls[j]
<1>1. Len(calls) <= MaxCalls
  BY DEF TypeOK
<1>2. calls \in Seq(Calls)
  BY DEF TypeOK
<1> QED  BY <1>1, <1>2

LEMMA GotoFacts ==
  ASSUME TypeOK, NEW i \in 1..Len(calls), NEW at \in Waits, Goto(i, at)
  PROVE  /\ calls' \in Seq(Calls) /\ Len(calls') = Len(calls) /\ Len(calls') <= MaxCalls
         /\ calls'[i].kind = calls[i].kind /\ calls'[i].session = calls[i].session
         /\ calls'[i].at = at
         /\ \A j \in 1..Len(calls) : j # i => calls'[j] = calls[j]
<1> DEFINE c == [calls[i] EXCEPT !.at = at]
<1>1. /\ c \in Calls /\ c.kind = calls[i].kind /\ c.session = calls[i].session /\ c.at = at
  <2>1. calls[i] \in Calls
    BY CallTypes
  <2> QED  BY <2>1 DEF Calls
<1>2. calls' = [calls EXCEPT ![i] = c]
  BY DEF Goto
<1> HIDE DEF c
<1> QED  BY <1>1, <1>2, OneCall

\* A call that is not an unhandled transition, and does not become one, goes on.
LEMMA GotoKeeps ==
  ASSUME TypeOK, NEW i \in 1..Len(calls), NEW at \in Waits, Goto(i, at),
         calls[i].kind \in Transitions => calls[i].at \notin Unhandled /\ at \notin Unhandled
  PROVE  \A s \in Sessions : KeepsCalls(s)
BY GotoFacts, SameCalls

\* A new call.
LEMMA BeginFacts ==
  ASSUME TypeOK, NEW kind \in CallKinds, NEW s \in Sessions, NEW at \in Waits, Begin(kind, s, at)
  PROVE  LET n == Len(calls) + 1 IN
         /\ calls' \in Seq(Calls) /\ Len(calls') = n /\ Len(calls') <= MaxCalls
         /\ n \in Nat /\ n \notin 1..Len(calls)
         /\ calls'[n].kind = kind /\ calls'[n].session = s /\ calls'[n].at = at
         /\ \A j \in 1..Len(calls) : calls'[j] = calls[j]
<1> DEFINE c == [kind |-> kind, session |-> s, at |-> at, sample |-> None, left |-> FALSE]
<1>1. c \in Calls /\ c.kind = kind /\ c.session = s /\ c.at = at
  BY DEF Calls
<1>2. calls' = Append(calls, c) /\ Len(calls) < MaxCalls /\ calls \in Seq(Calls)
  BY DEF Begin, TypeOK
<1> HIDE DEF c
<1>3. MaxCalls \in Nat
  BY FocusAssumption DEF FocusAssumption
<1> QED  BY <1>1, <1>2, <1>3

\* A grace timer's call or a jump announces nothing.
LEMMA BeginKeeps ==
  ASSUME TypeOK, NEW kind \in {"grace", "focus"}, NEW s \in Sessions, NEW at \in Waits,
         Begin(kind, s, at)
  PROVE  \A t \in Sessions : KeepsCalls(t)
<1>1. kind \in CallKinds /\ kind \notin Transitions
  BY DEF CallKinds, Transitions, SessionStates
<1>2. LET n == Len(calls) + 1 IN
      /\ Len(calls') = n /\ n \in Nat /\ calls'[n].kind = kind
      /\ \A j \in 1..Len(calls) : calls'[j] = calls[j]
  BY <1>1, BeginFacts
<1>3. \A j : j \in 1..Len(calls') <=> j \in 1..Len(calls) \/ j = Len(calls) + 1
  BY <1>2, CallTypes
<1> SUFFICES ASSUME NEW t \in Sessions PROVE KeepsCalls(t)
  OBVIOUS
<1>4. TransitionsOf(t)' = TransitionsOf(t)
  BY <1>1, <1>2, <1>3 DEF TransitionsOf
<1>5. \A i \in TransitionsOf(t) : calls'[i] = calls[i]
  BY <1>2 DEF TransitionsOf
<1> QED  BY <1>4, <1>5 DEF KeepsCalls, PendingOf

\* The calls of s get one more, which is to be handled.
LEMMA BeginAdds ==
  ASSUME TypeOK, NEW to \in Transitions, NEW s \in Sessions, Begin(to, s, "detect")
  PROVE  LET n == Len(calls) + 1 IN
         /\ n \in Nat /\ calls'[n].kind = to /\ \A i \in TransitionsOf(s) : i \in Nat /\ i < n
         /\ TransitionsOf(s)' = TransitionsOf(s) \cup {n} /\ PendingOf(s)' = PendingOf(s) \cup {n}
         /\ \A i \in TransitionsOf(s) : calls'[i].kind = calls[i].kind
         /\ \A t \in Sessions \ {s} : KeepsCalls(t)
<1> DEFINE n == Len(calls) + 1
<1>1. /\ Len(calls') = n /\ n \in Nat /\ n \notin 1..Len(calls)
      /\ calls'[n].kind = to /\ calls'[n].session = s /\ calls'[n].at = "detect"
      /\ \A j \in 1..Len(calls) : calls'[j] = calls[j]
  BY BeginFacts DEF CallKinds, Waits
<1>2. \A j : j \in 1..Len(calls') <=> j \in 1..Len(calls) \/ j = n
  BY <1>1, CallTypes
<1>3. \A i \in TransitionsOf(s) : i \in Nat /\ i < n
  BY CallTypes DEF TransitionsOf
<1> HIDE DEF n
<1>4. TransitionsOf(s)' = TransitionsOf(s) \cup {n}
  BY <1>1, <1>2 DEF TransitionsOf
<1>5. PendingOf(s)' = PendingOf(s) \cup {n}
  BY <1>1, <1>2 DEF TransitionsOf, PendingOf
<1>6. \A i \in TransitionsOf(s) : calls'[i].kind = calls[i].kind
  BY <1>1 DEF TransitionsOf
<1>7. ASSUME NEW t \in Sessions \ {s} PROVE KeepsCalls(t)
  <2>1. TransitionsOf(t)' = TransitionsOf(t)
    BY <1>1, <1>2 DEF TransitionsOf
  <2>2. \A i \in TransitionsOf(t) : calls'[i] = calls[i]
    BY <1>1 DEF TransitionsOf
  <2> QED  BY <2>1, <2>2 DEF KeepsCalls, PendingOf
<1> QED  BY <1>1, <1>3, <1>4, <1>5, <1>6, <1>7 DEF n

\* An unhandled transition of s is handled.
LEMMA GotoHandles ==
  ASSUME TypeOK, NEW i \in 1..Len(calls), NEW at \in Waits \ Unhandled, Goto(i, at),
         calls[i].kind \in Transitions, calls[i].at \in Unhandled, NEW s, s = calls[i].session
  PROVE  /\ i \in PendingOf(s)
         /\ TransitionsOf(s)' = TransitionsOf(s) /\ PendingOf(s)' = PendingOf(s) \ {i}
         /\ \A j \in TransitionsOf(s) : calls'[j].kind = calls[j].kind
         /\ \A t \in Sessions \ {s} : KeepsCalls(t)
<1>1. /\ Len(calls') = Len(calls)
      /\ calls'[i].kind = calls[i].kind /\ calls'[i].session = calls[i].session /\ calls'[i].at = at
      /\ \A j \in 1..Len(calls) : j # i => calls'[j] = calls[j]
  BY GotoFacts
<1>2. \A j \in 1..Len(calls) : calls'[j].kind = calls[j].kind /\ calls'[j].session = calls[j].session
  BY <1>1
<1>3. \A t \in Sessions : TransitionsOf(t)' = TransitionsOf(t)
  BY <1>1, <1>2 DEF TransitionsOf
<1>4. /\ s \in Sessions /\ i \in PendingOf(s)
      /\ \A t \in Sessions \ {s} : i \notin TransitionsOf(t)
  BY CallTypes DEF TransitionsOf, PendingOf, Unhandled
<1>5. \A t \in Sessions : \A j \in TransitionsOf(t) : j # i => calls'[j] = calls[j]
  BY <1>1 DEF TransitionsOf
<1>6. PendingOf(s)' = PendingOf(s) \ {i}
  <2>1. at \notin {"detect", "detected"}
    BY DEF Unhandled
  <2>2. PendingOf(s)' = {j \in TransitionsOf(s) : calls'[j].at \in {"detect", "detected"}}
    BY <1>3, <1>4 DEF PendingOf
  <2> QED  BY <1>1, <1>4, <1>5, <2>1, <2>2 DEF PendingOf
<1>7. ASSUME NEW t \in Sessions \ {s} PROVE KeepsCalls(t)
  <2>1. PendingOf(t)' = PendingOf(t)
    BY <1>3, <1>4, <1>5 DEF PendingOf
  <2>2. \A j \in TransitionsOf(t) : calls'[j].kind = calls[j].kind
    BY <1>2 DEF TransitionsOf
  <2> QED  BY <1>3, <2>1, <2>2 DEF KeepsCalls
<1>8. \A j \in TransitionsOf(s) : calls'[j].kind = calls[j].kind
  BY <1>2 DEF TransitionsOf
<1> QED  BY <1>3, <1>4, <1>6, <1>7, <1>8

-----------------------------------------------------------------------------
(* What a step is to the queue: one of five things, or nothing.            *)

\* What the queue properties speak of, besides the calls.
queueVars == <<state, queue, serviced, overlapped, overtaken, asked, events>>

\* Nothing that concerns the queue.
Quiet == UNCHANGED queueVars /\ \A t \in Sessions : KeepsCalls(t)

\* The first event of s finds it waiting, as a session nobody has seen does.
Appears(s) ==
  /\ state[s] = None /\ state' = [state EXCEPT ![s] = "HUMAN_ACTIVE"]
  /\ serviced' = serviced \cup {s} /\ events' = events + 1
  /\ UNCHANGED <<queue, overlapped, overtaken, asked>>
  /\ \A t \in Sessions : KeepsCalls(t)

\* The state of s changes, and a call is to announce it.
Announces(s, to) ==
  /\ to # state[s] /\ state' = [state EXCEPT ![s] = to]
  /\ to = "HUMAN_ACTIVE" => state[s] # None
  /\ to = "STALE" => state[s] = "CC_WORKING"
  /\ ChangeState(s, to)
  /\ events' = events + 1 /\ UNCHANGED overtaken

\* The user jumps to s.
Jumps(s) ==
  /\ queue' = Dequeued(queue, s) /\ serviced' = serviced \cup {s}
  /\ UNCHANGED <<state, overlapped, overtaken, asked, events>>
  /\ \A t \in Sessions : KeepsCalls(t)

\* Call i, which announced a change of s, is handled.
Handles(s, i) ==
  /\ i \in PendingOf(s) /\ TransitionsOf(s)' = TransitionsOf(s)
  /\ PendingOf(s)' = PendingOf(s) \ {i}
  /\ \A j \in TransitionsOf(s) : calls'[j].kind = calls[j].kind
  /\ \A t \in Sessions \ {s} : KeepsCalls(t)
  /\ \/ calls[i].kind = "HUMAN_ACTIVE" /\ queue' = Enqueued(queue, s)
     \/ calls[i].kind \in {"CC_WORKING", "DEAD"} /\ queue' = Dequeued(queue, s)
     \/ calls[i].kind = "STALE" /\ queue' = queue
  /\ overtaken' = IF \E j \in PendingOf(s) : j < i THEN overtaken \cup {s} ELSE overtaken
  /\ UNCHANGED <<state, serviced, overlapped, asked, events>>

\* One of these.
QueueStep ==
  \/ Quiet
  \/ \E s \in Sessions : \/ Appears(s) \/ Jumps(s)
                         \/ \E to \in Transitions : Announces(s, to)
                         \/ \E i \in PendingOf(s) : Handles(s, i)

\* The types that do not concern the queue.
RestTyped ==
  /\ grace \subseteq Sessions
  /\ paused \in BOOLEAN /\ cooldown \in BOOLEAN /\ dwelling \in BOOLEAN
  /\ lastSetTarget \in Panes \cup {None} /\ cursor \in Panes
  /\ banner \in Sessions \cup {None} /\ upsets \in 0..MaxUpsets

\* And those that do.
QueueTyped ==
  /\ state \in [Sessions -> SessionStates \cup {None}]
  /\ queue \in Seq(Sessions)
  /\ serviced \subseteq Sessions
  /\ overlapped \subseteq Sessions /\ overtaken \subseteq Sessions
  /\ asked \in [Sessions -> 0..MaxEvents] /\ events \in 0..MaxEvents

CallsTyped == calls \in Seq(Calls) /\ Len(calls) <= MaxCalls

LEMMA TypeParts == TypeOK <=> RestTyped /\ QueueTyped /\ CallsTyped
BY DEF TypeOK, RestTyped, QueueTyped, CallsTyped

LEMMA TypePartsAfter == TypeOK' <=> RestTyped' /\ QueueTyped' /\ CallsTyped'
BY DEF TypeOK, RestTyped, QueueTyped, CallsTyped

\* Steps that leave all of it alone.
LEMMA QuietTyped ==
  ASSUME TypeOK, Quiet, RestTyped', CallsTyped'
  PROVE  TypeOK' /\ QueueStep
<1>1. QueueTyped'
  BY TypeParts DEF Quiet, queueVars, QueueTyped
<1> QED  BY <1>1, TypePartsAfter DEF QueueStep

LEMMA UpsetTyped ==
  ASSUME TypeOK, Upset \/ UNCHANGED upsets
  PROVE  upsets' \in 0..MaxUpsets
<1>1. MaxUpsets \in Nat /\ upsets \in 0..MaxUpsets
  BY FocusAssumption DEF FocusAssumption, TypeOK
<1> QED  BY <1>1 DEF Upset

\* A call that is not an unhandled transition, and does not become one, goes on.
LEMMA GotoQuiet ==
  ASSUME TypeOK, NEW i \in 1..Len(calls), NEW at \in Waits, Goto(i, at), UNCHANGED queueVars,
         calls[i].at \notin Unhandled \/ calls[i].kind \notin Transitions, at \notin Unhandled,
         RestTyped'
  PROVE  TypeOK' /\ QueueStep
<1>1. CallsTyped'
  BY GotoFacts DEF CallsTyped
<1>2. Quiet
  BY GotoKeeps DEF Quiet
<1> QED  BY <1>1, <1>2, QuietTyped

LEMMA SetPausedStep ==
  ASSUME TypeOK, NEW p \in BOOLEAN, SetPaused(p)
  PROVE  TypeOK' /\ QueueStep
<1>1. UNCHANGED <<queueVars, calls>>
  BY DEF SetPaused, queueVars
<1>2. RestTyped'
  BY UpsetTyped, TypeParts DEF RestTyped, SetPaused
<1>3. CallsTyped'
  BY <1>1, TypeParts DEF CallsTyped
<1>4. \A s \in Sessions : KeepsCalls(s)
  BY <1>1, SameCalls
<1> QED  BY <1>1, <1>2, <1>3, <1>4, QuietTyped DEF Quiet

LEMMA TimeStep ==
  ASSUME TypeOK, CooldownEnds \/ DwellEnds
  PROVE  TypeOK' /\ QueueStep
<1>1. UNCHANGED <<queueVars, calls>>
  BY DEF CooldownEnds, DwellEnds, queueVars, historyVars
<1>2. RestTyped'
  BY TypeParts DEF RestTyped, CooldownEnds, DwellEnds, historyVars
<1>3. CallsTyped'
  BY <1>1, TypeParts DEF CallsTyped
<1>4. \A s \in Sessions : KeepsCalls(s)
  BY <1>1, SameCalls
<1> QED  BY <1>1, <1>2, <1>3, <1>4, QuietTyped DEF Quiet

LEMMA FocusSessionStep ==
  ASSUME TypeOK, NEW s \in Sessions, FocusSession(s)
  PROVE  TypeOK' /\ QueueStep
<1>1. UNCHANGED queueVars /\ Begin("focus", s, "sampled")
  BY DEF FocusSession, engineVars, queueVars
<1>2. RestTyped'
  BY UpsetTyped, TypeParts DEF RestTyped, FocusSession, engineVars
<1>3. CallsTyped'
  BY <1>1, BeginFacts DEF CallsTyped, CallKinds, Waits
<1>4. \A t \in Sessions : KeepsCalls(t)
  BY <1>1, BeginKeeps DEF Waits
<1> QED  BY <1>1, <1>2, <1>3, <1>4, QuietTyped DEF Quiet

LEMMA GraceFiresStep ==
  ASSUME TypeOK, NEW s \in Sessions, GraceFires(s)
  PROVE  TypeOK' /\ QueueStep
<1>1. UNCHANGED queueVars
  BY DEF GraceFires, historyVars, queueVars
<1>2. RestTyped'
  BY TypeParts DEF RestTyped, GraceFires, historyVars
<1>3. CASE UNCHANGED calls
  <2>1. CallsTyped'
    BY <1>3, TypeParts DEF CallsTyped
  <2>2. \A t \in Sessions : KeepsCalls(t)
    BY <1>3, SameCalls
  <2> QED  BY <1>1, <1>2, <2>1, <2>2, QuietTyped DEF Quiet
<1>4. CASE Begin("grace", s, "detect")
  <2>1. CallsTyped'
    BY <1>4, BeginFacts DEF CallsTyped, CallKinds, Waits
  <2>2. \A t \in Sessions : KeepsCalls(t)
    BY <1>4, BeginKeeps DEF Waits
  <2> QED  BY <1>1, <1>2, <2>1, <2>2, QuietTyped DEF Quiet
<1> QED  BY <1>3, <1>4 DEF GraceFires

LEMMA AnswerStep ==
  ASSUME TypeOK, NEW i \in 1..Len(calls), Answer(i)
  PROVE  TypeOK' /\ QueueStep
<1>1. UNCHANGED queueVars
  BY DEF Answer, engineVars, queueVars
<1>2. PICK p \in {cursor, None} :
        /\ calls' = [calls EXCEPT ![i] =
                       [@ EXCEPT !.at = Answered[calls[i].at], !.sample = p, !.left = FALSE]]
        /\ Upset \/ UNCHANGED upsets
  BY DEF Answer
<1>3. RestTyped'
  BY <1>2, UpsetTyped, TypeParts DEF RestTyped, Answer, engineVars
<1> DEFINE to == Answered[calls[i].at]
           c == [calls[i] EXCEPT !.at = to, !.sample = p, !.left = FALSE]
<1>4. /\ \/ calls[i].at = "detect" /\ to = "detected"
         \/ calls[i].at = "current" /\ to = "sampled"
      /\ to \in Waits
  BY DEF Answer, Answered, Waits
<1>5. c \in Calls /\ c.kind = calls[i].kind /\ c.session = calls[i].session /\ c.at = to
  <2>1. calls[i] \in Calls /\ p \in Panes \cup {None}
    BY CallTypes, TypeParts DEF RestTyped
  <2> HIDE DEF to
  <2> QED  BY <1>4, <2>1 DEF Calls
<1>6. calls' = [calls EXCEPT ![i] = c]
  BY <1>2
<1> HIDE DEF c, to
<1>7. /\ calls' \in Seq(Calls) /\ Len(calls') = Len(calls) /\ Len(calls') <= MaxCalls
      /\ calls'[i] = c /\ \A j \in 1..Len(calls) : j # i => calls'[j] = calls[j]
  BY <1>5, <1>6, OneCall
<1>8. \A s \in Sessions : KeepsCalls(s)
  BY <1>4, <1>5, <1>7, SameCalls DEF Unhandled
<1> QED  BY <1>1, <1>3, <1>7, <1>8, QuietTyped DEF Quiet, CallsTyped

LEMMA ResumeSampledStep ==
  ASSUME TypeOK, NEW i \in 1..Len(calls), ResumeSampled(i)
  PROVE  TypeOK' /\ QueueStep
<1>1. UNCHANGED queueVars
  BY DEF ResumeSampled, engineVars, queueVars
<1>2. RestTyped'
  BY UpsetTyped, TypeParts DEF RestTyped, ResumeSampled, Unresolved, engineVars
<1>3. PICK at \in {"focus", "done"} : Goto(i, at)
  BY DEF ResumeSampled, Unresolved, Return
<1>4. at \in Waits /\ at \notin Unhandled /\ calls[i].at \notin Unhandled
  BY DEF Waits, Unhandled, ResumeSampled
<1> QED  BY <1>1, <1>2, <1>3, <1>4, GotoQuiet

LEMMA ResumeFocusedStep ==
  ASSUME TypeOK, NEW i \in 1..Len(calls), ResumeFocused(i)
  PROVE  TypeOK' /\ QueueStep
<1>1. UNCHANGED queueVars
  BY DEF ResumeFocused, historyVars, queueVars
<1>2. RestTyped'
  <2>1. Target(calls[i]) \in Panes
    BY CallTypes DEF Target, Panes
  <2> QED  BY <2>1, TypeParts DEF RestTyped, ResumeFocused, historyVars
<1>3. Goto(i, "done")
  BY DEF ResumeFocused, Return
<1>4. "done" \in Waits /\ "done" \notin Unhandled /\ calls[i].at \notin Unhandled
  BY DEF Waits, Unhandled, ResumeFocused
<1> QED  BY <1>1, <1>2, <1>3, <1>4, GotoQuiet

\* The cursor changed panes.
LEMMA LeftFacts ==
  ASSUME TypeOK
  PROVE  /\ Left(calls) \in Seq(Calls) /\ Len(Left(calls)) = Len(calls)
         /\ \A i \in 1..Len(calls) : /\ Left(calls)[i].kind = calls[i].kind
                                     /\ Left(calls)[i].session = calls[i].session
                                     /\ Left(calls)[i].at = calls[i].at
<1> DEFINE c(i) == [calls[i] EXCEPT !.left = TRUE]
<1>1. \A i \in 1..Len(calls) : /\ c(i) \in Calls /\ c(i).kind = calls[i].kind
                               /\ c(i).session = calls[i].session /\ c(i).at = calls[i].at
  BY CallTypes DEF Calls
<1>2. Left(calls) = [i \in 1..Len(calls) |-> c(i)]
  BY DEF Left
<1> HIDE DEF c
<1>3. Len(calls) \in Nat
  BY CallTypes
<1> QED  BY <1>1, <1>2, <1>3

LEMMA MoveCursorStep ==
  ASSUME TypeOK, NEW p \in Panes, MoveCursor(p)
  PROVE  TypeOK' /\ QueueStep
<1>1. UNCHANGED queueVars /\ calls' = Left(calls)
  BY DEF MoveCursor, engineVars, queueVars
<1>2. RestTyped'
  BY UpsetTyped, TypeParts DEF RestTyped, MoveCursor, engineVars
<1>3. CallsTyped'
  BY <1>1, LeftFacts, TypeParts DEF CallsTyped
<1>4. \A s \in Sessions : KeepsCalls(s)
  BY <1>1, LeftFacts, SameCalls
<1> QED  BY <1>1, <1>2, <1>3, <1>4, QuietTyped DEF Quiet

LEMMA FocusPaneStep ==
  ASSUME TypeOK, NEW i \in 1..Len(calls), FocusPane(i)
  PROVE  TypeOK' /\ QueueStep
<1>1. UNCHANGED queueVars /\ calls[i].at \notin Unhandled
  BY DEF FocusPane, engineVars, queueVars, Unhandled
<1>2. RestTyped'
  <2>1. Target(calls[i]) \in Panes
    BY CallTypes DEF Target, Panes
  <2> QED  BY <2>1, UpsetTyped, TypeParts DEF RestTyped, FocusPane, Unresolved, engineVars
<1>3. CASE Goto(i, "done")
  BY <1>1, <1>2, <1>3, GotoQuiet DEF Waits, Unhandled
<1>4. CASE calls' = [(IF cursor' # cursor THEN Left(calls) ELSE calls) EXCEPT ![i].at = "focused"]
  <2>1. PICK cs : cs = IF cursor' # cursor THEN Left(calls) ELSE calls
    OBVIOUS
  <2>2. /\ cs \in Seq(Calls) /\ Len(cs) = Len(calls)
        /\ \A j \in 1..Len(calls) : /\ cs[j].kind = calls[j].kind /\ cs[j].at = calls[j].at
                                    /\ cs[j].session = calls[j].session
    BY <2>1, LeftFacts, TypeParts DEF CallsTyped
  <2> DEFINE c == [cs[i] EXCEPT !.at = "focused"]
  <2>3. calls' = [cs EXCEPT ![i] = c]
    BY <1>4, <2>1
  <2>4. c \in Calls /\ c.kind = cs[i].kind /\ c.session = cs[i].session /\ c.at = "focused"
    <3>1. cs[i] \in Calls
      BY <2>2
    <3> QED  BY <3>1 DEF Calls, Waits
  <2> HIDE DEF c
  <2>5. /\ calls' \in Seq(Calls) /\ Len(calls') = Len(calls)
        /\ calls'[i] = c /\ \A j \in 1..Len(calls) : j # i => calls'[j] = cs[j]
    BY <2>2, <2>3, <2>4
  <2>6. "focused" \notin Unhandled
    BY DEF Unhandled
  <2>7. \A s \in Sessions : KeepsCalls(s)
    BY <1>1, <2>2, <2>4, <2>5, <2>6, SameCalls
  <2>8. CallsTyped'
    BY <2>5, TypeParts DEF CallsTyped
  <2> QED  BY <1>1, <1>2, <2>7, <2>8, QuietTyped DEF Quiet
<1> QED  BY <1>3, <1>4 DEF FocusPane, Unresolved, Return

LEMMA ResumeFocusSessionStep ==
  ASSUME TypeOK, NEW i \in 1..Len(calls), ResumeFocusSession(i)
  PROVE  TypeOK' /\ QueueStep
<1> DEFINE s == calls[i].session
<1>1. RestTyped' /\ s \in Sessions
  BY CallTypes, UpsetTyped, TypeParts DEF RestTyped, ResumeFocusSession, Unresolved
<1>2. calls[i].at \notin Unhandled /\ {"focus", "done"} \subseteq Waits \ Unhandled
  BY DEF Waits, Unhandled, ResumeFocusSession
<1>3. CASE Unresolved(i) /\ UNCHANGED <<queue, serviced>>
  <2>1. UNCHANGED queueVars /\ Goto(i, "done")
    BY <1>3 DEF ResumeFocusSession, queueVars, Unresolved, Return
  <2> QED  BY <1>1, <1>2, <2>1, GotoQuiet
<1>4. CASE queue' = Dequeued(queue, s) /\ serviced' = serviced \cup {s} /\ Goto(i, "focus")
  <2>1. CallsTyped' /\ \A t \in Sessions : KeepsCalls(t)
    BY <1>2, <1>4, GotoFacts, GotoKeeps DEF CallsTyped
  <2>2. Jumps(s)
    BY <1>4, <2>1 DEF Jumps, ResumeFocusSession
  <2>3. queue' \in Seq(Sessions)
    BY <1>4, DequeuedFacts, TypeParts DEF QueueTyped
  <2>4. QueueTyped'
    BY <1>1, <2>2, <2>3, TypeParts DEF Jumps, QueueTyped
  <2> QED  BY <1>1, <2>1, <2>2, <2>4, TypePartsAfter DEF QueueStep
<1> QED  BY <1>3, <1>4 DEF ResumeFocusSession

LEMMA OverridesTyped ==
  ASSUME TypeOK, NEW i \in 1..Len(calls), DetectManualOverride(i)
  PROVE  cooldown' \in BOOLEAN /\ lastSetTarget' \in Panes \cup {None}
<1>1. calls[i].sample \in Panes \cup {None} /\ cooldown \in BOOLEAN
      /\ lastSetTarget \in Panes \cup {None}
  BY CallTypes, TypeParts DEF RestTyped
<1> QED  BY <1>1 DEF DetectManualOverride

LEMMA HandlesTyped ==
  ASSUME TypeOK, NEW s \in Sessions, NEW i \in PendingOf(s), Handles(s, i), RestTyped', CallsTyped'
  PROVE  TypeOK' /\ QueueStep
<1>1. queue' \in Seq(Sessions)
  BY EnqueuedFacts, DequeuedFacts, TypeParts DEF Handles, QueueTyped
<1>2. QueueTyped'
  BY <1>1, TypeParts DEF Handles, QueueTyped
<1> QED  BY <1>2, TypePartsAfter DEF QueueStep

LEMMA ResumeDetectedStep ==
  ASSUME TypeOK, NEW i \in 1..Len(calls), ResumeDetected(i)
  PROVE  TypeOK' /\ QueueStep
<1>0. PICK s \in Sessions : s = calls[i].session
  BY CallTypes
<1>1. /\ calls[i].at \in Unhandled /\ {"current", "done"} \subseteq Waits \ Unhandled
      /\ DetectManualOverride(i)
      /\ UNCHANGED <<state, paused, dwelling, cursor, serviced, overlapped, asked, events, upsets>>
      /\ overtaken' = IF Overtakes(i) THEN overtaken \cup {s} ELSE overtaken
  BY <1>0 DEF Waits, Unhandled, ResumeDetected
<1>2. ASSUME grace' \subseteq Sessions, banner' \in Sessions \cup {None} PROVE RestTyped'
  BY <1>1, <1>2, OverridesTyped, TypeParts DEF RestTyped
<1>3. CASE /\ calls[i].kind = "grace" /\ UNCHANGED <<queue, grace, banner>>
           /\ Goto(i, IF cooldown' \/ dwelling THEN "done" ELSE "current")
  <2>1. calls[i].kind \notin Transitions
    BY <1>3 DEF Transitions, SessionStates
  <2>2. UNCHANGED queueVars
    BY <1>1, <1>3, <2>1 DEF Overtakes, queueVars
  <2>3. PICK at \in {"current", "done"} : Goto(i, at)
    BY <1>3
  <2>4. RestTyped'
    BY <1>2, <1>3, TypeParts DEF RestTyped
  <2> QED  BY <1>1, <2>1, <2>2, <2>3, <2>4, GotoQuiet
<1>4. ASSUME NEW at \in {"current", "done"}, Goto(i, at), RestTyped', calls[i].kind \in Transitions,
             \/ calls[i].kind = "HUMAN_ACTIVE" /\ queue' = Enqueued(queue, s)
             \/ calls[i].kind \in {"CC_WORKING", "DEAD"} /\ queue' = Dequeued(queue, s)
             \/ calls[i].kind = "STALE" /\ queue' = queue
      PROVE  TypeOK' /\ QueueStep
  <2>1. CallsTyped'
    BY <1>1, <1>4, GotoFacts DEF CallsTyped
  <2>2. /\ i \in PendingOf(s) /\ TransitionsOf(s)' = TransitionsOf(s)
        /\ PendingOf(s)' = PendingOf(s) \ {i}
        /\ \A j \in TransitionsOf(s) : calls'[j].kind = calls[j].kind
        /\ \A t \in Sessions \ {s} : KeepsCalls(t)
    BY <1>0, <1>1, <1>4, GotoHandles
  <2>3. Overtakes(i) <=> \E j \in PendingOf(s) : j < i
    <3>1. \A j \in 1..Len(calls) : j < i <=> j \in 1..(i - 1)
      OBVIOUS
    <3>2. \A j \in 1..(i - 1) : j \in 1..Len(calls)
      BY CallTypes
    <3> QED  BY <1>0, <1>4, <3>1, <3>2 DEF Overtakes, PendingOf, TransitionsOf
  <2>4. Handles(s, i)
    BY <1>1, <1>4, <2>2, <2>3 DEF Handles
  <2> QED  BY <1>1, <1>4, <2>1, <2>2, <2>4, HandlesTyped
<1>5. CASE calls[i].kind = "HUMAN_ACTIVE" /\ NeedsYou(i, s)
  <2>1. PICK at \in {"current", "done"} : Goto(i, at)
    BY <1>5 DEF NeedsYou
  <2>2. RestTyped'
    BY <1>1, <1>2, <1>5, TypeParts DEF RestTyped, NeedsYou
  <2> QED  BY <1>4, <1>5, <2>1, <2>2 DEF NeedsYou, Transitions, SessionStates
<1>6. CASE calls[i].kind = "CC_WORKING" /\ Working(i, s)
  <2>1. RestTyped'
    BY <1>1, <1>2, <1>6, TypeParts DEF RestTyped, Working, ClearAlert
  <2> QED  BY <1>4, <1>6, <2>1 DEF Working, Return, Transitions, SessionStates
<1>7. CASE calls[i].kind = "DEAD" /\ Dead(i, s)
  <2>1. RestTyped'
    BY <1>1, <1>2, <1>7, TypeParts DEF RestTyped, Dead
  <2> QED  BY <1>4, <1>7, <2>1 DEF Dead, Return, Transitions, SessionStates
<1>8. CASE calls[i].kind = "STALE" /\ Return(i) /\ UNCHANGED <<queue, grace, banner>>
  <2>1. RestTyped'
    BY <1>1, <1>2, <1>8, TypeParts DEF RestTyped
  <2> QED  BY <1>4, <1>8, <2>1 DEF Return, Transitions, SessionStates
<1> QED  BY <1>0, <1>3, <1>5, <1>6, <1>7, <1>8 DEF ResumeDetected

\* The types after a change of state.
LEMMA EventTyped ==
  ASSUME TypeOK, events < MaxEvents
  PROVE  /\ events + 1 \in 0..MaxEvents
         /\ \A s \in Sessions, v \in 0..MaxEvents :
              [asked EXCEPT ![s] = v] \in [Sessions -> 0..MaxEvents]
         /\ \A s \in Sessions, to \in SessionStates :
              [state EXCEPT ![s] = to] \in [Sessions -> SessionStates \cup {None}]
<1>1. events \in 0..MaxEvents /\ MaxEvents \in Nat
      /\ asked \in [Sessions -> 0..MaxEvents] /\ state \in [Sessions -> SessionStates \cup {None}]
  BY TypeParts, FocusAssumption DEF FocusAssumption, QueueTyped
<1>2. events + 1 \in 0..MaxEvents
  BY <1>1
<1> QED  BY <1>1, <1>2

LEMMA AnnouncesTyped ==
  ASSUME TypeOK, NEW s \in Sessions, NEW to \in Transitions, Announces(s, to), events < MaxEvents,
         UNCHANGED <<grace, paused, lastSetTarget, cooldown, dwelling, cursor, banner, upsets>>
  PROVE  TypeOK' /\ QueueStep
<1>1. RestTyped'
  BY TypeParts DEF RestTyped
<1>2. CallsTyped'
  BY BeginFacts DEF CallsTyped, Announces, ChangeState, CallKinds, Waits
<1>3. queue' \in Seq(Sessions)
  BY EnqueuedFacts, TypeParts DEF QueueTyped, Announces, ChangeState
<1>4. asked' \in [Sessions -> 0..MaxEvents]
  <2>1. asked[s] \in 0..MaxEvents
    BY TypeParts DEF QueueTyped
  <2>2. PICK v \in 0..MaxEvents : asked' = [asked EXCEPT ![s] = v]
    BY <2>1, EventTyped DEF Announces, ChangeState
  <2> QED  BY <2>2, EventTyped
<1>5. events' \in 0..MaxEvents /\ state' \in [Sessions -> SessionStates \cup {None}]
  BY EventTyped DEF Announces, Transitions
<1>6. serviced' \subseteq Sessions /\ overlapped' \subseteq Sessions /\ overtaken' \subseteq Sessions
  BY TypeParts DEF QueueTyped, Announces, ChangeState
<1>7. QueueTyped'
  BY <1>3, <1>4, <1>5, <1>6 DEF QueueTyped
<1> QED  BY <1>1, <1>2, <1>7, TypePartsAfter DEF QueueStep

LEMMA SessionEventStep ==
  ASSUME TypeOK, NEW s \in Sessions, NEW e \in StateEvents, SessionEvent(s, e)
  PROVE  TypeOK' /\ QueueStep
<1> DEFINE from == IF state[s] = None THEN InitialState ELSE state[s]
           to == ReduceState(from, e)
<1>1. state[s] \in SessionStates \cup {None} /\ None \notin SessionStates
  BY TypeParts, FocusAssumption DEF FocusAssumption, QueueTyped
<1>2. /\ from \in SessionStates /\ to \in Transitions
      /\ to # "STALE" \/ to = from
      /\ state[s] = None => from = "HUMAN_ACTIVE"
  BY <1>1 DEF InitialState, SessionStates, Transitions, StateEvents, ReduceState
<1>3. /\ events < MaxEvents /\ state[s] # to /\ state' = [state EXCEPT ![s] = to]
      /\ events' = events + 1 /\ UNCHANGED overtaken
      /\ UNCHANGED <<grace, paused, lastSetTarget, cooldown, dwelling, cursor, banner, upsets>>
      /\ \/ to # from /\ ChangeState(s, to)
         \/ /\ to = from /\ serviced' = serviced \cup {s}
            /\ UNCHANGED <<queue, calls, overlapped, asked>>
  BY DEF SessionEvent
<1> HIDE DEF to
<1>4. CASE to # from /\ ChangeState(s, to)
  <2>1. Announces(s, to) /\ to \in Transitions
    BY <1>1, <1>2, <1>3, <1>4 DEF Announces, SessionStates
  <2> QED  BY <1>3, <2>1, AnnouncesTyped
<1>5. CASE to = from /\ serviced' = serviced \cup {s} /\ UNCHANGED <<queue, calls, overlapped, asked>>
  <2>1. state[s] = None /\ to = "HUMAN_ACTIVE"
    BY <1>2, <1>3, <1>5
  <2>2. \A t \in Sessions : KeepsCalls(t)
    BY <1>5, SameCalls
  <2>3. Appears(s)
    BY <1>3, <1>5, <2>1, <2>2 DEF Appears
  <2>4. QueueTyped'
    BY <1>3, <1>5, <2>1, EventTyped, TypeParts DEF QueueTyped, SessionStates
  <2>5. RestTyped' /\ CallsTyped'
    BY <1>3, <1>5, TypeParts DEF RestTyped, CallsTyped
  <2> QED  BY <2>3, <2>4, <2>5, TypePartsAfter DEF QueueStep
<1> QED  BY <1>3, <1>4, <1>5

LEMMA GoStaleStep ==
  ASSUME TypeOK, NEW s \in Sessions, GoStale(s)
  PROVE  TypeOK' /\ QueueStep
<1>1. PICK to \in StaleStates(state[s]) : state' = [state EXCEPT ![s] = to] /\ ChangeState(s, to)
  BY DEF GoStale
<1>2. /\ to \in Transitions /\ to # state[s] /\ to # "HUMAN_ACTIVE"
      /\ to = "STALE" => state[s] = "CC_WORKING"
  BY DEF StaleStates, Transitions, SessionStates
<1>3. /\ events < MaxEvents /\ events' = events + 1 /\ UNCHANGED overtaken
      /\ UNCHANGED <<grace, paused, lastSetTarget, cooldown, dwelling, cursor, banner, upsets>>
  BY DEF GoStale
<1>4. Announces(s, to)
  BY <1>1, <1>2, <1>3 DEF Announces
<1> QED  BY <1>2, <1>3, <1>4, AnnouncesTyped

\* Every step keeps the types, and does one of these five things to the queue.
LEMMA StepFacts ==
  ASSUME TypeOK, [Next]_vars
  PROVE  TypeOK' /\ QueueStep
<1>1. CASE UNCHANGED vars
  <2>1. UNCHANGED <<queueVars, calls>> /\ RestTyped' /\ CallsTyped'
    BY <1>1, TypeParts DEF vars, engineVars, historyVars, queueVars, RestTyped, CallsTyped
  <2>2. \A t \in Sessions : KeepsCalls(t)
    BY <2>1, SameCalls
  <2> QED  BY <2>1, <2>2, QuietTyped DEF Quiet
<1>2. CASE Next
  BY <1>2, SessionEventStep, GoStaleStep, FocusSessionStep, GraceFiresStep, AnswerStep,
     FocusPaneStep, ResumeDetectedStep, ResumeSampledStep, ResumeFocusSessionStep,
     ResumeFocusedStep, SetPausedStep, MoveCursorStep, TimeStep DEF Next, Resume
<1> QED  BY <1>1, <1>2

-----------------------------------------------------------------------------
(* The queue invariant, one session at a time                              *)

SessionInv(s) ==
  /\ LastCallTells(s) /\ LeavesAgain(s) /\ HandledInOrder(s) /\ OvertakenOverlap(s)
  /\ QueuedWaits(s) /\ WaitsQueued(s)
  /\ asked[s] <= events

LEMMA QueueInvParts == QueueInv <=> (\A s \in Sessions : SessionInv(s)) /\ QueueIsFifo
BY DEF QueueInv, SessionInv

LEMMA QueueInvPartsAfter == QueueInv' <=> (\A s \in Sessions : SessionInv(s)') /\ QueueIsFifo'
BY DEF QueueInv, SessionInv

LEMMA CallsAreNumbers ==
  ASSUME TypeOK, NEW s \in Sessions
  PROVE  PendingOf(s) \subseteq TransitionsOf(s) /\ \A i \in TransitionsOf(s) : i \in Nat
BY CallTypes DEF PendingOf, TransitionsOf

LEMMA SettledMeans ==
  ASSUME NEW s \in Sessions
  PROVE  Settled(s) <=> PendingOf(s) = {}
BY DEF Settled, PendingOf, TransitionsOf

\* What the calls alone say is kept when they are.
LEMMA SameTakesOut ==
  ASSUME NEW s \in Sessions, TransitionsOf(s)' = TransitionsOf(s),
         \A i \in TransitionsOf(s) : calls'[i].kind = calls[i].kind
  PROVE  \A j \in TransitionsOf(s) : TakesOut(s, j)' <=> TakesOut(s, j)
BY DEF TakesOut

LEMMA SameLeavesAgain ==
  ASSUME NEW s \in Sessions, TransitionsOf(s)' = TransitionsOf(s), state'[s] = state[s],
         \A i \in TransitionsOf(s) : calls'[i].kind = calls[i].kind,
         LastCallTells(s), LeavesAgain(s)
  PROVE  LastCallTells(s)' /\ LeavesAgain(s)'
<1>1. LastCallTells(s)'
  BY DEF LastCallTells
<1>2. LeavesAgain(s)'
  BY SameTakesOut DEF LeavesAgain
<1> QED  BY <1>1, <1>2

\* A step that is about other sessions.
LEMMA Undisturbed ==
  ASSUME NEW s \in Sessions, SessionInv(s), KeepsCalls(s), TypeOK,
         state'[s] = state[s], Contains(queue', s) <=> Contains(queue, s),
         s \in serviced' <=> s \in serviced, s \in overlapped' <=> s \in overlapped,
         s \in overtaken' <=> s \in overtaken, asked'[s] = asked[s],
         events' = events \/ events' = events + 1
  PROVE  SessionInv(s)'
<1>1. LastCallTells(s)' /\ LeavesAgain(s)'
  BY SameLeavesAgain DEF SessionInv, KeepsCalls
<1>2. HandledInOrder(s)' /\ OvertakenOverlap(s)'
  BY DEF SessionInv, KeepsCalls, HandledInOrder, OvertakenOverlap
<1>3. QueuedWaits(s)'
  BY SameTakesOut, CallsAreNumbers DEF SessionInv, KeepsCalls, QueuedWaits
<1>4. WaitsQueued(s)'
  BY DEF SessionInv, KeepsCalls, WaitsQueued, InLine
<1>5. asked'[s] <= events'
  <2>1. asked[s] \in 0..MaxEvents /\ events \in 0..MaxEvents /\ MaxEvents \in Nat
    BY TypeParts, FocusAssumption DEF FocusAssumption, QueueTyped
  <2> QED  BY <2>1 DEF SessionInv
<1> QED  BY <1>1, <1>2, <1>3, <1>4, <1>5 DEF SessionInv

LEMMA AppearsInv ==
  ASSUME TypeOK, NEW s \in Sessions, SessionInv(s), Appears(s)
  PROVE  SessionInv(s)'
<1>1. state'[s] = "HUMAN_ACTIVE" /\ s \in serviced' /\ None \notin SessionStates
  BY TypeParts, FocusAssumption DEF QueueTyped, FocusAssumption, Appears
<1>2. TransitionsOf(s)' = {} /\ PendingOf(s)' = {}
  BY CallsAreNumbers DEF SessionInv, LastCallTells, Appears, KeepsCalls
<1>3. LastCallTells(s)' /\ LeavesAgain(s)' /\ HandledInOrder(s)'
  BY <1>1, <1>2 DEF LastCallTells, LeavesAgain, HandledInOrder, SessionStates
<1>4. OvertakenOverlap(s)'
  BY <1>2 DEF OvertakenOverlap, SessionInv, Appears
<1>5. QueuedWaits(s)' /\ WaitsQueued(s)'
  BY <1>1 DEF QueuedWaits, WaitsQueued, InLine
<1>6. asked'[s] <= events'
  <2>1. asked[s] \in 0..MaxEvents /\ events \in 0..MaxEvents /\ MaxEvents \in Nat
    BY TypeParts, FocusAssumption DEF FocusAssumption, QueueTyped
  <2> QED  BY <2>1 DEF SessionInv, Appears
<1> QED  BY <1>3, <1>4, <1>5, <1>6 DEF SessionInv

LEMMA JumpsInv ==
  ASSUME TypeOK, NEW s \in Sessions, SessionInv(s), Jumps(s)
  PROVE  SessionInv(s)'
<1>1. s \in serviced' /\ ~Contains(queue', s)
  BY TypeParts, DequeuedFacts DEF QueueTyped, Jumps
<1>2. LastCallTells(s)' /\ LeavesAgain(s)'
  BY SameLeavesAgain DEF SessionInv, KeepsCalls, Jumps
<1>3. HandledInOrder(s)' /\ OvertakenOverlap(s)'
  BY DEF SessionInv, KeepsCalls, HandledInOrder, OvertakenOverlap, Jumps
<1>4. QueuedWaits(s)' /\ WaitsQueued(s)'
  BY <1>1 DEF QueuedWaits, WaitsQueued, InLine
<1> QED  BY <1>2, <1>3, <1>4 DEF SessionInv, Jumps

LEMMA AnnouncesInv ==
  ASSUME TypeOK, NEW s \in Sessions, NEW to \in Transitions, SessionInv(s), Announces(s, to)
  PROVE  SessionInv(s)'
<1>0. PICK n : n = Len(calls) + 1
  OBVIOUS
<1>1. /\ n \in Nat /\ calls'[n].kind = to /\ \A i \in TransitionsOf(s) : i \in Nat /\ i < n
      /\ TransitionsOf(s)' = TransitionsOf(s) \cup {n} /\ PendingOf(s)' = PendingOf(s) \cup {n}
      /\ \A i \in TransitionsOf(s) : calls'[i].kind = calls[i].kind
  BY <1>0, BeginAdds DEF Announces, ChangeState
<1>2. PendingOf(s) \subseteq TransitionsOf(s)
  BY CallsAreNumbers
<1>3. /\ state'[s] = to
      /\ to # "HUMAN_ACTIVE" => queue' = queue
      /\ to = "HUMAN_ACTIVE" => Contains(queue', s)
      /\ overtaken' = overtaken /\ overlapped \subseteq overlapped'
      /\ PendingOf(s) # {} => s \in overlapped'
  BY TypeParts, EnqueuedFacts, SettledMeans DEF QueueTyped, Announces, ChangeState
<1>4. to \in SessionStates /\ None \notin SessionStates
  BY FocusAssumption DEF FocusAssumption, Transitions
<1>5. to \in {"CC_WORKING", "DEAD"} => TakesOut(s, n)'
  BY <1>1 DEF TakesOut
<1>6. to = "STALE" =>
        state[s] = "CC_WORKING" /\ \A j \in TransitionsOf(s) : TakesOut(s, j) => TakesOut(s, j)'
  BY <1>1 DEF TakesOut, Announces
<1>7. LastCallTells(s)'
  BY <1>1, <1>3, <1>4 DEF LastCallTells
<1>8. LeavesAgain(s)'
  <2> SUFFICES ASSUME NEW i \in TransitionsOf(s)', calls'[i].kind = "HUMAN_ACTIVE", to # "HUMAN_ACTIVE"
               PROVE  \E j \in TransitionsOf(s)' : i < j /\ TakesOut(s, j)'
    BY <1>3 DEF LeavesAgain
  <2>1. i \in TransitionsOf(s) /\ i < n /\ calls[i].kind = "HUMAN_ACTIVE"
    BY <1>1
  <2>2. CASE to \in {"CC_WORKING", "DEAD"}
    BY <1>1, <1>5, <2>1, <2>2
  <2>3. CASE to = "STALE"
    <3>1. PICK j \in TransitionsOf(s) : i < j /\ TakesOut(s, j)
      BY <1>6, <2>1, <2>3 DEF SessionInv, LeavesAgain
    <3> QED  BY <1>1, <1>6, <2>3, <3>1
  <2> QED  BY <1>4, <2>2, <2>3 DEF SessionStates
<1>9. HandledInOrder(s)'
  BY <1>1, <1>2, <1>3 DEF SessionInv, HandledInOrder
<1>10. OvertakenOverlap(s)'
  BY <1>1, <1>2, <1>3 DEF SessionInv, OvertakenOverlap
<1>11. QueuedWaits(s)'
  <2> SUFFICES ASSUME s \notin overtaken, Contains(queue, s), to # "HUMAN_ACTIVE"
               PROVE  \E j \in PendingOf(s)' : TakesOut(s, j)'
    BY <1>3 DEF QueuedWaits
  <2>1. CASE to \in {"CC_WORKING", "DEAD"}
    BY <1>1, <1>5, <2>1
  <2>2. CASE to = "STALE"
    <3>1. PICK j \in PendingOf(s) : TakesOut(s, j)
      BY <1>6, <2>2 DEF SessionInv, QueuedWaits
    <3> QED  BY <1>1, <1>2, <1>6, <2>2, <3>1
  <2> QED  BY <1>4, <2>1, <2>2 DEF SessionStates
<1>12. WaitsQueued(s)'
  BY <1>1, <1>3 DEF WaitsQueued, InLine
<1>13. asked'[s] <= events'
  <2>1. asked \in [Sessions -> 0..MaxEvents] /\ events \in 0..MaxEvents /\ MaxEvents \in Nat
    BY TypeParts, FocusAssumption DEF FocusAssumption, QueueTyped
  <2>2. asked'[s] = events + 1 \/ asked'[s] = asked[s]
    BY <2>1 DEF Announces, ChangeState
  <2> QED  BY <2>1, <2>2 DEF SessionInv, Announces
<1> QED  BY <1>7, <1>8, <1>9, <1>10, <1>11, <1>12, <1>13 DEF SessionInv

LEMMA HandlesInv ==
  ASSUME TypeOK, NEW s \in Sessions, NEW i \in PendingOf(s), SessionInv(s), Handles(s, i)
  PROVE  SessionInv(s)'
<1>1. /\ TransitionsOf(s)' = TransitionsOf(s) /\ PendingOf(s)' = PendingOf(s) \ {i}
      /\ \A j \in TransitionsOf(s) : calls'[j].kind = calls[j].kind
      /\ overtaken' = IF \E j \in PendingOf(s) : j < i THEN overtaken \cup {s} ELSE overtaken
      /\ UNCHANGED <<state, serviced, overlapped, asked, events>>
      /\ calls[i].kind \in {"HUMAN_ACTIVE", "CC_WORKING", "DEAD", "STALE"}
  BY DEF Handles
<1>2. PendingOf(s) \subseteq TransitionsOf(s) /\ \A j \in TransitionsOf(s) : j \in Nat
  BY CallsAreNumbers
<1>3. /\ calls[i].kind = "HUMAN_ACTIVE" => Contains(queue', s)
      /\ calls[i].kind \in {"CC_WORKING", "DEAD"} => ~Contains(queue', s)
      /\ calls[i].kind = "STALE" => queue' = queue
  <2>1. queue \in Seq(Sessions)
    BY TypeParts DEF QueueTyped
  <2>2. Contains(Enqueued(queue, s), s) /\ ~Contains(Dequeued(queue, s), s)
    BY <2>1, EnqueuedFacts, DequeuedFacts
  <2> QED  BY <2>2 DEF Handles
<1>4. ASSUME s \notin overtaken'
      PROVE  /\ s \notin overtaken /\ \A j \in PendingOf(s) : ~(j < i)
             /\ \A j \in TransitionsOf(s) : i < j => j \in PendingOf(s)'
  <2>1. s \notin overtaken /\ \A j \in PendingOf(s) : ~(j < i)
    BY <1>1, <1>4
  <2>2. \A j \in TransitionsOf(s) : i < j => j \in PendingOf(s) /\ j # i
    BY <1>2, <2>1 DEF SessionInv, HandledInOrder
  <2> QED  BY <1>1, <2>1, <2>2
<1>5. LastCallTells(s)' /\ LeavesAgain(s)'
  BY <1>1, SameLeavesAgain DEF SessionInv
<1>6. HandledInOrder(s)'
  BY <1>1, <1>2, <1>4 DEF SessionInv, HandledInOrder
<1>7. OvertakenOverlap(s)'
  BY <1>1, <1>2 DEF SessionInv, OvertakenOverlap
<1>8. \A j \in TransitionsOf(s) : TakesOut(s, j)' <=> TakesOut(s, j)
  BY <1>1, SameTakesOut
<1>9. QueuedWaits(s)'
  <2> SUFFICES ASSUME s \notin overtaken', Contains(queue', s), state[s] # "HUMAN_ACTIVE"
               PROVE  \E j \in PendingOf(s)' : TakesOut(s, j)'
    BY <1>1 DEF QueuedWaits
  <2>1. CASE calls[i].kind = "HUMAN_ACTIVE"
    <3>1. PICK j \in TransitionsOf(s) : i < j /\ TakesOut(s, j)
      BY <1>2, <2>1 DEF SessionInv, LeavesAgain
    <3> QED  BY <1>4, <1>8, <3>1
  <2>2. CASE calls[i].kind = "STALE"
    <3>1. PICK j \in PendingOf(s) : TakesOut(s, j)
      BY <1>3, <1>4, <2>2 DEF SessionInv, QueuedWaits
    <3>2. j # i
      BY <2>2, <3>1 DEF TakesOut
    <3> QED  BY <1>1, <1>2, <1>8, <3>1, <3>2
  <2> QED  BY <1>1, <1>3, <2>1, <2>2
<1>10. WaitsQueued(s)'
  <2>1. ASSUME s \notin overtaken', state[s] = "HUMAN_ACTIVE", PendingOf(s)' = {}
        PROVE  Contains(queue', s)
    <3>1. calls[i].kind = state[s]
      BY <1>2, <1>4, <2>1 DEF SessionInv, LastCallTells
    <3> QED  BY <1>3, <2>1, <3>1
  <2>2. ASSUME InLine(s) PROVE Contains(queue', s)
    <3>1. Contains(queue, s) /\ state[s] = "HUMAN_ACTIVE" /\ s \notin overlapped
      BY <2>2 DEF SessionInv, WaitsQueued, InLine
    <3>2. calls[i].kind = state[s]
      BY <1>2, <3>1 DEF SessionInv, LastCallTells, OvertakenOverlap
    <3> QED  BY <1>3, <3>1, <3>2
  <2>3. InLine(s)' <=> InLine(s)
    BY <1>1 DEF InLine
  <2> QED  BY <1>1, <2>1, <2>2, <2>3 DEF WaitsQueued
<1> QED  BY <1>1, <1>5, <1>6, <1>7, <1>9, <1>10 DEF SessionInv

-----------------------------------------------------------------------------
(* The order of the queue                                                  *)

\* Nobody enters, and those that stay keep their order.
LEMMA OrderKept ==
  ASSUME TypeOK, TypeOK', QueueIsFifo,
         \A x \in Sessions : InLine(x)' => InLine(x) /\ asked'[x] = asked[x],
         OrderOf(queue', queue)
  PROVE  QueueIsFifo'
<1> SUFFICES ASSUME NEW i \in 1..Len(queue'), NEW j \in 1..Len(queue'), i < j,
                    NEW x, x = queue'[i], NEW y, y = queue'[j], InLine(x)', InLine(y)'
             PROVE  asked'[x] <= asked'[y]
  BY DEF QueueIsFifo, InLine
<1>1. PICK a, b \in 1..Len(queue) : a < b /\ queue[a] = x /\ queue[b] = y
  BY DEF OrderOf
<1>2. x \in Sessions /\ y \in Sessions
  BY <1>1, TypeParts DEF QueueTyped
<1>3. InLine(x) /\ InLine(y) /\ asked'[x] = asked[x] /\ asked'[y] = asked[y]
  BY <1>2
<1> QED  BY <1>1, <1>3 DEF QueueIsFifo

\* s enters at the end, and if it is in line nobody in line came after it.
LEMMA OrderExtended ==
  ASSUME TypeOK, TypeOK', QueueIsFifo, NEW s \in Sessions, ~Contains(queue, s),
         queue' = Enqueued(queue, s),
         \A x \in Sessions \ {s} : InLine(x)' => InLine(x) /\ asked'[x] = asked[x],
         InLine(s)' => \A x \in Sessions \ {s} : asked[x] <= asked'[s]
  PROVE  QueueIsFifo'
<1> SUFFICES ASSUME NEW i \in 1..Len(queue'), NEW j \in 1..Len(queue'), i < j,
                    NEW x, x = queue'[i], NEW y, y = queue'[j], InLine(x)', InLine(y)'
             PROVE  asked'[x] <= asked'[y]
  BY DEF QueueIsFifo, InLine
<1>1. /\ Len(queue') = Len(queue) + 1 /\ queue'[Len(queue) + 1] = s /\ Len(queue) \in Nat
      /\ \A k \in 1..Len(queue) : queue'[k] = queue[k] /\ queue[k] \in Sessions \ {s}
  <2>1. queue \in Seq(Sessions)
    BY TypeParts DEF QueueTyped
  <2>2. \A k \in 1..Len(queue) : queue[k] # s
    BY DEF Contains
  <2>3. Len(queue') = Len(queue) + 1 /\ queue'[Len(queue) + 1] = s
        /\ \A k \in 1..Len(queue) : queue'[k] = queue[k]
    BY <2>1, EnqueuedFacts
  <2> QED  BY <2>1, <2>2, <2>3
<1>2. i \in 1..Len(queue) /\ x = queue[i] /\ x \in Sessions \ {s}
  BY <1>1
<1>3. InLine(x) /\ asked'[x] = asked[x]
  BY <1>2
<1>4. CASE j = Len(queue) + 1
  BY <1>1, <1>2, <1>3, <1>4
<1>5. CASE j # Len(queue) + 1
  <2>1. j \in 1..Len(queue) /\ y = queue[j] /\ y \in Sessions \ {s}
    BY <1>1, <1>5
  <2>2. InLine(y) /\ asked'[y] = asked[y]
    BY <2>1
  <2> QED  BY <1>2, <1>3, <2>1, <2>2 DEF QueueIsFifo
<1> QED  BY <1>4, <1>5

LEMMA OrderSame ==
  ASSUME TypeOK, TypeOK', QueueIsFifo, queue' = queue,
         \A x \in Sessions : InLine(x)' => InLine(x) /\ asked'[x] = asked[x]
  PROVE  QueueIsFifo'
<1>1. OrderOf(queue', queue)
  BY DEF OrderOf
<1> QED  BY <1>1, OrderKept

LEMMA OrderDequeued ==
  ASSUME TypeOK, TypeOK', QueueIsFifo, NEW s, queue' = Dequeued(queue, s),
         \A x \in Sessions : InLine(x)' => InLine(x) /\ asked'[x] = asked[x]
  PROVE  QueueIsFifo'
<1>1. queue \in Seq(Sessions)
  BY TypeParts DEF QueueTyped
<1>2. OrderOf(queue', queue)
  BY <1>1, DequeuedFacts
<1> QED  BY <1>2, OrderKept

LEMMA AppearsOrder ==
  ASSUME TypeOK, TypeOK', QueueIsFifo, NEW s \in Sessions, Appears(s)
  PROVE  QueueIsFifo'
<1>1. \A x \in Sessions : InLine(x)' => InLine(x) /\ asked'[x] = asked[x]
  BY TypeParts DEF QueueTyped, Appears, InLine
<1> QED  BY <1>1, OrderSame DEF Appears

LEMMA JumpsOrder ==
  ASSUME TypeOK, TypeOK', QueueIsFifo, NEW s \in Sessions, Jumps(s)
  PROVE  QueueIsFifo'
<1>1. \A x \in Sessions : InLine(x)' => InLine(x) /\ asked'[x] = asked[x]
  BY DEF Jumps, InLine
<1> QED  BY <1>1, OrderDequeued DEF Jumps

LEMMA AnnouncesOrder ==
  ASSUME TypeOK, TypeOK', QueueInv, NEW s \in Sessions, NEW to \in Transitions, Announces(s, to)
  PROVE  QueueIsFifo'
<1>1. SessionInv(s) /\ QueueIsFifo
  BY QueueInvParts
<1>2. \A x \in Sessions \ {s} : InLine(x)' => InLine(x) /\ asked'[x] = asked[x]
  BY TypeParts DEF QueueTyped, Announces, ChangeState, InLine
<1>3. state'[s] = to /\ to # state[s]
  BY TypeParts DEF QueueTyped, Announces
<1>4. CASE to # "HUMAN_ACTIVE"
  <2>1. ~InLine(s)'
    BY <1>3, <1>4 DEF InLine
  <2>2. queue' = queue
    BY <1>4 DEF Announces, ChangeState
  <2> QED  BY <1>1, <1>2, <2>1, <2>2, OrderSame
<1>5. CASE to = "HUMAN_ACTIVE" /\ Contains(queue, s)
  <2>1. ~InLine(s)'
    <3>1. SUFFICES ASSUME Settled(s), s \notin overlapped PROVE FALSE
      BY DEF InLine, Announces, ChangeState
    <3>2. PendingOf(s) = {} /\ s \notin overtaken
      BY <1>1, <3>1, SettledMeans DEF SessionInv, OvertakenOverlap
    <3> QED  BY <1>1, <1>3, <1>5, <3>2 DEF SessionInv, QueuedWaits
  <2>2. queue' = queue
    BY <1>5 DEF Announces, ChangeState, Enqueued
  <2> QED  BY <1>1, <1>2, <2>1, <2>2, OrderSame
<1>6. CASE to = "HUMAN_ACTIVE" /\ ~Contains(queue, s)
  <2>1. queue' = Enqueued(queue, s)
    BY <1>6 DEF Announces, ChangeState
  <2>2. \A x \in Sessions : asked[x] <= events /\ asked[x] \in Nat
    <3>1. asked \in [Sessions -> 0..MaxEvents] /\ MaxEvents \in Nat
      BY TypeParts, FocusAssumption DEF FocusAssumption, QueueTyped
    <3> QED  BY <3>1, QueueInvParts DEF SessionInv
  <2>3. asked'[s] = events + 1 /\ events \in Nat
    <3>1. asked \in [Sessions -> 0..MaxEvents] /\ MaxEvents \in Nat /\ events \in 0..MaxEvents
      BY TypeParts, FocusAssumption DEF FocusAssumption, QueueTyped
    <3> QED  BY <1>6, <3>1 DEF Announces, ChangeState
  <2>4. \A x \in Sessions \ {s} : asked[x] <= asked'[s]
    BY <2>2, <2>3
  <2> QED  BY <1>1, <1>2, <1>6, <2>1, <2>4, OrderExtended
<1> QED  BY <1>4, <1>5, <1>6

LEMMA HandlesOrder ==
  ASSUME TypeOK, TypeOK', QueueInv, NEW s \in Sessions, NEW i \in PendingOf(s), Handles(s, i)
  PROVE  QueueIsFifo'
<1>1. SessionInv(s) /\ QueueIsFifo
  BY QueueInvParts
<1>2. \A x \in Sessions : (InLine(x)' <=> InLine(x)) /\ asked'[x] = asked[x]
  BY DEF Handles, InLine
<1>3. CASE queue' = queue
  BY <1>1, <1>2, <1>3, OrderSame
<1>4. CASE queue' = Dequeued(queue, s)
  BY <1>1, <1>2, <1>4, OrderDequeued
<1>5. CASE queue' = Enqueued(queue, s)
  <2>1. CASE Contains(queue, s)
    BY <1>3, <1>5, <2>1 DEF Enqueued
  <2>2. CASE ~Contains(queue, s)
    <3>1. ~InLine(s)'
      BY <1>1, <1>2, <2>2 DEF SessionInv, WaitsQueued
    <3> QED  BY <1>1, <1>2, <1>5, <2>2, <3>1, OrderExtended
  <2> QED  BY <2>1, <2>2
<1> QED  BY <1>3, <1>4, <1>5 DEF Handles

-----------------------------------------------------------------------------
(* The queue invariant                                                     *)

\* A step that is about s leaves the other sessions' places in the queue alone.
LEMMA OthersUndisturbed ==
  ASSUME TypeOK, NEW s \in Sessions, NEW t \in Sessions, t # s, SessionInv(t), KeepsCalls(t),
         queue' \in {queue, Enqueued(queue, s), Dequeued(queue, s)},
         state'[t] = state[t], asked'[t] = asked[t],
         serviced' \in {serviced, serviced \cup {s}, serviced \ {s}},
         overlapped' \in {overlapped, overlapped \cup {s}},
         overtaken' \in {overtaken, overtaken \cup {s}},
         events' = events \/ events' = events + 1
  PROVE  SessionInv(t)'
<1>1. queue \in Seq(Sessions)
  BY TypeParts DEF QueueTyped
<1>2. Contains(queue', t) <=> Contains(queue, t)
  <2>1. Contains(Enqueued(queue, s), t) <=> Contains(queue, t)
    BY <1>1, EnqueuedFacts
  <2>2. Contains(Dequeued(queue, s), t) <=> Contains(queue, t)
    BY <1>1, DequeuedFacts
  <2> QED  BY <2>1, <2>2
<1>3. /\ t \in serviced' <=> t \in serviced
      /\ t \in overlapped' <=> t \in overlapped
      /\ t \in overtaken' <=> t \in overtaken
  OBVIOUS
<1> QED  BY <1>2, <1>3, Undisturbed

LEMMA AppearsKeeps ==
  ASSUME TypeOK, TypeOK', QueueInv, NEW s \in Sessions, Appears(s)
  PROVE  QueueInv'
<1>1. ASSUME NEW t \in Sessions, t # s PROVE SessionInv(t)'
  <2>1. state'[t] = state[t] /\ asked'[t] = asked[t] /\ KeepsCalls(t)
    BY <1>1, TypeParts DEF QueueTyped, Appears
  <2> QED  BY <1>1, <2>1, OthersUndisturbed, QueueInvParts DEF Appears
<1>2. SessionInv(s)' /\ QueueIsFifo'
  BY AppearsInv, AppearsOrder, QueueInvParts
<1> QED  BY <1>1, <1>2, QueueInvPartsAfter

LEMMA JumpsKeeps ==
  ASSUME TypeOK, TypeOK', QueueInv, NEW s \in Sessions, Jumps(s)
  PROVE  QueueInv'
<1>1. ASSUME NEW t \in Sessions, t # s PROVE SessionInv(t)'
  <2>1. state'[t] = state[t] /\ asked'[t] = asked[t] /\ KeepsCalls(t)
    BY <1>1 DEF Jumps
  <2> QED  BY <1>1, <2>1, OthersUndisturbed, QueueInvParts DEF Jumps
<1>2. SessionInv(s)' /\ QueueIsFifo'
  BY JumpsInv, JumpsOrder, QueueInvParts
<1> QED  BY <1>1, <1>2, QueueInvPartsAfter

LEMMA AnnouncesKeeps ==
  ASSUME TypeOK, TypeOK', QueueInv, NEW s \in Sessions, NEW to \in Transitions, Announces(s, to)
  PROVE  QueueInv'
<1>1. ASSUME NEW t \in Sessions, t # s PROVE SessionInv(t)'
  <2>1. state'[t] = state[t] /\ asked'[t] = asked[t]
    BY <1>1, TypeParts DEF QueueTyped, Announces, ChangeState
  <2>2. KeepsCalls(t)
    BY <1>1, BeginAdds DEF Announces, ChangeState
  <2> QED  BY <1>1, <2>1, <2>2, OthersUndisturbed, QueueInvParts DEF Announces, ChangeState
<1>2. SessionInv(s)' /\ QueueIsFifo'
  BY AnnouncesInv, AnnouncesOrder, QueueInvParts
<1> QED  BY <1>1, <1>2, QueueInvPartsAfter

LEMMA HandlesKeeps ==
  ASSUME TypeOK, TypeOK', QueueInv, NEW s \in Sessions, NEW i \in PendingOf(s), Handles(s, i)
  PROVE  QueueInv'
<1>1. ASSUME NEW t \in Sessions, t # s PROVE SessionInv(t)'
  <2>1. state'[t] = state[t] /\ asked'[t] = asked[t] /\ KeepsCalls(t)
    BY <1>1 DEF Handles
  <2> QED  BY <1>1, <2>1, OthersUndisturbed, QueueInvParts DEF Handles
<1>2. SessionInv(s)' /\ QueueIsFifo'
  BY HandlesInv, HandlesOrder, QueueInvParts
<1> QED  BY <1>1, <1>2, QueueInvPartsAfter

LEMMA QuietKeeps ==
  ASSUME TypeOK, TypeOK', QueueInv, Quiet
  PROVE  QueueInv'
<1>1. \A t \in Sessions : SessionInv(t)'
  BY Undisturbed, QueueInvParts DEF Quiet, queueVars
<1>2. \A x \in Sessions : InLine(x)' => InLine(x) /\ asked'[x] = asked[x]
  BY DEF Quiet, queueVars, InLine
<1>3. QueueIsFifo'
  BY <1>2, OrderSame, QueueInvParts DEF Quiet, queueVars
<1> QED  BY <1>1, <1>3, QueueInvPartsAfter

LEMMA QueueInvStep ==
  ASSUME TypeOK, QueueInv, [Next]_vars
  PROVE  TypeOK' /\ QueueInv'
<1>1. TypeOK' /\ QueueStep
  BY StepFacts
<1> QED  BY <1>1, QuietKeeps, AppearsKeeps, JumpsKeeps, AnnouncesKeeps, HandlesKeeps DEF QueueStep

LEMMA FocusInitTyped ==
  ASSUME Init
  PROVE  TypeOK
<1> DEFINE waiting == {s \in Sessions : state[s] = "HUMAN_ACTIVE"}
<1>1. MaxEvents \in Nat /\ MaxCalls \in Nat /\ MaxUpsets \in Nat /\ FocusEnabled \in BOOLEAN
      /\ IsFiniteSet(waiting)
  BY FocusAssumption, FS_Subset DEF FocusAssumption
<1>2. Cardinality(waiting) \in Nat
  BY <1>1, FS_CardinalityType
<1>3. queue \in [1..Cardinality(waiting) -> waiting]
  BY DEF Init, Orders
<1>4. queue \in Seq(Sessions)
  <2>1. PICK n \in Nat : queue \in [1..n -> waiting]
    BY <1>2, <1>3
  <2>2. queue \in [1..n -> Sessions]
    BY <2>1
  <2> QED  BY <2>2
<1>5. calls \in Seq(Calls) /\ Len(calls) <= MaxCalls
  BY <1>1 DEF Init
<1>6. asked \in [Sessions -> 0..MaxEvents] /\ events \in 0..MaxEvents
  BY <1>1 DEF Init
<1>7. QueueTyped
  BY <1>4, <1>6 DEF Init, QueueTyped
<1>8. RestTyped
  <2>1. paused \in BOOLEAN /\ cooldown \in BOOLEAN /\ dwelling \in BOOLEAN
    BY <1>1 DEF Init
  <2>2. upsets \in 0..MaxUpsets
    BY <1>1 DEF Init
  <2>3. /\ grace \subseteq Sessions /\ banner \in Sessions \cup {None}
        /\ lastSetTarget \in Panes \cup {None} /\ cursor \in Panes
    BY DEF Init
  <2> QED  BY <2>1, <2>2, <2>3 DEF RestTyped
<1> QED  BY <1>5, <1>7, <1>8, TypeParts DEF CallsTyped

\* The replay queues exactly the sessions that wait, and no call is under way.
LEMMA QueueInvInit ==
  ASSUME Init
  PROVE  QueueInv
<1> DEFINE waiting == {s \in Sessions : state[s] = "HUMAN_ACTIVE"}
<1>1. TypeOK
  BY FocusInitTyped
<1>2. IsFiniteSet(waiting) /\ Cardinality(waiting) \in Nat
  BY FocusAssumption, FS_Subset, FS_CardinalityType DEF FocusAssumption
<1>3. queue \in [1..Cardinality(waiting) -> waiting]
      /\ \A s \in waiting : \E i \in 1..Cardinality(waiting) : queue[i] = s
  BY DEF Init, Orders
<1>4. Len(queue) = Cardinality(waiting)
  BY <1>2, <1>3
<1>5. \A s \in Sessions : Contains(queue, s) <=> state[s] = "HUMAN_ACTIVE"
  BY <1>3, <1>4 DEF Contains
<1>6. \A s \in Sessions : TransitionsOf(s) = {} /\ PendingOf(s) = {}
  BY DEF Init, TransitionsOf, PendingOf
<1>7. ASSUME NEW s \in Sessions PROVE SessionInv(s)
  <2>1. LastCallTells(s) /\ LeavesAgain(s) /\ HandledInOrder(s)
    BY <1>6 DEF LastCallTells, LeavesAgain, HandledInOrder
  <2>2. OvertakenOverlap(s) /\ QueuedWaits(s) /\ WaitsQueued(s) /\ asked[s] <= events
    BY <1>5, <1>6 DEF OvertakenOverlap, QueuedWaits, WaitsQueued, InLine, Init
  <2> QED  BY <2>1, <2>2 DEF SessionInv
<1>8. QueueIsFifo
  <2>1. \A i \in 1..Len(queue) : queue[i] \in Sessions
    BY <1>3, <1>4
  <2> QED  BY <2>1 DEF QueueIsFifo, Init
<1> QED  BY <1>7, <1>8, QueueInvParts

LEMMA QueueInvariant == Spec => [](TypeOK /\ QueueInv)
<1>1. Init => TypeOK /\ QueueInv
  BY FocusInitTyped, QueueInvInit
<1>2. TypeOK /\ QueueInv /\ [Next]_vars => TypeOK' /\ QueueInv'
  BY QueueInvStep
<1> QED  BY <1>1, <1>2, PTL DEF Spec

(***************************************************************************)
(* Type correctness: whatever the order of tmux's answers, the engine's    *)
(* queue, timers and calls stay what onTransition takes them to be.        *)
(***************************************************************************)
THEOREM FocusTypeCorrect == Spec => []TypeOK
BY QueueInvariant, PTL

(***************************************************************************)
(* The queue of focus.ts is what its comment says, for any number of       *)
(* sessions, calls and interleavings: a session whose changes have been    *)
(* handled in order is queued only if it waits for its human, and always   *)
(* if it waits unserviced.                                                 *)
(***************************************************************************)
THEOREM QueueTracks == Spec => []QueueTracksState
<1>1. QueueInv => QueueTracksState
  BY SettledMeans, QueueInvParts DEF QueueTracksState, SessionInv, QueuedWaits, WaitsQueued
<1> QED  BY <1>1, QueueInvariant, PTL

(***************************************************************************)
(* First come, first served, for any number of sessions: seedHumanActive   *)
(* puts the sessions that are in line in the order of their events, and no *)
(* late call of onTransition disturbs it.                                  *)
(***************************************************************************)
THEOREM FirstComeFirstServed == Spec => []QueueIsFifo
<1>1. QueueInv => QueueIsFifo
  BY DEF QueueInv
<1> QED  BY <1>1, QueueInvariant, PTL

-----------------------------------------------------------------------------
(* The cursor                                                              *)

\* What call c was told of the cursor at p: unless the cursor has changed panes
\* since, it is still there; and c moves it only from its source.
Informed(c, p) ==
  /\ ~c.left /\ c.at \in {"detected", "sampled", "focus"} => c.sample \in {p, None}
  /\ c.at = "focus" => c.sample = Source(c)

CursorInv == \A i \in 1..Len(calls) : calls[i].kind # "focus" => Informed(calls[i], cursor)

\* A call that has not been told anything, or has nothing more to do.
LEMMA NothingToldYet ==
  ASSUME NEW c, NEW p, c.at \in {"detect", "current", "focused", "done"}
  PROVE  Informed(c, p)
BY DEF Informed

\* Call i goes on.
LEMMA InformedOnward ==
  ASSUME TypeOK, CursorInv, NEW i \in 1..Len(calls), NEW at \in Waits, Goto(i, at), cursor' = cursor,
         calls[i].kind = "focus" \/ at \in {"detect", "current", "focused", "done"}
           \/ (calls[i].at = "sampled" /\ at = "focus" /\ calls[i].sample = Source(calls[i]))
  PROVE  CursorInv'
<1>1. /\ Len(calls') = Len(calls) /\ calls'[i].kind = calls[i].kind
      /\ calls'[i].session = calls[i].session /\ calls'[i].at = at
      /\ \A j \in 1..Len(calls) : j # i => calls'[j] = calls[j]
  BY GotoFacts
<1>2. calls'[i].sample = calls[i].sample /\ calls'[i].left = calls[i].left
  <2>1. calls[i] \in Calls /\ calls \in Seq(Calls)
    BY CallTypes
  <2>2. calls' = [calls EXCEPT ![i] = [calls[i] EXCEPT !.at = at]]
    BY DEF Goto
  <2>3. calls'[i] = [calls[i] EXCEPT !.at = at]
    BY <2>1, <2>2
  <2> QED  BY <2>1, <2>3 DEF Calls
<1>3. calls'[i].kind # "focus" => Informed(calls'[i], cursor)
  BY <1>1, <1>2 DEF CursorInv, Informed, Source
<1> SUFFICES ASSUME NEW j \in 1..Len(calls), calls'[j].kind # "focus"
             PROVE  Informed(calls'[j], cursor)
  BY <1>1 DEF CursorInv
<1> QED  BY <1>1, <1>3 DEF CursorInv

\* The calls are as they were, but for one that has only begun.
LEMMA InformedBegin ==
  ASSUME TypeOK, CursorInv, NEW kind \in CallKinds, NEW s \in Sessions, NEW at \in Waits,
         Begin(kind, s, at), cursor' = cursor, kind = "focus" \/ at = "detect"
  PROVE  CursorInv'
<1>1. PICK n : n = Len(calls) + 1
  OBVIOUS
<1>2. /\ Len(calls') = n /\ n \in Nat /\ calls'[n].kind = kind /\ calls'[n].at = at
      /\ \A j \in 1..Len(calls) : calls'[j] = calls[j]
  BY <1>1, BeginFacts
<1>3. \A j \in 1..n : j \in 1..Len(calls) \/ j = n
  BY <1>1, CallTypes
<1> SUFFICES ASSUME NEW j \in 1..n, calls'[j].kind # "focus"
             PROVE  Informed(calls'[j], cursor)
  BY <1>2 DEF CursorInv
<1> QED  BY <1>2, <1>3, NothingToldYet DEF CursorInv

LEMMA InformedSame ==
  ASSUME CursorInv, UNCHANGED <<calls, cursor>>
  PROVE  CursorInv'
BY DEF CursorInv

\* The cursor moved: nobody's answer is held against the pane it is in now.
LEMMA InformedLeft ==
  ASSUME TypeOK, CursorInv
  PROVE  \A i \in 1..Len(calls), p \in Panes :
           Left(calls)[i].kind # "focus" => Informed(Left(calls)[i], p)
<1> SUFFICES ASSUME NEW i \in 1..Len(calls), NEW p \in Panes, NEW c, c = Left(calls)[i],
                    c.kind # "focus"
             PROVE  Informed(c, p)
  OBVIOUS
<1>1. calls[i] \in Calls /\ c = [calls[i] EXCEPT !.left = TRUE]
  BY CallTypes DEF Left
<1>2. /\ c.left = TRUE /\ c.at = calls[i].at /\ c.sample = calls[i].sample
      /\ c.kind = calls[i].kind /\ c.session = calls[i].session
  BY <1>1 DEF Calls
<1> QED  BY <1>2 DEF CursorInv, Informed, Source

LEMMA AnswerInformed ==
  ASSUME TypeOK, CursorInv, NEW i \in 1..Len(calls), Answer(i)
  PROVE  CursorInv'
<1>1. cursor' = cursor
  BY DEF Answer
<1>2. PICK p \in {cursor, None} :
        calls' = [calls EXCEPT ![i] =
                    [@ EXCEPT !.at = Answered[calls[i].at], !.sample = p, !.left = FALSE]]
  BY DEF Answer
<1>3. PICK to : to = Answered[calls[i].at]
  OBVIOUS
<1>4. to \in {"detected", "sampled"}
  BY <1>3 DEF Answer, Answered
<1>5. PICK c : c = [calls[i] EXCEPT !.at = to, !.sample = p, !.left = FALSE]
  OBVIOUS
<1>6. c.at = to /\ c.sample = p
  <2>1. calls[i] \in Calls
    BY CallTypes
  <2> QED  BY <1>5, <2>1 DEF Calls
<1>7. calls' = [calls EXCEPT ![i] = c] /\ calls \in Seq(Calls)
  BY <1>2, <1>3, <1>5, CallTypes
<1>8. /\ Len(calls') = Len(calls) /\ calls'[i] = c
      /\ \A j \in 1..Len(calls) : j # i => calls'[j] = calls[j]
  BY <1>7
<1>9. Informed(c, cursor)
  BY <1>4, <1>6 DEF Informed
<1> SUFFICES ASSUME NEW j \in 1..Len(calls), calls'[j].kind # "focus"
             PROVE  Informed(calls'[j], cursor)
  BY <1>1, <1>8 DEF CursorInv
<1> QED  BY <1>8, <1>9 DEF CursorInv

LEMMA FocusPaneInformed ==
  ASSUME TypeOK, CursorInv, NEW i \in 1..Len(calls), FocusPane(i)
  PROVE  CursorInv'
<1>1. CASE Goto(i, "done") /\ UNCHANGED cursor
  BY <1>1, InformedOnward DEF Waits
<1>2. CASE /\ cursor' = Target(calls[i])
           /\ calls' = [(IF cursor' # cursor THEN Left(calls) ELSE calls) EXCEPT ![i].at = "focused"]
  <2>1. PICK cs : cs = IF cursor' # cursor THEN Left(calls) ELSE calls
    OBVIOUS
  <2>2. PICK p \in Panes : p = cursor'
    BY <1>2, CallTypes DEF Target, Panes
  <2>3. /\ cs \in Seq(Calls) /\ Len(cs) = Len(calls)
        /\ \A j \in 1..Len(calls) : cs[j].kind # "focus" => Informed(cs[j], p)
    <3>1. CASE cursor' # cursor
      BY <2>1, <3>1, LeftFacts, InformedLeft
    <3>2. CASE cursor' = cursor
      BY <2>1, <2>2, <3>2, TypeParts DEF CallsTyped, CursorInv
    <3> QED  BY <3>1, <3>2
  <2>4. PICK c : c = [cs[i] EXCEPT !.at = "focused"]
    OBVIOUS
  <2>5. c.at = "focused"
    <3>1. cs[i] \in Calls
      BY <2>3
    <3> QED  BY <2>4, <3>1 DEF Calls
  <2>6. calls' = [cs EXCEPT ![i] = c]
    BY <1>2, <2>1, <2>4
  <2>7. /\ Len(calls') = Len(calls) /\ calls'[i] = c
        /\ \A j \in 1..Len(calls) : j # i => calls'[j] = cs[j]
    BY <2>3, <2>6
  <2>8. Informed(c, p)
    BY <2>5, NothingToldYet
  <2> SUFFICES ASSUME NEW j \in 1..Len(calls), calls'[j].kind # "focus"
               PROVE  Informed(calls'[j], p)
    BY <2>2, <2>7 DEF CursorInv
  <2> QED  BY <2>3, <2>7, <2>8
<1> QED  BY <1>1, <1>2 DEF FocusPane, Unresolved, Return

LEMMA MoveCursorInformed ==
  ASSUME TypeOK, CursorInv, NEW p \in Panes, MoveCursor(p)
  PROVE  CursorInv'
<1>1. cursor' = p /\ calls' = Left(calls) /\ Len(calls') = Len(calls)
  BY LeftFacts DEF MoveCursor
<1> QED  BY <1>1, InformedLeft DEF CursorInv

LEMMA ResumeInformed ==
  ASSUME TypeOK, CursorInv, NEW i \in 1..Len(calls), Resume(i)
  PROVE  CursorInv'
<1>1. cursor' = cursor
  BY DEF Resume, ResumeDetected, ResumeSampled, ResumeFocusSession, ResumeFocused
<1>2. CASE ResumeDetected(i)
  <2>1. PICK at \in {"current", "done"} : Goto(i, at)
    BY <1>2 DEF ResumeDetected, NeedsYou, Working, Dead, Return
  <2> QED  BY <1>1, <2>1, InformedOnward DEF Waits
<1>3. CASE ResumeSampled(i)
  <2>1. CASE Goto(i, "done")
    BY <1>1, <2>1, InformedOnward DEF Waits
  <2>2. CASE Goto(i, "focus") /\ calls[i].sample = Source(calls[i])
    BY <1>1, <1>3, <2>2, InformedOnward DEF Waits, ResumeSampled
  <2> QED  BY <1>3, <2>1, <2>2 DEF ResumeSampled, Unresolved, Return
<1>4. CASE ResumeFocusSession(i)
  <2>1. PICK at \in {"focus", "done"} : Goto(i, at)
    BY <1>4 DEF ResumeFocusSession, Unresolved, Return
  <2> QED  BY <1>1, <1>4, <2>1, InformedOnward DEF Waits, ResumeFocusSession
<1>5. CASE ResumeFocused(i)
  BY <1>1, <1>5, InformedOnward DEF Waits, ResumeFocused, Return
<1> QED  BY <1>2, <1>3, <1>4, <1>5 DEF Resume

LEMMA SessionInformed ==
  ASSUME TypeOK, CursorInv, NEW s \in Sessions,
         (\E e \in StateEvents : SessionEvent(s, e)) \/ GoStale(s) \/ FocusSession(s) \/ GraceFires(s)
  PROVE  CursorInv'
<1>1. cursor' = cursor
  BY DEF SessionEvent, GoStale, FocusSession, GraceFires
<1>2. ASSUME NEW to \in Transitions, Begin(to, s, "detect") PROVE CursorInv'
  BY <1>1, <1>2, InformedBegin DEF CallKinds, Waits
<1>3. CASE (\E e \in StateEvents : SessionEvent(s, e)) \/ GoStale(s)
  <2>1. UNCHANGED calls \/ \E to \in Transitions : Begin(to, s, "detect")
    <3>1. CASE GoStale(s)
      BY <3>1 DEF GoStale, ChangeState, StaleStates, Transitions, SessionStates
    <3>2. ASSUME NEW e \in StateEvents, SessionEvent(s, e)
          PROVE  UNCHANGED calls \/ \E to \in Transitions : Begin(to, s, "detect")
      <4>1. PICK from : from = IF state[s] = None THEN InitialState ELSE state[s]
        OBVIOUS
      <4>2. PICK to : to = ReduceState(from, e)
        OBVIOUS
      <4>3. from \in SessionStates
        BY <4>1, TypeParts DEF QueueTyped, InitialState, SessionStates
      <4>4. to \in Transitions
        BY <4>2, <4>3 DEF ReduceState, Transitions, SessionStates
      <4>5. UNCHANGED calls \/ ChangeState(s, to)
        BY <3>2, <4>1, <4>2 DEF SessionEvent
      <4> QED  BY <4>4, <4>5 DEF ChangeState
    <3> QED  BY <1>3, <3>1, <3>2
  <2> QED  BY <1>1, <1>2, <2>1, InformedSame
<1>4. CASE FocusSession(s)
  BY <1>1, <1>4, InformedBegin DEF FocusSession, CallKinds, Waits
<1>5. CASE GraceFires(s)
  BY <1>1, <1>5, InformedSame, InformedBegin DEF GraceFires, CallKinds, Waits
<1> QED  BY <1>3, <1>4, <1>5

LEMMA CursorInvStep ==
  ASSUME TypeOK, CursorInv, [Next]_vars
  PROVE  CursorInv'
<1>1. CASE UNCHANGED vars
  BY <1>1, InformedSame DEF vars
<1>2. CASE CooldownEnds \/ DwellEnds \/ \E p \in BOOLEAN : SetPaused(p)
  BY <1>2, InformedSame DEF CooldownEnds, DwellEnds, SetPaused
<1>3. CASE Next
  BY <1>2, <1>3, SessionInformed, AnswerInformed, FocusPaneInformed, ResumeInformed,
     MoveCursorInformed DEF Next
<1> QED  BY <1>1, <1>3

(***************************************************************************)
(* The engine takes the cursor only out of the pane it may take it from,   *)
(* whatever the number of calls and moves: an answer of tmux that a call   *)
(* acts on was true of the cursor until the cursor changed panes.          *)
(***************************************************************************)
THEOREM CursorTakenFromSource == Spec => AutoFocusFromSource
<1>1. Init => CursorInv
  BY DEF Init, CursorInv
<1>2. TypeOK /\ CursorInv /\ [Next]_vars => CursorInv'
  BY CursorInvStep
<1>3. TypeOK /\ CursorInv =>
        \A i \in 1..MaxCalls : AutoFocus(i) => cursor = Source(calls[i]) \/ calls[i].left
  <2> SUFFICES ASSUME TypeOK, CursorInv, NEW i \in 1..MaxCalls, AutoFocus(i)
               PROVE  cursor = Source(calls[i]) \/ calls[i].left
    OBVIOUS
  <2>1. i \in 1..Len(calls) /\ calls[i].at = "focus" /\ calls[i].kind # "focus"
    BY DEF AutoFocus
  <2>2. Source(calls[i]) # None
    BY <2>1, CallTypes, FocusAssumption DEF FocusAssumption, Source
  <2> QED  BY <2>1, <2>2 DEF CursorInv, Informed
<1>4. Spec => []TypeOK
  BY FocusTypeCorrect
<1> QED  BY <1>1, <1>2, <1>3, <1>4, PTL DEF Spec, AutoFocusFromSource
=============================================================================
