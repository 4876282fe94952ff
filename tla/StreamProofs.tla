---------------------------- MODULE StreamProofs ----------------------------
(***************************************************************************)
(* Proofs about two samples of Services: Streams, for any number of events *)
(* and any truncation, and LLMStream, for any number of deltas and         *)
(* attempts.                                                               *)
(***************************************************************************)
EXTENDS Services, Integers, TLAPS
-----------------------------------------------------------------------------
(* Streams: the inductive invariant.                                       *)

StreamTypes ==
  /\ host \in {"ticker", "pipeline"}
  /\ published \in Nat /\ base \in Nat
  /\ running \in {"publishing", "sleeping", "held", "closed"}
  /\ reading \in [Stream!Subscribers -> {"reading", "away", "resumed", "done"}]
  /\ position \in [Stream!Subscribers -> Nat]
  /\ batch \in [Stream!Subscribers -> Seq(Nat)]
  /\ shown \in [Stream!Subscribers -> Seq(Nat)]
  /\ last_offset \in Nat \cup {-1} /\ dropped \in Nat /\ processed \in Nat

\* The ticker truncates when it wakes up at a multiple of TruncateEvery: the log has grown
\* by what was published since, and by one event more while it sleeps.
LogInv ==
  /\ base <= published
  /\ host = "pipeline" => base = 0
  /\ base = 0 \/ published - base >= KeepLast
  /\ host = "ticker" /\ running = "sleeping" =>
       published >= 1 /\ published - base <= KeepLast + ((published - 1) % TruncateEvery) + 1
  /\ host = "ticker" /\ running # "sleeping" =>
       published - base <= KeepLast + (published % TruncateEvery)

Increasing(s) == \A i, k \in 1..Len(s) : i < k => s[i] < s[k]

\* What the slow subscriber has still to look at comes after all it has shown, and before
\* what its next poll asks for.
SlowInv ==
  LET b == batch["slow"]
      s == shown["slow"]
  IN /\ Increasing(b)
     /\ \A i \in 1..Len(b) : last_offset < b[i] /\ b[i] < position["slow"]
     /\ last_offset < position["slow"]
     /\ s = <<>> => last_offset = -1 /\ dropped = 0
     /\ s # <<>> => /\ \A i \in 1..(Len(s) - 1) : s[i] < s[i + 1]
                    /\ last_offset = s[Len(s)]
                    /\ Len(s) + dropped = s[Len(s)] - s[1] + 1

\* The resuming subscriber has, shown or in its batch, all events before its position.
ResumingInv ==
  LET r == "resuming"
      n == Len(shown[r])
  IN /\ \A i \in 1..n : shown[r][i] = i - 1
     /\ processed = n
     /\ reading[r] \in {"reading", "resumed"} =>
          /\ position[r] = n + Len(batch[r])
          /\ \A i \in 1..Len(batch[r]) : batch[r][i] = n + i - 1
     /\ reading[r] = "away" => batch[r] = <<>>

StreamInv == StreamTypes /\ LogInv /\ SlowInv /\ ResumingInv
-----------------------------------------------------------------------------
(* Numbers and sequences.                                                  *)

\* A counter and its remainder.
LEMMA NextRemainder ==
  ASSUME NEW p \in Nat \ {0}, NEW t \in Nat \ {0}
  PROVE  /\ p % t \in Nat /\ (p - 1) % t \in Nat /\ p % t <= t - 1 /\ (p - 1) % t <= t - 1
         /\ p % t # 0 => p % t = ((p - 1) % t) + 1
<1>1. /\ p % t \in 0..t - 1 /\ (p - 1) % t \in 0..t - 1
      /\ p = t * (p \div t) + (p % t) /\ p \div t \in Nat
      /\ p - 1 = t * ((p - 1) \div t) + ((p - 1) % t) /\ (p - 1) \div t \in Nat
  OBVIOUS
<1> DEFINE d == (p \div t) - ((p - 1) \div t)
<1>2. t * d = 1 + ((p - 1) % t) - (p % t)
  BY <1>1
<1>3. d \in Int /\ d > -1 /\ d < 2
  BY <1>1, <1>2
<1>4. d = 0 => p % t = ((p - 1) % t) + 1
  BY <1>1, <1>2
<1>5. d = 1 => p % t = 0
  BY <1>1, <1>2
<1> QED
  BY <1>1, <1>3, <1>4, <1>5

\* The larger and the smaller of two numbers.
LEMMA MaxOfTwo ==
  ASSUME NEW m \in Nat, NEW n \in Nat
  PROVE  /\ Stream!Max({m, n}) \in {m, n} /\ Stream!Max({m, n}) >= m /\ Stream!Max({m, n}) >= n
         /\ Stream!Min({m, n}) \in {m, n} /\ Stream!Min({m, n}) <= m /\ Stream!Min({m, n}) <= n
<1>1. \E x \in {m, n} : \A y \in {m, n} : x >= y
  <2>1. CASE m >= n
    BY <2>1
  <2>2. CASE n >= m
    BY <2>2
  <2> QED
    BY <2>1, <2>2
<1>2. \E x \in {m, n} : \A y \in {m, n} : x =< y
  <2>1. CASE m <= n
    BY <2>1
  <2>2. CASE n <= m
    BY <2>2
  <2> QED
    BY <2>1, <2>2
<1> QED
  BY <1>1, <1>2 DEF Stream!Max, Stream!Min

\* A sequence and one entry more.
LEMMA Longer ==
  ASSUME NEW S, NEW s \in Seq(S), NEW e \in S
  PROVE  /\ Append(s, e) \in Seq(S) /\ Append(s, e) # <<>>
         /\ Len(Append(s, e)) = Len(s) + 1 /\ Len(s) \in Nat
         /\ \A i \in 1..Len(s) : Append(s, e)[i] = s[i]
         /\ Append(s, e)[Len(s) + 1] = e
  OBVIOUS

\* A sequence without its head.
LEMMA Rest ==
  ASSUME NEW S, NEW s \in Seq(S), s # <<>>
  PROVE  /\ Tail(s) \in Seq(S) /\ Len(Tail(s)) = Len(s) - 1 /\ Len(s) \in Nat \ {0}
         /\ Head(s) = s[1] /\ Head(s) \in S
         /\ \A i \in 1..Len(s) - 1 : i + 1 \in 1..Len(s) /\ Tail(s)[i] = s[i + 1]
<1>1. Len(s) \in Nat \ {0}
  OBVIOUS
<1> QED
  BY <1>1

\* The events a poll returns.
LEMMA Consecutive ==
  ASSUME NEW m \in Nat, NEW n \in Nat
  PROVE  /\ [i \in 1..n |-> m + i - 1] \in Seq(Nat)
         /\ Len([i \in 1..n |-> m + i - 1]) = n
         /\ \A i \in 1..n : [k \in 1..n |-> m + k - 1][i] = m + i - 1
<1>1. \A i \in 1..n : m + i - 1 \in Nat
  OBVIOUS
<1> QED
  BY <1>1

\* What is left of an increasing sequence is increasing, and above its head.
LEMMA RestIncreasing ==
  ASSUME NEW b \in Seq(Nat), b # <<>>, Increasing(b), NEW p \in Nat,
         \A i \in 1..Len(b) : b[i] < p
  PROVE  /\ Increasing(Tail(b))
         /\ \A i \in 1..Len(Tail(b)) : Head(b) < Tail(b)[i] /\ Tail(b)[i] < p
<1>1. /\ Len(Tail(b)) = Len(b) - 1 /\ Len(b) \in Nat \ {0} /\ Head(b) = b[1]
      /\ \A i \in 1..Len(b) - 1 : i + 1 \in 1..Len(b) /\ Tail(b)[i] = b[i + 1]
  BY Rest
<1>2. Increasing(Tail(b))
  <2> SUFFICES ASSUME NEW i \in 1..Len(Tail(b)), NEW k \in 1..Len(Tail(b)), i < k
               PROVE  Tail(b)[i] < Tail(b)[k]
    BY DEF Increasing
  <2>1. /\ i + 1 \in 1..Len(b) /\ k + 1 \in 1..Len(b) /\ i + 1 < k + 1
        /\ Tail(b)[i] = b[i + 1] /\ Tail(b)[k] = b[k + 1]
    BY <1>1
  <2> QED
    BY <2>1 DEF Increasing
<1>3. ASSUME NEW i \in 1..Len(Tail(b)) PROVE Head(b) < Tail(b)[i] /\ Tail(b)[i] < p
  <2>1. i + 1 \in 1..Len(b) /\ Tail(b)[i] = b[i + 1] /\ 1 \in 1..Len(b) /\ 1 < i + 1
    BY <1>1
  <2> QED
    BY <1>1, <2>1 DEF Increasing
<1> QED
  BY <1>2, <1>3

\* The account of the slow subscriber, with one event and the gap before it more.
LEMMA OneGapMore ==
  ASSUME NEW t \in Seq(Nat), t # <<>>, NEW item \in Nat, NEW d \in Nat, t[Len(t)] < item,
         \A i \in 1..(Len(t) - 1) : t[i] < t[i + 1],
         Len(t) + d = t[Len(t)] - t[1] + 1,
         NEW u, u = Append(t, item)
  PROVE  /\ \A i \in 1..(Len(u) - 1) : u[i] < u[i + 1]
         /\ Len(u) + (d + (item - t[Len(t)] - 1)) = u[Len(u)] - u[1] + 1
<1>1. /\ Len(u) = Len(t) + 1 /\ Len(t) \in Nat \ {0}
      /\ \A i \in 1..Len(t) : u[i] = t[i] /\ t[i] \in Nat
      /\ u[Len(t) + 1] = item
  BY Longer, SMTT(30)
<1>2. u[Len(u)] = item /\ u[1] = t[1] /\ t[1] \in Nat /\ t[Len(t)] \in Nat /\ Len(u) \in Nat
  BY <1>1
<1>3. ASSUME NEW i \in 1..(Len(u) - 1) PROVE u[i] < u[i + 1]
  <2>1. CASE i = Len(t)
    BY <1>1, <2>1, SMTT(30)
  <2>2. CASE i # Len(t)
    <3>1. i \in 1..(Len(t) - 1) /\ i \in 1..Len(t) /\ i + 1 \in 1..Len(t)
      BY <1>1, <2>2
    <3> QED
      BY <1>1, <3>1
  <2> QED
    BY <2>1, <2>2
<1>4. Len(u) + (d + (item - t[Len(t)] - 1)) = u[Len(u)] - u[1] + 1
  <2> DEFINE k == Len(t)
             l == t[Len(t)]
             m == t[1]
  <2>1. k \in Nat /\ l \in Nat /\ m \in Nat /\ k + d = l - m + 1
    BY <1>1, <1>2
  <2>2. Len(u) = k + 1 /\ u[Len(u)] - u[1] + 1 = item - m + 1
    BY <1>1, <1>2
  <2> HIDE DEF k, l, m
  <2>3. (k + 1) + (d + (item - l - 1)) = item - m + 1
    BY <2>1
  <2> QED
    BY <2>2, <2>3 DEF l
<1> QED
  BY <1>3, <1>4

\* The numbering from 0 goes on from what is shown into what is left of the batch.
LEMMA NumberedOn ==
  ASSUME NEW t \in Seq(Nat), NEW b \in Seq(Nat), b # <<>>,
         \A i \in 1..Len(t) : t[i] = i - 1,
         \A i \in 1..Len(b) : b[i] = Len(t) + i - 1,
         NEW u, u = Append(t, Head(b))
  PROVE  /\ \A i \in 1..Len(u) : u[i] = i - 1
         /\ Head(b) + 1 = Len(u)
         /\ Len(t) + Len(b) = Len(u) + Len(Tail(b))
         /\ \A i \in 1..Len(Tail(b)) : Tail(b)[i] = Len(u) + i - 1
<1>1. /\ Len(Tail(b)) = Len(b) - 1 /\ Len(b) \in Nat \ {0} /\ Head(b) = b[1] /\ Head(b) \in Nat
      /\ \A i \in 1..Len(b) - 1 : i + 1 \in 1..Len(b) /\ Tail(b)[i] = b[i + 1]
  BY Rest
<1>2. /\ Len(u) = Len(t) + 1 /\ Len(t) \in Nat
      /\ \A i \in 1..Len(t) : u[i] = t[i]
      /\ u[Len(t) + 1] = Head(b)
  BY <1>1, Longer
<1>3. 1 \in 1..Len(b) /\ Head(b) = Len(t) + 1 - 1
  BY <1>1
<1>4. Head(b) + 1 = Len(u) /\ Len(t) + Len(b) = Len(u) + Len(Tail(b))
  BY <1>1, <1>2, <1>3
<1>5. ASSUME NEW i \in 1..Len(u) PROVE u[i] = i - 1
  <2>1. i \in 1..Len(t) \/ i = Len(t) + 1
    BY <1>2
  <2> QED
    BY <1>2, <1>3, <2>1
<1>6. ASSUME NEW i \in 1..Len(Tail(b)) PROVE Tail(b)[i] = Len(u) + i - 1
  <2>1. i + 1 \in 1..Len(b) /\ Tail(b)[i] = b[i + 1]
    BY <1>1
  <2>2. b[i + 1] = Len(t) + (i + 1) - 1
    BY <2>1
  <2> QED
    BY <1>2, <2>1, <2>2
<1> QED
  BY <1>4, <1>5, <1>6
-----------------------------------------------------------------------------
(* Streams: the steps.                                                     *)

\* Nothing has been published.
LEMMA StreamInit == Stream!StreamAssumption /\ Stream!Init => StreamInv
<1> SUFFICES ASSUME Stream!StreamAssumption, Stream!Init PROVE StreamInv
  OBVIOUS
<1> USE DEF Stream!Init, Stream!Subscribers, Stream!StreamAssumption
<1>1. StreamTypes
  BY DEF StreamTypes
<1>2. LogInv
  BY DEF LogInv
<1>3. SlowInv /\ ResumingInv
  BY DEF SlowInv, ResumingInv, Increasing
<1> QED
  BY <1>1, <1>2, <1>3 DEF StreamInv

\* The workflow publishes, truncates and closes.
LEMMA WorkflowInv ==
  ASSUME Stream!StreamAssumption, StreamInv, Stream!Workflow
  PROVE  StreamInv'
<1> USE DEF StreamInv, Stream!StreamAssumption, Stream!subscriber
<1>1. SlowInv' /\ ResumingInv'
  BY DEF Stream!Workflow, Stream!Publish, Stream!TickerWakes, Stream!PipelineWakes, Stream!Close,
         SlowInv, ResumingInv
<1>2. CASE Stream!Publish
  <2>1. StreamTypes'
    BY <1>2 DEF Stream!Publish, StreamTypes
  <2>2. published' - 1 = published
    BY <1>2 DEF Stream!Publish, StreamTypes
  <2>3. LogInv'
    BY <1>2, <2>2 DEF Stream!Publish, StreamTypes, LogInv
  <2> QED
    BY <1>1, <2>1, <2>3
<1>3. CASE Stream!TickerWakes
  <2>1. published \in Nat \ {0} /\ running' # "sleeping" /\ host' = "ticker" /\ published' = published
    BY <1>3 DEF Stream!TickerWakes, StreamTypes, LogInv
  <2>2. CASE Stream!MustTruncate
    <3>1. published > KeepLast /\ base' = published - KeepLast /\ published % TruncateEvery = 0
      BY <1>3, <2>2 DEF Stream!TickerWakes, Stream!MustTruncate, Stream!TruncateTo
    <3>2. StreamTypes'
      BY <1>3, <3>1 DEF Stream!TickerWakes, StreamTypes
    <3>3. LogInv'
      BY <2>1, <3>1 DEF LogInv
    <3> QED
      BY <1>1, <3>2, <3>3
  <2>3. CASE ~Stream!MustTruncate
    <3>1. base' = base
      BY <1>3, <2>3 DEF Stream!TickerWakes
    <3>2. StreamTypes'
      BY <1>3, <3>1 DEF Stream!TickerWakes, StreamTypes
    <3>3. published - base <= KeepLast + (published % TruncateEvery)
      <4>1. CASE published % TruncateEvery = 0
        BY <2>1, <2>3, <4>1 DEF Stream!MustTruncate, StreamTypes
      <4>2. CASE published % TruncateEvery # 0
        <5>1. published % TruncateEvery = ((published - 1) % TruncateEvery) + 1
          BY <2>1, <4>2, NextRemainder
        <5>2. published - base <= KeepLast + ((published - 1) % TruncateEvery) + 1
          BY <1>3 DEF Stream!TickerWakes, LogInv
        <5>3. (published - 1) % TruncateEvery \in Nat
          BY <2>1, NextRemainder
        <5> QED
          BY <5>1, <5>2, <5>3 DEF StreamTypes
      <4> QED
        BY <4>1, <4>2
    <3>4. LogInv'
      BY <2>1, <3>1, <3>3 DEF LogInv
    <3> QED
      BY <1>1, <3>2, <3>4
  <2> QED
    BY <2>2, <2>3
<1>4. CASE Stream!PipelineWakes \/ Stream!Close
  <2>1. StreamTypes'
    BY <1>4 DEF Stream!PipelineWakes, Stream!Close, StreamTypes
  <2>2. LogInv'
    BY <1>4 DEF Stream!PipelineWakes, Stream!Close, LogInv
  <2> QED
    BY <1>1, <2>1, <2>2
<1> QED
  BY <1>2, <1>3, <1>4 DEF Stream!Workflow

\* A subscriber gets what the log holds from its position on.
LEMMA PollInv ==
  ASSUME StreamInv, NEW s \in Stream!Subscribers, Stream!Poll(s)
  PROVE  StreamInv'
<1> USE DEF StreamInv
<1> DEFINE from == Stream!Max({position[s], base})
           new == [i \in 1..(published - from) |-> from + i - 1]
<1>1. /\ from \in Nat /\ from \in {position[s], base} /\ from >= position[s] /\ from <= published
  <2>1. position[s] \in Nat /\ base \in Nat /\ published \in Nat
    BY DEF StreamTypes
  <2>2. position[s] <= published /\ base <= published
    BY <2>1 DEF LogInv, Stream!Poll
  <2> QED
    BY <2>1, <2>2, MaxOfTwo
<1>2. /\ batch' = [batch EXCEPT ![s] = new] /\ position' = [position EXCEPT ![s] = published]
      /\ position[s] < published /\ batch[s] = <<>>
      /\ UNCHANGED <<host, published, base, running, reading, shown, last_offset, dropped, processed>>
  BY DEF Stream!Poll, Stream!stream
<1>3. /\ new \in Seq(Nat) /\ Len(new) = published - from
      /\ \A i \in 1..Len(new) : new[i] = from + i - 1
  <2>1. published - from \in Nat
    BY <1>1 DEF StreamTypes
  <2> QED
    BY <1>1, <2>1, Consecutive
<1> HIDE DEF from, new
<1>4. StreamTypes' /\ LogInv'
  BY <1>2, <1>3 DEF StreamTypes, LogInv
<1>5. SlowInv'
  <2>1. CASE s # "slow"
    BY <1>2, <2>1 DEF SlowInv, StreamTypes, Stream!Subscribers
  <2>2. CASE s = "slow"
    <3>1. batch'["slow"] = new /\ position'["slow"] = published
      BY <1>2, <2>2 DEF StreamTypes
    <3>2. Increasing(new)
      BY <1>1, <1>3 DEF Increasing
    <3>3. last_offset < position["slow"]
      BY DEF SlowInv
    <3>4. last_offset < from /\ last_offset \in Int /\ published \in Nat
      BY <1>1, <2>2, <3>3 DEF StreamTypes, Stream!Subscribers
    <3>5. \A i \in 1..Len(new) : last_offset < new[i] /\ new[i] < published
      BY <1>1, <1>3, <3>4
    <3>6. last_offset < published
      BY <1>2, <2>2, <3>3 DEF StreamTypes, Stream!Subscribers
    <3> QED
      BY <1>2, <3>1, <3>2, <3>5, <3>6 DEF SlowInv
  <2> QED
    BY <2>1, <2>2
<1>6. ResumingInv'
  <2>1. CASE s # "resuming"
    BY <1>2, <2>1 DEF ResumingInv, StreamTypes, Stream!Subscribers
  <2>2. CASE s = "resuming"
    <3>1. host = "pipeline" /\ reading["resuming"] \in {"reading", "resumed"}
      BY <2>2 DEF Stream!Poll, Stream!Connected, Stream!SubscribersOf, StreamTypes
    <3>2. from = position["resuming"]
      BY <1>1, <2>2, <3>1 DEF LogInv, StreamTypes, Stream!Subscribers
    <3>3. position["resuming"] = Len(shown["resuming"])
      <4>1. Len(batch["resuming"]) = 0 /\ Len(shown["resuming"]) \in Nat
        BY <1>2, <2>2 DEF StreamTypes, Stream!Subscribers
      <4> QED
        BY <3>1, <4>1 DEF ResumingInv
    <3>4. batch'["resuming"] = new /\ position'["resuming"] = published
      BY <1>2, <2>2 DEF StreamTypes
    <3>5. published = Len(shown["resuming"]) + Len(new)
      BY <1>1, <1>3, <3>2, <3>3 DEF StreamTypes
    <3> QED
      BY <1>2, <1>3, <3>1, <3>2, <3>3, <3>4, <3>5 DEF ResumingInv
  <2> QED
    BY <2>1, <2>2
<1> QED
  BY <1>4, <1>5, <1>6

\* The loop body of a subscriber: what is shown moves from its batch.
LEMMA ShowTypes ==
  ASSUME StreamTypes, NEW s \in Stream!Subscribers, Stream!Show(s)
  PROVE  /\ batch[s] \in Seq(Nat) /\ batch[s] # <<>> /\ Head(batch[s]) \in Nat
         /\ Tail(batch[s]) \in Seq(Nat)
         /\ shown[s] \in Seq(Nat)
         /\ shown' = [shown EXCEPT ![s] = shown'[s]] /\ shown' \in [Stream!Subscribers -> Seq(Nat)]
         /\ shown'[s] = Append(shown[s], Head(batch[s]))
<1>1. batch[s] \in Seq(Nat) /\ batch[s] # <<>> /\ shown[s] \in Seq(Nat)
  BY DEF StreamTypes, Stream!Show
<1>2. shown' = [shown EXCEPT ![s] = Append(shown[s], Head(batch[s]))]
  BY DEF Stream!Show
<1>3. shown'[s] = Append(shown[s], Head(batch[s]))
  BY <1>2 DEF StreamTypes
<1>4. Head(batch[s]) \in Nat /\ Tail(batch[s]) \in Seq(Nat)
  BY <1>1, Rest
<1>5. shown'[s] \in Seq(Nat)
  BY <1>1, <1>3, <1>4, Longer
<1>6. shown' = [shown EXCEPT ![s] = shown'[s]] /\ shown' \in [Stream!Subscribers -> Seq(Nat)]
  BY <1>2, <1>3, <1>5 DEF StreamTypes
<1> QED
  BY <1>1, <1>3, <1>4, <1>6

\* The fast subscriber keeps no account.
LEMMA FastInv ==
  ASSUME StreamInv, Stream!FastSubscriber
  PROVE  StreamInv'
<1> USE DEF StreamInv, Stream!FastSubscriber, Stream!stream
<1> DEFINE s == "fast"
<1>1. s \in Stream!Subscribers
  BY DEF Stream!Subscribers
<1>2. /\ Tail(batch[s]) \in Seq(Nat) /\ shown' = [shown EXCEPT ![s] = shown'[s]]
      /\ shown' \in [Stream!Subscribers -> Seq(Nat)]
  BY <1>1, ShowTypes
<1>3. StreamTypes'
  BY <1>1, <1>2 DEF StreamTypes
<1>4. LogInv'
  BY DEF LogInv
<1>5. /\ batch'["slow"] = batch["slow"] /\ shown'["slow"] = shown["slow"]
      /\ batch'["resuming"] = batch["resuming"] /\ shown'["resuming"] = shown["resuming"]
      /\ reading'["resuming"] = reading["resuming"]
  BY <1>2 DEF StreamTypes, Stream!Subscribers
<1>6. SlowInv' /\ ResumingInv'
  BY <1>5 DEF SlowInv, ResumingInv
<1> QED
  BY <1>3, <1>4, <1>6

\* The slow subscriber counts the events between the last one and the next.
LEMMA SlowSubscriberInv ==
  ASSUME StreamInv, Stream!SlowSubscriber
  PROVE  StreamInv'
<1> USE DEF StreamInv
<1> DEFINE b == batch["slow"]
           t == shown["slow"]
           u == shown'["slow"]
           item == Head(b)
<1>0. "slow" \in Stream!Subscribers
  BY DEF Stream!Subscribers
<1>1. /\ b \in Seq(Nat) /\ b # <<>> /\ item \in Nat /\ Tail(b) \in Seq(Nat) /\ t \in Seq(Nat)
      /\ shown' = [shown EXCEPT !["slow"] = u] /\ shown' \in [Stream!Subscribers -> Seq(Nat)]
      /\ u = Append(t, item)
  BY <1>0, ShowTypes DEF Stream!SlowSubscriber
<1>2. /\ dropped' = IF last_offset >= 0 /\ item > last_offset + 1
                    THEN dropped + (item - last_offset - 1) ELSE dropped
      /\ last_offset' = item
      /\ batch' = [batch EXCEPT !["slow"] = Tail(b)]
      /\ UNCHANGED <<host, published, base, running, position, processed>>
  BY DEF Stream!SlowSubscriber, Stream!Gap, Stream!stream
<1>3. /\ reading' \in [Stream!Subscribers -> {"reading", "away", "resumed", "done"}]
      /\ reading'["resuming"] = reading["resuming"]
  BY DEF Stream!SlowSubscriber, StreamTypes, Stream!Subscribers
<1>4. /\ last_offset < item /\ item < position["slow"] /\ last_offset \in Nat \cup {-1}
      /\ dropped \in Nat /\ position["slow"] \in Nat
  <2>1. item = b[1] /\ 1 \in 1..Len(b)
    BY <1>1, Rest
  <2> QED
    BY <1>0, <2>1 DEF SlowInv, StreamTypes
<1>5. dropped' \in Nat
  BY <1>1, <1>2, <1>4
<1>6. StreamTypes' /\ LogInv'
  BY <1>0, <1>1, <1>2, <1>3, <1>5 DEF StreamTypes, LogInv
<1>7. batch'["slow"] = Tail(b) /\ position'["slow"] = position["slow"]
  BY <1>0, <1>2 DEF StreamTypes
<1>8. SlowInv'
  <2>1. /\ Increasing(Tail(b))
        /\ \A i \in 1..Len(Tail(b)) : item < Tail(b)[i] /\ Tail(b)[i] < position["slow"]
    <3>1. Increasing(b) /\ \A i \in 1..Len(b) : b[i] < position["slow"]
      BY DEF SlowInv
    <3> QED
      BY <1>1, <1>4, <3>1, RestIncreasing
  <2>2. /\ t = <<>> => last_offset = -1 /\ dropped = 0
        /\ t # <<>> => /\ \A i \in 1..(Len(t) - 1) : t[i] < t[i + 1]
                       /\ last_offset = t[Len(t)]
                       /\ Len(t) + dropped = t[Len(t)] - t[1] + 1
    BY DEF SlowInv
  <2>3. u # <<>> /\ Len(u) = Len(t) + 1 /\ u[Len(u)] = item /\ Len(t) \in Nat
    <3>1. /\ Append(t, item) # <<>> /\ Len(Append(t, item)) = Len(t) + 1 /\ Len(t) \in Nat
          /\ Append(t, item)[Len(t) + 1] = item
      <4>1. t \in Seq(Nat) /\ item \in Nat
        BY <1>1
      <4> QED
        BY <4>1, Longer
    <3>2. u = Append(t, item)
      BY <1>1
    <3> QED
      BY <3>1, <3>2
  <2>4. /\ \A i \in 1..(Len(u) - 1) : u[i] < u[i + 1]
        /\ Len(u) + dropped' = u[Len(u)] - u[1] + 1
    <3>1. CASE t = <<>>
      <4>1. Len(u) = 1 /\ u[1] = item /\ dropped' = 0
        BY <1>1, <1>2, <2>2, <2>3, <3>1
      <4> QED
        BY <1>1, <4>1
    <3>2. CASE t # <<>>
      <4>1. last_offset \in Nat
        <5>1. Len(t) \in 1..Len(t)
          BY <1>1, <3>2
        <5> QED
          BY <1>1, <2>2, <3>2, <5>1
      <4>2. dropped' = dropped + (item - last_offset - 1)
        BY <1>1, <1>2, <1>4, <4>1, SMTT(30)
      <4> QED
        <5>1. /\ u = Append(t, item) /\ t \in Seq(Nat) /\ item \in Nat /\ dropped \in Nat
              /\ t[Len(t)] < item
              /\ \A i \in 1..(Len(t) - 1) : t[i] < t[i + 1]
              /\ Len(t) + dropped = t[Len(t)] - t[1] + 1
          BY <1>1, <1>4, <2>2, <3>2
        <5>2. /\ \A i \in 1..(Len(u) - 1) : u[i] < u[i + 1]
              /\ Len(u) + (dropped + (item - t[Len(t)] - 1)) = u[Len(u)] - u[1] + 1
          BY <3>2, <5>1, OneGapMore, Zenon
        <5> QED
          BY <2>2, <3>2, <4>2, <5>2
    <3> QED
      BY <3>1, <3>2
  <2> QED
    BY <1>2, <1>4, <1>7, <2>1, <2>3, <2>4 DEF SlowInv
<1>9. ResumingInv'
  <2>1. batch'["resuming"] = batch["resuming"] /\ shown'["resuming"] = shown["resuming"]
    BY <1>1, <1>2 DEF StreamTypes, Stream!Subscribers
  <2> QED
    BY <1>2, <1>3, <2>1 DEF ResumingInv
<1> QED
  BY <1>6, <1>8, <1>9

\* The resuming subscriber goes on, or goes away with the batch unread.
LEMMA ResumingSubscriberInv ==
  ASSUME StreamInv, Stream!ResumingSubscriber
  PROVE  StreamInv'
<1> USE DEF StreamInv
<1> DEFINE r == "resuming"
           b == batch[r]
           t == shown[r]
           u == shown'[r]
           leaves == reading[r] = "reading" /\ Len(u) >= PHASE_1_EVENTS
           a == IF leaves THEN "away"
                ELSE IF reading[r] = "resumed" /\ Stream!IsLast(Head(b)) THEN "done" ELSE reading[r]
           c == IF leaves THEN <<>> ELSE Tail(b)
<1>0. r \in Stream!Subscribers
  BY DEF Stream!Subscribers
<1>1. /\ b \in Seq(Nat) /\ b # <<>> /\ Head(b) \in Nat /\ Tail(b) \in Seq(Nat) /\ t \in Seq(Nat)
      /\ shown' = [shown EXCEPT ![r] = u] /\ shown' \in [Stream!Subscribers -> Seq(Nat)]
      /\ u = Append(t, Head(b))
  BY <1>0, ShowTypes DEF Stream!ResumingSubscriber
<1>2. /\ processed' = Head(b) + 1
      /\ UNCHANGED <<host, published, base, running, position, last_offset, dropped>>
      /\ reading[r] \in {"reading", "resumed"}
  BY DEF Stream!ResumingSubscriber, Stream!ResumeAt, Stream!stream, Stream!Show, Stream!Connected
<1>3. /\ \A i \in 1..Len(b) : b[i] = Len(t) + i - 1
      /\ position[r] = Len(t) + Len(b)
      /\ \A i \in 1..Len(t) : t[i] = i - 1
  BY <1>2 DEF ResumingInv
<1>4. reading' = [reading EXCEPT ![r] = a] /\ batch' = [batch EXCEPT ![r] = c]
  BY DEF Stream!ResumingSubscriber
<1>5. /\ a \in {"reading", "away", "resumed", "done"} /\ c \in Seq(Nat)
      /\ a = "away" => c = <<>>
      /\ a # "away" => c = Tail(b)
  BY <1>1, <1>2
<1> HIDE DEF a, c
<1>6. StreamTypes' /\ LogInv'
  <2>1. LogInv'
    BY <1>2 DEF LogInv
  <2>2. processed' \in Nat
    BY <1>1, <1>2
  <2> QED
    BY <1>0, <1>1, <1>2, <1>4, <1>5, <2>1, <2>2 DEF StreamTypes
<1>7. SlowInv'
  <2>1. batch'["slow"] = batch["slow"] /\ shown'["slow"] = shown["slow"]
    BY <1>1, <1>4 DEF StreamTypes, Stream!Subscribers
  <2> QED
    BY <1>2, <2>1 DEF SlowInv
<1>8. reading'[r] = a /\ batch'[r] = c
  BY <1>0, <1>4 DEF StreamTypes
<1>9. ResumingInv'
  <2>1. /\ \A i \in 1..Len(u) : u[i] = i - 1
        /\ processed' = Len(u)
        /\ position[r] = Len(u) + Len(Tail(b))
        /\ \A i \in 1..Len(Tail(b)) : Tail(b)[i] = Len(u) + i - 1
    <3>1. /\ \A i \in 1..Len(u) : u[i] = i - 1
          /\ Head(b) + 1 = Len(u)
          /\ Len(t) + Len(b) = Len(u) + Len(Tail(b))
          /\ \A i \in 1..Len(Tail(b)) : Tail(b)[i] = Len(u) + i - 1
      <4>1. u = Append(t, Head(b)) /\ t \in Seq(Nat) /\ b \in Seq(Nat) /\ b # <<>>
        BY <1>1
      <4> QED
        BY <1>3, <4>1, NumberedOn, ZenonT(30)
    <3> QED
      BY <1>2, <1>3, <3>1
  <2> QED
    BY <1>2, <1>5, <1>8, <2>1 DEF ResumingInv
<1> QED
  BY <1>6, <1>7, <1>9

\* Every step preserves the inductive invariant.
LEMMA StreamStep ==
  Stream!StreamAssumption /\ StreamInv /\ [Stream!Next]_Stream!vars => StreamInv'
<1> SUFFICES ASSUME Stream!StreamAssumption, StreamInv, [Stream!Next]_Stream!vars PROVE StreamInv'
  OBVIOUS
<1> USE DEF Stream!stream, Stream!subscriber
<1>1. ASSUME NEW s \in Stream!Subscribers, Stream!Exhausted(s) PROVE StreamInv'
  BY <1>1 DEF StreamInv, Stream!Exhausted, Stream!Subscribers, StreamTypes, LogInv, SlowInv,
              ResumingInv
<1>2. CASE Stream!Reconnect
  <2> USE <1>2 DEF Stream!Reconnect, StreamInv
  <2>1. StreamTypes' /\ LogInv'
    BY DEF StreamTypes, LogInv
  <2>2. position'["slow"] = position["slow"] /\ SlowInv'
    BY DEF SlowInv, StreamTypes, Stream!Subscribers
  <2>3. position'["resuming"] = processed /\ batch["resuming"] = <<>> /\ Len(<<>>) = 0
    BY DEF StreamTypes, Stream!Subscribers, ResumingInv
  <2>4. ResumingInv'
    BY <2>3 DEF StreamTypes, Stream!Subscribers, ResumingInv
  <2> QED
    BY <2>1, <2>2, <2>4
<1>3. CASE UNCHANGED Stream!vars
  BY <1>3 DEF Stream!vars, StreamInv, StreamTypes, LogInv, SlowInv, ResumingInv
<1> QED
  BY <1>1, <1>2, <1>3, WorkflowInv, PollInv, FastInv, SlowSubscriberInv, ResumingSubscriberInv
     DEF Stream!Next, Stream!Subscriber, Stream!AllDone
-----------------------------------------------------------------------------
\* Streams: the inductive invariant holds in every reachable state.
THEOREM StreamInvariant ==
  ASSUME Stream!StreamAssumption PROVE Stream!Spec => []StreamInv
  BY StreamInit, StreamStep, PTL DEF Stream!Spec

\* The inductive invariant says what EventsAccounted does.
LEMMA StreamAccount ==
  ASSUME Stream!StreamAssumption, StreamInv
  PROVE  Stream!EventsAccounted
<1> USE DEF StreamInv, Stream!StreamAssumption
<1>1. Stream!LogBounded
  <2> SUFFICES ASSUME host = "ticker"
               PROVE  /\ published - base >= Stream!Min({published, KeepLast})
                      /\ published - base <= KeepLast + TruncateEvery
    BY DEF Stream!LogBounded
  <2>1. published \in Nat /\ base \in Nat
    BY DEF StreamTypes
  <2>2. /\ Stream!Min({published, KeepLast}) \in {published, KeepLast}
        /\ Stream!Min({published, KeepLast}) <= published
        /\ Stream!Min({published, KeepLast}) <= KeepLast
    BY <2>1, MaxOfTwo
  <2>3. published - base >= Stream!Min({published, KeepLast})
    BY <2>1, <2>2 DEF LogInv
  <2>4. CASE running = "sleeping"
    <3>1. published \in Nat \ {0} /\ published - base <= KeepLast + ((published - 1) % TruncateEvery) + 1
      BY <2>1, <2>4 DEF LogInv
    <3> QED
      BY <2>1, <2>3, <3>1, NextRemainder
  <2>5. CASE running # "sleeping"
    <3>1. published - base <= KeepLast + (published % TruncateEvery)
      BY <2>5 DEF LogInv
    <3>2. published % TruncateEvery \in 0..TruncateEvery - 1
      BY <2>1
    <3> QED
      BY <2>1, <2>3, <3>1, <3>2
  <2> QED
    BY <2>4, <2>5
<1>2. Stream!GapsExact
  BY DEF Stream!GapsExact, Stream!Last, SlowInv
<1>3. Stream!NeitherMissedNorTwice
  <2>1. shown["resuming"] \in Seq(Nat)
    BY DEF StreamTypes, Stream!Subscribers
  <2>2. \A i \in 1..Len(shown["resuming"]) : shown["resuming"][i] = i - 1
    BY DEF ResumingInv
  <2> QED
    BY <2>1, <2>2 DEF Stream!NeitherMissedNorTwice
<1> QED
  BY <1>1, <1>2, <1>3 DEF Stream!EventsAccounted

\* TickerWorkflow's log keeps the last events and no more than two truncations are apart;
\* the slow subscriber's gaps are exact, and the one that resumes neither misses an event
\* nor shows one twice, however polls, truncations and absences fall.
LEMMA StreamAlone ==
  ASSUME Stream!StreamAssumption PROVE Stream!Spec => []Stream!EventsAccounted
<1>1. StreamInv => Stream!EventsAccounted
  BY StreamAccount
<1> QED
  BY StreamInvariant, <1>1, PTL
-----------------------------------------------------------------------------
(* LLMStream: the inductive invariant.  What a consumer shows depends only *)
(* on the last event it has read, if each event says what comes before it. *)

Event == [topic : {"delta", "complete", "retry"}, attempt : Nat, n : Nat]

\* The text that the first n deltas of attempt a make.
Text(a, n) == [m \in 1..n |-> LLM!Delta(a, m)]

\* What stands on the screen after event e, and before the event at i.
Shows(e) == IF e.topic = "retry" THEN <<>>
            ELSE Text(e.attempt, IF e.topic = "delta" THEN e.n ELSE Deltas)
Before(events, i) == IF i = 1 THEN <<>> ELSE Shows(events[i - 1])

Continues(before, e) ==
  /\ e.topic = "delta" => Shows(e) = Append(before, e)
  /\ e.topic = "complete" => Shows(e) = before
WellFormed(events) == \A i \in 1..Len(events) : Continues(Before(events, i), events[i])

\* An attempt that is still to come has done nothing.
LLMTypes ==
  /\ attempt \in LLM!Attempts /\ late \in BOOLEAN
  /\ produced \in [LLM!Attempts -> Nat] /\ buffer \in [LLM!Attempts -> Seq(Event)]
  /\ DOMAIN activity = LLM!Attempts /\ log \in Seq(Event)
  /\ consumed \in 1..Len(log) + 1
  /\ \A a \in LLM!Attempts : a > attempt => activity[a] = "none" /\ produced[a] = 0 /\ buffer[a] = <<>>

\* The events that are in the log or will be when the client of the attempt that the
\* service waits for flushes.
Events == log \o buffer[attempt]
HostInv ==
  /\ WellFormed(Events)
  /\ activity[attempt] = "starting" =>
       buffer[attempt] = <<>> /\ produced[attempt] = 0 /\ (attempt = 1 => log = <<>>)
  /\ activity[attempt] = "publishing" =>
       Before(Events, Len(Events) + 1) = Text(attempt, produced[attempt])

ConsumerInv == screen = Before(log, consumed) /\ LLM!TextApart

LLMInv == LLMTypes /\ (~late => HostInv /\ ConsumerInv)
-----------------------------------------------------------------------------
(* LLMStream: sequences of events.                                         *)

\* A sequence that goes on in another.
LEMMA GoesOn ==
  ASSUME NEW p \in Seq(Event), NEW q \in Seq(Event)
  PROVE  /\ p \o q \in Seq(Event) /\ Len(p) \in Nat /\ Len(p) <= Len(p \o q)
         /\ \A i \in 1..Len(p) : (p \o q)[i] = p[i]
         /\ \A i \in 1..Len(p) + 1 : Before(p \o q, i) = Before(p, i)
<1>1. /\ p \o q \in Seq(Event) /\ Len(p) \in Nat /\ Len(p) <= Len(p \o q)
      /\ \A i \in 1..Len(p) : (p \o q)[i] = p[i]
  OBVIOUS
<1>2. ASSUME NEW i \in 1..Len(p) + 1 PROVE Before(p \o q, i) = Before(p, i)
  <2>1. i = 1 \/ i - 1 \in 1..Len(p)
    BY <1>1
  <2> QED
    BY <1>1, <2>1 DEF Before
<1> QED
  BY <1>1, <1>2

\* What was lost with the buffer was at the end.
LEMMA WellFormedPrefix ==
  ASSUME NEW p \in Seq(Event), NEW q \in Seq(Event), WellFormed(p \o q)
  PROVE  WellFormed(p)
<1> SUFFICES ASSUME NEW i \in 1..Len(p) PROVE Continues(Before(p, i), p[i])
  BY DEF WellFormed
<1>1. i \in 1..Len(p \o q) /\ i \in 1..Len(p) + 1
  BY GoesOn
<1>2. (p \o q)[i] = p[i] /\ Before(p \o q, i) = Before(p, i)
  BY <1>1, GoesOn
<1> QED
  BY <1>1, <1>2 DEF WellFormed

\* One event more.
LEMMA WellFormedAppend ==
  ASSUME NEW p \in Seq(Event), NEW e \in Event, WellFormed(p),
         Continues(Before(p, Len(p) + 1), e)
  PROVE  WellFormed(Append(p, e)) /\ Before(Append(p, e), Len(Append(p, e)) + 1) = Shows(e)
<1>1. /\ Len(Append(p, e)) = Len(p) + 1 /\ Len(p) \in Nat
      /\ \A i \in 1..Len(p) : Append(p, e)[i] = p[i]
      /\ Append(p, e)[Len(p) + 1] = e
  BY Longer
<1>2. ASSUME NEW i \in 1..Len(Append(p, e)) PROVE Continues(Before(Append(p, e), i), Append(p, e)[i])
  <2>1. i = 1 \/ i - 1 \in 1..Len(p)
    BY <1>1
  <2>2. Before(Append(p, e), i) = Before(p, i)
    BY <1>1, <2>1 DEF Before
  <2>3. CASE i \in 1..Len(p)
    BY <1>1, <2>2, <2>3 DEF WellFormed
  <2>4. CASE i = Len(p) + 1
    BY <1>1, <2>2, <2>4
  <2> QED
    BY <1>1, <2>3, <2>4
<1>3. Before(Append(p, e), Len(Append(p, e)) + 1) = Shows(e)
  BY <1>1 DEF Before
<1> QED
  BY <1>2, <1>3 DEF WellFormed

\* What is published goes to the end of the log and the buffer.
LEMMA PublishedLast ==
  ASSUME NEW p \in Seq(Event), NEW q \in Seq(Event), NEW e \in Event
  PROVE  /\ p \o Append(q, e) = Append(p \o q, e) /\ Append(q, e) \in Seq(Event)
         /\ (p \o q) \o <<>> = p \o q /\ p \o <<>> = p
  OBVIOUS

\* A text and one delta more.
LEMMA OneDeltaMore ==
  ASSUME NEW a \in Nat, NEW n \in Nat
  PROVE  /\ Text(a, n + 1) = Append(Text(a, n), LLM!Delta(a, n + 1))
         /\ Text(a, 0) = <<>>
<1>1. \A m \in 1..n + 1 : LLM!Delta(a, m) \in Event
  BY DEF Event, LLM!Delta
<1>2. Text(a, n) \in Seq(Event) /\ Len(Text(a, n)) = n /\ \A m \in 1..n : Text(a, n)[m] = LLM!Delta(a, m)
  BY <1>1 DEF Text
<1>3. /\ Text(a, n + 1) \in Seq(Event) /\ Len(Text(a, n + 1)) = n + 1
      /\ \A m \in 1..n + 1 : Text(a, n + 1)[m] = LLM!Delta(a, m)
  BY <1>1 DEF Text
<1> DEFINE longer == Append(Text(a, n), LLM!Delta(a, n + 1))
<1>4. /\ longer \in Seq(Event) /\ Len(longer) = n + 1
      /\ \A m \in 1..n + 1 : longer[m] = LLM!Delta(a, m)
  BY <1>1, <1>2
<1>5. Text(a, n + 1) = longer
  BY <1>3, <1>4
<1>6. Text(a, 0) = <<>>
  BY DEF Text
<1> QED
  BY <1>5, <1>6
-----------------------------------------------------------------------------
(* LLMStream: the steps.                                                   *)

\* Nothing has been published.
LEMMA LLMInit == LLM!LLMAssumption /\ LLM!Init => LLMInv
<1> SUFFICES ASSUME LLM!LLMAssumption, LLM!Init PROVE LLMInv
  OBVIOUS
<1>1. attempt = 1 /\ attempt \in LLM!Attempts /\ log = <<>> /\ Len(<<>>) = 0
  BY DEF LLM!Init, LLM!LLMAssumption, LLM!Attempts
<1>2. buffer[attempt] = <<>> /\ produced[attempt] = 0 /\ activity[attempt] = "starting"
  BY <1>1 DEF LLM!Init
<1>3. Events = <<>>
  BY <1>1, <1>2 DEF Events
<1>4. LLMTypes
  <2>1. <<>> \in Seq(Event)
    OBVIOUS
  <2>2. log \in Seq(Event) /\ consumed \in 1..Len(log) + 1
    BY <1>1, <2>1 DEF LLM!Init
  <2>3. /\ produced \in [LLM!Attempts -> Nat] /\ buffer \in [LLM!Attempts -> Seq(Event)]
        /\ DOMAIN activity = LLM!Attempts /\ late \in BOOLEAN
        /\ \A a \in LLM!Attempts : produced[a] = 0 /\ buffer[a] = <<>>
        /\ \A a \in LLM!Attempts : a # 1 => activity[a] = "none"
    BY <2>1 DEF LLM!Init
  <2> QED
    BY <1>1, <2>2, <2>3 DEF LLMTypes
<1>5. HostInv /\ ConsumerInv
  BY <1>1, <1>2, <1>3 DEF LLM!Init, HostInv, ConsumerInv, WellFormed, Before, LLM!TextApart
<1> QED
  BY <1>4, <1>5 DEF LLMInv

\* What an attempt does is its own; only Flush touches the log.
LEMMA OwnStep ==
  ASSUME LLM!LLMAssumption, LLMTypes, NEW a \in LLM!Attempts, LLM!Activity(a)
  PROVE  /\ UNCHANGED <<attempt, consumed, screen, seen>> /\ activity[a] # "none"
         /\ DOMAIN activity' = LLM!Attempts
         /\ produced' \in [LLM!Attempts -> Nat] /\ buffer' \in [LLM!Attempts -> Seq(Event)]
         /\ \A b \in LLM!Attempts \ {a} :
              activity'[b] = activity[b] /\ produced'[b] = produced[b] /\ buffer'[b] = buffer[b]
         /\ \/ UNCHANGED <<log, late>>
            \/ log' = log \o buffer[a] /\ late' = (late \/ a # attempt)
<1> USE DEF LLMTypes, LLM!service, LLM!consumer
<1>1. CASE LLM!Begin(a)
  <2>1. LLM!RetryEvent(a) \in Seq(Event)
    <3>1. LLM!Retry(a) \in Event
      BY DEF LLM!Retry, Event, LLM!Attempts
    <3>2. <<LLM!Retry(a)>> \in Seq(Event) /\ <<>> \in Seq(Event)
      BY <3>1
    <3> QED
      BY <3>2 DEF LLM!RetryEvent
  <2> QED
    BY <1>1, <2>1 DEF LLM!Begin
<1>2. CASE LLM!PublishDelta(a)
  <2>1. LLM!Delta(a, produced[a] + 1) \in Event
    BY DEF LLM!Delta, Event, LLM!Attempts
  <2>2. Append(buffer[a], LLM!Delta(a, produced[a] + 1)) \in Seq(Event)
    BY <2>1
  <2> QED
    BY <1>2, <2>2 DEF LLM!PublishDelta
<1>3. CASE LLM!PublishComplete(a)
  <2>1. LLM!Complete(a) \in Event
    BY DEF LLM!Complete, Event, LLM!Attempts
  <2>2. Append(buffer[a], LLM!Complete(a)) \in Seq(Event)
    BY <2>1
  <2> QED
    BY <1>3, <2>2 DEF LLM!PublishComplete
<1>4. CASE LLM!Break(a)
  BY <1>4 DEF LLM!Break
<1>5. CASE LLM!Flush(a)
  BY <1>5 DEF LLM!Flush
<1>6. CASE LLM!LeaveBlock(a)
  BY <1>6 DEF LLM!LeaveBlock
<1>7. CASE LLM!Kill(a)
  BY <1>7 DEF LLM!Kill
<1> QED
  BY <1>1, <1>2, <1>3, <1>4, <1>5, <1>6, <1>7 DEF LLM!Activity

\* The log only goes on, and the attempts to come stay as they are.
LEMMA OwnTypes ==
  ASSUME LLM!LLMAssumption, LLMTypes, NEW a \in LLM!Attempts, LLM!Activity(a)
  PROVE  LLMTypes'
<1>1. log' \in Seq(Event) /\ consumed \in 1..Len(log') + 1 /\ late' \in BOOLEAN
  <2>1. buffer[a] \in Seq(Event) /\ log \in Seq(Event)
    BY DEF LLMTypes
  <2>2. log \o buffer[a] \in Seq(Event) /\ Len(log) \in Nat /\ Len(log) <= Len(log \o buffer[a])
        /\ Len(log \o buffer[a]) \in Nat
    BY <2>1, GoesOn
  <2>3. \/ log' = log /\ late' = late
        \/ log' = log \o buffer[a] /\ late' = (late \/ a # attempt)
    BY OwnStep
  <2>4. consumed \in 1..Len(log) + 1 /\ late \in BOOLEAN
    BY DEF LLMTypes
  <2>5. consumed \in 1..Len(log \o buffer[a]) + 1
    <3> DEFINE m == Len(log \o buffer[a])
    <3>1. Len(log) \in Nat /\ m \in Nat /\ Len(log) <= m
      BY <2>2
    <3> HIDE DEF m
    <3> QED
      BY <2>4, <3>1
  <2>6. CASE log' = log /\ late' = late
    BY <2>1, <2>4, <2>6
  <2>7. CASE log' = log \o buffer[a] /\ late' = (late \/ a # attempt)
    <3> DEFINE longer == log \o buffer[a]
    <3>1. longer \in Seq(Event) /\ consumed \in 1..Len(longer) + 1 /\ log' = longer
      BY <2>2, <2>5, <2>7
    <3> HIDE DEF longer
    <3> QED
      BY <2>4, <2>7, <3>1
  <2> QED
    BY <2>3, <2>6, <2>7
<1>2. ~(a > attempt)
  BY OwnStep DEF LLMTypes
<1> QED
  BY OwnStep, <1>1, <1>2 DEF LLMTypes, LLM!Attempts

\* An attempt that the service has given up does no harm as long as it does not flush.
LEMMA OthersInv ==
  ASSUME LLM!LLMAssumption, LLMTypes, HostInv, ConsumerInv, ~late',
         NEW a \in LLM!Attempts, LLM!Activity(a), a # attempt
  PROVE  HostInv' /\ ConsumerInv'
<1>1. /\ UNCHANGED <<attempt, log, consumed, screen, seen>>
      /\ activity'[attempt] = activity[attempt] /\ produced'[attempt] = produced[attempt]
      /\ buffer'[attempt] = buffer[attempt]
  BY OwnStep DEF LLMTypes
<1>2. Events' = Events
  BY <1>1 DEF Events
<1> QED
  BY <1>1, <1>2 DEF HostInv, ConsumerInv, LLM!TextApart

\* An attempt begins, with the event that announces it if it is not the first.
LEMMA BeginInv ==
  ASSUME LLM!LLMAssumption, LLMTypes, HostInv, ConsumerInv, LLM!Begin(attempt)
  PROVE  HostInv' /\ ConsumerInv'
<1>1. /\ activity[attempt] = "starting" /\ activity'[attempt] = "publishing"
      /\ buffer'[attempt] = LLM!RetryEvent(attempt)
      /\ UNCHANGED <<attempt, produced, log, consumed, screen, seen>>
  BY DEF LLM!Begin, LLM!consumer, LLM!service, LLMTypes
<1>2. buffer[attempt] = <<>> /\ produced[attempt] = 0 /\ Events = log /\ WellFormed(log)
  BY <1>1, PublishedLast DEF HostInv, Events, LLMTypes
<1>3. ConsumerInv'
  BY <1>1 DEF ConsumerInv, LLM!TextApart
<1>4. CASE attempt = 1
  <2>1. log = <<>> /\ buffer'[attempt'] = <<>> /\ Events' = <<>> /\ Len(<<>>) = 0
    BY <1>1, <1>4 DEF HostInv, LLM!RetryEvent, LLMTypes, Events
  <2>2. Before(<<>>, 1) = Text(attempt, 0)
    BY <1>4, OneDeltaMore DEF Before
  <2>3. HostInv'
    BY <1>1, <1>2, <2>1, <2>2 DEF HostInv, WellFormed
  <2> QED
    BY <1>3, <2>3
<1>5. CASE attempt # 1
  <2> DEFINE e == LLM!Retry(attempt)
  <2>1. attempt \in Nat /\ attempt > 1
    BY <1>5 DEF LLMTypes, LLM!Attempts, LLM!LLMAssumption
  <2>2. e \in Event /\ e.topic = "retry"
    BY <2>1 DEF LLM!Retry, Event
  <2>3. buffer'[attempt'] = <<e>>
    BY <1>1, <2>1 DEF LLM!RetryEvent
  <2>4. Events' = Append(log, e)
    <3> HIDE DEF e
    <3>1. log \in Seq(Event) /\ log' = log
      BY <1>1 DEF LLMTypes
    <3>2. log \o <<e>> = Append(log, e)
      BY <2>2, <3>1
    <3> QED
      BY <2>3, <3>1, <3>2 DEF Events
  <2>5. Continues(Before(log, Len(log) + 1), e) /\ Shows(e) = <<>>
    BY <2>2 DEF Continues, Shows
  <2>6. WellFormed(Events') /\ Before(Events', Len(Events') + 1) = <<>>
    BY <1>2, <2>2, <2>4, <2>5, WellFormedAppend DEF LLMTypes
  <2>7. Text(attempt, 0) = <<>>
    BY <2>1, OneDeltaMore
  <2>8. HostInv'
    BY <1>1, <1>2, <2>6, <2>7 DEF HostInv
  <2> QED
    BY <1>3, <2>8
<1> QED
  BY <1>4, <1>5

\* The attempt publishes a delta, or the event that completes the text.
LEMMA PublishInv ==
  ASSUME LLM!LLMAssumption, LLMTypes, HostInv, ConsumerInv,
         LLM!PublishDelta(attempt) \/ LLM!PublishComplete(attempt)
  PROVE  HostInv' /\ ConsumerInv'
<1> DEFINE n == produced[attempt]
           e == IF n < Deltas THEN LLM!Delta(attempt, n + 1) ELSE LLM!Complete(attempt)
<1>1. attempt \in Nat /\ n \in Nat /\ Deltas \in Nat /\ buffer[attempt] \in Seq(Event)
  BY DEF LLMTypes, LLM!Attempts, LLM!LLMAssumption
<1>2. /\ activity[attempt] = "publishing" /\ buffer'[attempt] = Append(buffer[attempt], e)
      /\ UNCHANGED <<attempt, log, consumed, screen, seen>>
      /\ \/ activity'[attempt] = "publishing" /\ produced'[attempt] = n + 1 /\ n < Deltas
         \/ activity'[attempt] = "leaving" /\ produced'[attempt] = n /\ n = Deltas
  BY <1>1 DEF LLM!PublishDelta, LLM!PublishComplete, LLM!consumer, LLM!service, LLMTypes
<1>3. /\ e \in Event
      /\ n < Deltas => /\ e.topic = "delta" /\ e.attempt = attempt /\ e.n = n + 1
                       /\ e = LLM!Delta(attempt, n + 1)
      /\ ~(n < Deltas) => e.topic = "complete" /\ e.attempt = attempt
  BY <1>1 DEF LLM!Delta, LLM!Complete, Event
<1> HIDE DEF e
<1>4. Events \in Seq(Event) /\ WellFormed(Events) /\ Before(Events, Len(Events) + 1) = Text(attempt, n)
  BY <1>1, <1>2, GoesOn DEF HostInv, LLMTypes, Events
<1>5. Continues(Text(attempt, n), e) /\ Shows(e) = Text(attempt, produced'[attempt])
  <2>1. CASE n < Deltas
    <3>1. Text(attempt, n + 1) = Append(Text(attempt, n), e)
      BY <1>1, <1>3, <2>1, OneDeltaMore
    <3>2. Shows(e) = Text(attempt, n + 1)
      BY <1>3, <2>1 DEF Shows
    <3>3. produced'[attempt] = n + 1
      BY <1>1, <1>2, <2>1
    <3> QED
      BY <1>3, <2>1, <3>1, <3>2, <3>3 DEF Continues
  <2>2. CASE ~(n < Deltas)
    <3>1. n = Deltas /\ produced'[attempt] = n
      BY <1>2, <2>2
    <3> QED
      BY <1>3, <2>2, <3>1 DEF Continues, Shows
  <2> QED
    BY <2>1, <2>2
<1>6. Events' = Append(Events, e)
  <2>1. log \in Seq(Event) /\ log' = log /\ attempt' = attempt
    BY <1>2 DEF LLMTypes
  <2>2. log \o Append(buffer[attempt], e) = Append(log \o buffer[attempt], e)
    BY <1>1, <1>3, <2>1, PublishedLast
  <2> QED
    BY <1>2, <2>1, <2>2 DEF Events
<1>7. WellFormed(Events') /\ Before(Events', Len(Events') + 1) = Text(attempt, produced'[attempt])
  BY <1>3, <1>4, <1>5, <1>6, WellFormedAppend
<1>8. HostInv'
  BY <1>2, <1>7 DEF HostInv
<1>9. ConsumerInv'
  BY <1>2 DEF ConsumerInv, LLM!TextApart
<1> QED
  BY <1>8, <1>9

\* The client flushes: the log goes on, and what has been read of it stays.
LEMMA FlushInv ==
  ASSUME LLM!LLMAssumption, LLMTypes, HostInv, ConsumerInv, LLM!Flush(attempt)
  PROVE  HostInv' /\ ConsumerInv'
<1>1. /\ log' = log \o buffer[attempt] /\ buffer'[attempt] = <<>> /\ buffer[attempt] \in Seq(Event)
      /\ UNCHANGED <<attempt, produced, activity, consumed, screen, seen>>
      /\ activity[attempt] \in {"publishing", "leaving"}
  BY DEF LLM!Flush, LLM!consumer, LLM!service, LLMTypes
<1>2. Events' = Events
  <2>1. log \in Seq(Event) /\ log \o buffer[attempt] \in Seq(Event)
    BY <1>1, GoesOn DEF LLMTypes
  <2>2. (log \o buffer[attempt]) \o <<>> = log \o buffer[attempt]
    BY <1>1, <2>1, PublishedLast
  <2> QED
    BY <1>1, <2>2 DEF Events
<1>3. Before(log', consumed) = Before(log, consumed)
  BY <1>1, GoesOn DEF LLMTypes
<1>4. HostInv'
  BY <1>1, <1>2 DEF HostInv
<1>5. ConsumerInv'
  BY <1>1, <1>3 DEF ConsumerInv, LLM!TextApart
<1> QED
  BY <1>4, <1>5

\* The stream breaks off, or the attempt is over.
LEMMA LeaveInv ==
  ASSUME LLM!LLMAssumption, LLMTypes, HostInv, ConsumerInv,
         LLM!Break(attempt) \/ LLM!LeaveBlock(attempt)
  PROVE  HostInv' /\ ConsumerInv'
<1>1. /\ UNCHANGED <<attempt, produced, buffer, log, consumed, screen, seen>>
      /\ activity'[attempt] \in {"leaving", "reporting"}
  BY DEF LLM!Break, LLM!LeaveBlock, LLM!consumer, LLM!service, LLMTypes
<1> QED
  BY <1>1 DEF HostInv, ConsumerInv, Events, LLM!TextApart

\* The worker is killed with what its client has not flushed.
LEMMA KillInv ==
  ASSUME LLM!LLMAssumption, LLMTypes, HostInv, ConsumerInv, LLM!Kill(attempt)
  PROVE  HostInv' /\ ConsumerInv'
<1>1. /\ activity'[attempt] = "lost" /\ buffer'[attempt] = <<>> /\ buffer[attempt] \in Seq(Event)
      /\ UNCHANGED <<attempt, produced, log, consumed, screen, seen>>
  BY DEF LLM!Kill, LLM!consumer, LLM!service, LLMTypes
<1>2. Events' = log
  BY <1>1, PublishedLast DEF Events, LLMTypes
<1>3. WellFormed(log)
  BY <1>1, WellFormedPrefix DEF HostInv, Events, LLMTypes
<1>4. HostInv'
  BY <1>1, <1>2, <1>3 DEF HostInv
<1>5. ConsumerInv'
  BY <1>1 DEF ConsumerInv, LLM!TextApart
<1> QED
  BY <1>4, <1>5

\* Every step of an attempt preserves the inductive invariant.
LEMMA ActivityInv ==
  ASSUME LLM!LLMAssumption, LLMInv, NEW a \in LLM!Attempts, LLM!Activity(a)
  PROVE  LLMInv'
<1>1. LLMTypes'
  BY OwnTypes DEF LLMInv
<1>2. ASSUME ~late' PROVE HostInv' /\ ConsumerInv'
  <2>1. LLMTypes /\ HostInv /\ ConsumerInv
    BY <1>2, OwnStep DEF LLMInv
  <2>2. CASE a # attempt
    BY <1>2, <2>1, <2>2, OthersInv
  <2>3. CASE a = attempt
    BY <2>1, <2>3, BeginInv, PublishInv, FlushInv, LeaveInv, KillInv DEF LLM!Activity
  <2> QED
    BY <2>2, <2>3
<1> QED
  BY <1>1, <1>2 DEF LLMInv

\* The service fails the attempt, or gives it up: the next one has nothing to flush.
LEMMA NextAttemptInv ==
  ASSUME LLM!LLMAssumption, LLMInv, LLM!NextAttempt
  PROVE  LLMInv'
<1>1. UNCHANGED <<produced, buffer, log, late, consumed, screen, seen>> /\ LLMTypes
  BY DEF LLM!NextAttempt, LLM!consumer, LLMInv
<1>2. CASE UNCHANGED <<attempt, activity>>
  BY <1>1, <1>2 DEF LLMInv, LLMTypes, HostInv, ConsumerInv, Events, LLM!TextApart
<1>3. CASE attempt # MaxAttempts /\ attempt' = attempt + 1
           /\ activity' = [activity EXCEPT ![attempt + 1] = "starting"]
  <2>1. attempt' \in LLM!Attempts /\ attempt' > attempt /\ attempt' # 1
    BY <1>1, <1>3 DEF LLMTypes, LLM!Attempts, LLM!LLMAssumption
  <2>2. produced'[attempt'] = 0 /\ buffer'[attempt'] = <<>> /\ activity'[attempt'] = "starting"
    BY <1>1, <1>3, <2>1 DEF LLMTypes
  <2>3. LLMTypes'
    <3>1. DOMAIN activity' = LLM!Attempts /\ \A a \in LLM!Attempts : a > attempt' => activity'[a] = activity[a] /\ a > attempt
      BY <1>1, <1>3, <2>1 DEF LLMTypes, LLM!Attempts, LLM!LLMAssumption
    <3> QED
      BY <1>1, <2>1, <3>1 DEF LLMTypes
  <2>4. ASSUME ~late' PROVE HostInv' /\ ConsumerInv'
    <3>1. HostInv /\ ConsumerInv
      BY <1>1, <2>4 DEF LLMInv
    <3>2. buffer[attempt] \in Seq(Event)
      BY <1>1 DEF LLMTypes
    <3>3. WellFormed(log)
      BY <1>1, <3>1, <3>2, WellFormedPrefix DEF HostInv, Events, LLMTypes
    <3>4. Events' = log
      BY <1>1, <2>2, PublishedLast DEF Events, LLMTypes
    <3> QED
      BY <1>1, <2>1, <2>2, <3>1, <3>3, <3>4 DEF HostInv, ConsumerInv, LLM!TextApart
  <2> QED
    BY <2>3, <2>4 DEF LLMInv
<1> QED
  BY <1>2, <1>3 DEF LLM!NextAttempt

\* The consumer reads one event.
LEMMA ConsumeInv ==
  ASSUME LLM!LLMAssumption, LLMInv, LLM!Consume
  PROVE  LLMInv'
<1> DEFINE item == log[consumed]
<1>1. /\ UNCHANGED <<attempt, produced, activity, buffer, log, late>> /\ consumed' = consumed + 1
      /\ LLMTypes
  BY DEF LLM!Consume, LLM!service, LLM!worker, LLMInv
<1>2. consumed \in 1..Len(log) /\ Len(log) \in Nat
  BY <1>1 DEF LLM!Consume, LLMTypes
<1>3. item \in Event /\ item.topic \in {"delta", "complete", "retry"}
  <2>1. item \in Event
    BY <1>1, <1>2 DEF LLMTypes
  <2> HIDE DEF item
  <2> QED
    BY <2>1 DEF Event
<1>4. /\ item.topic = "retry" => screen' = <<>>
      /\ item.topic = "delta" => screen' = Append(screen, item)
      /\ item.topic = "complete" => screen' = screen
      /\ seen' = IF item.topic = "complete" THEN {item.attempt} ELSE {}
  BY DEF LLM!Consume
<1>5. LLMTypes'
  BY <1>1, <1>2 DEF LLMTypes
<1>6. ASSUME ~late' PROVE HostInv' /\ ConsumerInv'
  <2>1. HostInv /\ ConsumerInv /\ Events' = Events
    BY <1>1, <1>6 DEF LLMInv, Events
  <2>2. buffer[attempt] \in Seq(Event)
    BY <1>1 DEF LLMTypes
  <2>3. WellFormed(log)
    BY <1>1, <2>1, <2>2, WellFormedPrefix DEF HostInv, Events, LLMTypes
  <2>4. Continues(screen, item)
    BY <1>2, <2>1, <2>3 DEF WellFormed, ConsumerInv
  <2>5. Before(log, consumed + 1) = Shows(item)
    BY <1>2 DEF Before
  <2> HIDE DEF item
  <2>6. screen' = Shows(item)
    BY <1>3, <1>4, <2>4 DEF Continues, Shows
  <2>7. LLM!TextApart'
    <3> SUFFICES ASSUME NEW a \in seen' PROVE screen' = LLM!FullText(a)
      BY DEF LLM!TextApart
    <3>1. item.topic = "complete" /\ a = item.attempt
      BY <1>4
    <3> QED
      BY <2>6, <3>1 DEF Shows, Text, LLM!FullText
  <2>8. HostInv'
    BY <1>1, <2>1 DEF HostInv
  <2> QED
    BY <1>1, <2>5, <2>6, <2>7, <2>8 DEF ConsumerInv
<1> QED
  BY <1>5, <1>6 DEF LLMInv

\* Every step preserves the inductive invariant.
LEMMA LLMStep ==
  LLM!LLMAssumption /\ LLMInv /\ [LLM!Next]_LLM!vars => LLMInv'
<1> SUFFICES ASSUME LLM!LLMAssumption, LLMInv, [LLM!Next]_LLM!vars PROVE LLMInv'
  OBVIOUS
<1>1. CASE \E a \in LLM!Attempts : LLM!Activity(a)
  BY <1>1, ActivityInv
<1>2. CASE LLM!Return \/ LLM!Close \/ LLM!Exhausted \/ UNCHANGED LLM!vars
  <2>1. UNCHANGED <<attempt, produced, activity, buffer, log, late, consumed, screen, seen>>
    BY <1>2 DEF LLM!Return, LLM!Close, LLM!Exhausted, LLM!vars, LLM!service, LLM!worker, LLM!consumer
  <2> QED
    BY <2>1 DEF LLMInv, LLMTypes, HostInv, ConsumerInv, Events, LLM!TextApart
<1>3. CASE LLM!FailAttempt \/ LLM!TimeOut
  BY <1>3, NextAttemptInv DEF LLM!FailAttempt, LLM!TimeOut
<1> QED
  BY <1>1, <1>2, <1>3, ConsumeInv
     DEF LLM!Next, LLM!Service, LLM!Consumer, LLM!Finished
-----------------------------------------------------------------------------
\* LLMStream: the inductive invariant holds in every reachable state.
THEOREM LLMInvariant ==
  ASSUME LLM!LLMAssumption PROVE LLM!Spec => []LLMInv
  BY LLMInit, LLMStep, PTL DEF LLM!Spec

\* What run_llm.py shows when it has read a "complete" event is the full text of the attempt
\* that sent it, whichever attempts were killed or broke off, with whatever they had flushed,
\* unless one flushes that the service has given up.
LEMMA LLMAlone ==
  ASSUME LLM!LLMAssumption PROVE LLM!Spec => []LLM!ShownOnce
<1>1. LLMInv => LLM!ShownOnce
  BY DEF LLMInv, ConsumerInv, LLM!ShownOnce
<1> QED
  BY <1>1, LLMInvariant, PTL
-----------------------------------------------------------------------------
(* Services: a step of another sample leaves these alone.                  *)

LEMMA StreamsRun == Spec => Stream!Spec
<1>1. Init => Stream!Init
  BY DEF Init
<1>2. [Next]_vars => [Stream!Next]_Stream!vars
  <2>1. UNCHANGED streams => UNCHANGED Stream!vars
    BY DEF streams, Stream!vars, Stream!stream, Stream!subscriber
  <2> QED
    BY <2>1 DEF Next, Only, vars
<1> QED
  BY <1>1, <1>2, PTL DEF Spec, Stream!Spec

LEMMA LLMRuns == Spec => LLM!Spec
<1>1. Init => LLM!Init
  BY DEF Init
<1>2. [Next]_vars => [LLM!Next]_LLM!vars
  <2>1. UNCHANGED llm => UNCHANGED LLM!vars
    BY DEF llm, LLM!vars, LLM!service, LLM!worker, LLM!consumer
  <2> QED
    BY <2>1 DEF Next, Only, vars
<1> QED
  BY <1>1, <1>2, PTL DEF Spec, LLM!Spec

\* TickerWorkflow and the subscribers: the log is truncated to the last events and no
\* further, the slow subscriber's gaps are those there were, and the one that resumes
\* neither misses an event nor shows one twice.
THEOREM StreamAccounted == Spec => []EventsAccounted
  BY ServicesAssumption, StreamsRun, StreamAlone, PTL DEF ServicesAssumption, EventsAccounted

\* LLMWorkflow: what is on the screen is the answer of one attempt, however many of them
\* failed half-way or were given up, unless one that was given up flushes afterwards.
THEOREM LLMShownOnce == Spec => []ShownOnce
  BY ServicesAssumption, LLMRuns, LLMAlone, PTL DEF ServicesAssumption, ShownOnce
=============================================================================
