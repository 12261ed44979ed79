------------------------- MODULE ApecsMemoryProofs --------------------------
(***************************************************************************)
(* What becomes of a change of an instance that is in memory.              *)
(***************************************************************************)
EXTENDS ApecsStoreProofs

-----------------------------------------------------------------------------
(* Sequences *)

InSeq(x, s) == \E i \in 1..Len(s) : s[i] = x

LEMMA InConcat ==
    ASSUME NEW S, NEW s \in Seq(S), NEW t \in Seq(S), NEW x
    PROVE  InSeq(x, s \o t) <=> InSeq(x, s) \/ InSeq(x, t)
<1> DEFINE u == s \o t
           a == Len(s)
           b == Len(t)
<1>1. /\ a \in Nat /\ b \in Nat /\ Len(u) = a + b
      /\ \A i \in 1..(a + b) : u[i] = IF i <= a THEN s[i] ELSE t[i - a]
  BY LenProperties, ConcatProperties
<1> HIDE DEF u, a, b
<1>2. ASSUME NEW i \in 1..(a + b), u[i] = x PROVE (\E j \in 1..a : s[j] = x) \/ \E j \in 1..b : t[j] = x
  <2>1. CASE i <= a
    BY <1>1, <1>2, <2>1
  <2>2. CASE i > a
    <3>1. i - a \in 1..b /\ u[i] = t[i - a]
      BY <1>1, <2>2
    <3> QED BY <1>2, <3>1
  <2> QED BY <1>1, <2>1, <2>2
<1>3. ASSUME NEW j \in 1..a PROVE j \in 1..(a + b) /\ u[j] = s[j]
  BY <1>1
<1>4. ASSUME NEW j \in 1..b PROVE a + j \in 1..(a + b) /\ u[a + j] = t[j]
  <2>1. a + j \in 1..(a + b) /\ ~(a + j <= a) /\ (a + j) - a = j
    BY <1>1
  <2> QED BY <1>1, <2>1
<1>5. (\E i \in 1..Len(u) : u[i] = x) <=> (\E j \in 1..a : s[j] = x) \/ \E j \in 1..b : t[j] = x
  <2>1. ASSUME NEW j \in 1..a, s[j] = x PROVE \E i \in 1..(a + b) : u[i] = x
    BY <1>3, <2>1
  <2>2. ASSUME NEW j \in 1..b, t[j] = x PROVE \E i \in 1..(a + b) : u[i] = x
    BY <1>4, <2>2
  <2>3. Len(u) = a + b
    BY <1>1
  <2> QED BY ONLY <1>2, <2>1, <2>2, <2>3
<1> QED
  BY <1>5 DEF InSeq, u, a, b

LEMMA InAppend ==
    ASSUME NEW S, NEW s \in Seq(S), NEW e \in S, NEW x
    PROVE  InSeq(x, Append(s, e)) <=> InSeq(x, s) \/ x = e
<1> DEFINE u == Append(s, e)
           a == Len(s)
<1>1. /\ a \in Nat /\ Len(u) = a + 1
      /\ \A i \in 1..a : u[i] = s[i]
      /\ u[a + 1] = e
  BY LenProperties, AppendProperties
<1> HIDE DEF u, a
<1>2. \A i \in 1..(a + 1) : i \in 1..a \/ i = a + 1
  BY <1>1
<1>3. 1..a \subseteq 1..(a + 1) /\ a + 1 \in 1..(a + 1)
  BY <1>1
<1> QED
  BY <1>1, <1>2, <1>3 DEF InSeq, u, a

LEMMA InTail ==
    ASSUME NEW S, NEW s \in Seq(S), s # <<>>, NEW x
    PROVE  /\ InSeq(x, Tail(s)) => InSeq(x, s)
           /\ InSeq(x, s) => InSeq(x, Tail(s)) \/ x = Head(s)
           /\ InSeq(Head(s), s)
<1> DEFINE u == Tail(s)
           a == Len(s)
<1>1. /\ a \in Nat /\ a # 0 /\ Head(s) = s[1] /\ Len(u) = a - 1
      /\ \A i \in 1..(a - 1) : u[i] = s[i + 1]
  BY EmptySeq, LenProperties, HeadTailProperties
<1> HIDE DEF u, a
<1>2. ASSUME NEW i \in 1..(a - 1) PROVE i + 1 \in 1..a
  BY <1>1
<1>3. ASSUME NEW i \in 1..a, i # 1 PROVE i - 1 \in 1..(a - 1) /\ u[i - 1] = s[i]
  <2>1. i - 1 \in 1..(a - 1) /\ (i - 1) + 1 = i
    BY <1>1, <1>3
  <2> QED BY <1>1, <2>1
<1>4. 1 \in 1..a
  BY <1>1
<1>5. \A y : InSeq(y, s) <=> \E i \in 1..a : s[i] = y
  BY DEF InSeq, a
<1>6. \A y : InSeq(y, u) <=> \E i \in 1..(a - 1) : u[i] = y
  BY <1>1 DEF InSeq
<1>7. InSeq(x, u) => InSeq(x, s)
  <2>1. ASSUME NEW i \in 1..(a - 1), u[i] = x PROVE InSeq(x, s)
    BY <1>1, <1>2, <1>5, <2>1
  <2> QED BY <1>6, <2>1
<1>8. InSeq(x, s) => InSeq(x, u) \/ x = Head(s)
  <2>1. ASSUME NEW i \in 1..a, s[i] = x, i # 1 PROVE InSeq(x, u)
    BY <1>3, <1>6, <2>1
  <2> QED BY <1>1, <1>5, <2>1
<1>9. InSeq(Head(s), s)
  BY <1>1, <1>4, <1>5
<1> QED
  BY <1>7, <1>8, <1>9 DEF u

LEMMA InOne ==
    ASSUME NEW x, NEW y
    PROVE  InSeq(x, <<y>>) <=> x = y
BY DEF InSeq

LEMMA InNone ==
    ASSUME NEW x
    PROVE  ~InSeq(x, <<>>)
BY DEF InSeq

\* A list of lists of one step each is flattened to the list of those steps.
LEMMA FlattenOnes ==
    ASSUME NEW S, NEW r \in Seq(S), r # <<>>, NEW s, s = [i \in 1..Len(r) |-> <<r[i]>>]
    PROVE  FlattenSeq(s) = r
<1> DEFINE k == Len(r)
           Solves(f) == f = [i \in 1..k |-> IF i = 1 THEN s[i] ELSE f[i - 1] \o s[i]]
           f == CHOOSE f : Solves(f)
           Prefix(n) == /\ f[n] \in Seq(S) /\ Len(f[n]) = n
                        /\ \A i \in 1..n : f[n][i] = r[i]
           T == {n \in 1..k : ~Prefix(n)}
<1>1. k \in Nat \ {0}
  BY EmptySeq, LenProperties
<1>2. FlattenSeq(s) = f[k]
  <2>1. Len(s) = k /\ s # <<>>
    BY <1>1
  <2> QED BY <1>1, <2>1 DEF FlattenSeq
<1>3. Solves(f)
  <2>1. \E g : Solves(g)
    <3>1. k \in Nat
      BY <1>1
    <3> HIDE DEF k
    <3> QED BY ONLY <3>1, FlattenExists
  <2> QED BY <2>1, Zenon
<1>4. \A i \in 1..k : s[i] = <<r[i]>> /\ r[i] \in S
  BY ElementOfSeq
<1> HIDE DEF f
<1>5. T = {}
  <2> SUFFICES ASSUME T # {} PROVE FALSE
    OBVIOUS
  <2>1. PICK n \in T : \A m \in T : n <= m
    <3> HIDE DEF T
    <3>1. T \in SUBSET Nat
      BY <1>1 DEF T
    <3> QED BY <3>1, Smallest
  <2>0. n \in 1..k /\ ~Prefix(n)
    OBVIOUS
  <2>2. CASE n = 1
    <3>1. f[1] = <<r[1]>> /\ r[1] \in S
      BY <1>3, <1>1, <1>4
    <3>2. Prefix(1)
      BY <3>1
    <3> QED BY <2>0, <2>2, <3>2
  <2>3. CASE n # 1
    <3>1. n - 1 \in 1..k /\ n - 1 \notin T
      <4> HIDE DEF T, Solves, k
      <4>2. n - 1 \in 1..k /\ ~(n <= n - 1)
        BY ONLY <1>1, <2>3, <2>0
      <4> QED BY <2>1, <4>2
    <3> DEFINE g == f[n - 1]
    <3>2. f[n] = g \o <<r[n]>> /\ r[n] \in S
      BY <1>3, <1>4, <2>3, <2>0
    <3>3. g \in Seq(S) /\ Len(g) = n - 1 /\ \A i \in 1..(n - 1) : g[i] = r[i]
      BY <3>1
    <3> DEFINE e == r[n]
    <3>4. f[n] = Append(g, e)
      BY <3>2, <3>3, AppendIsConcat
    <3> HIDE DEF g, T, Solves, k, e
    <3>5. /\ Append(g, e) \in Seq(S) /\ Len(Append(g, e)) = Len(g) + 1
          /\ \A i \in 1..Len(g) : Append(g, e)[i] = g[i]
          /\ Append(g, e)[Len(g) + 1] = e
      BY <3>2, <3>3, AppendProperties DEF e
    <3>6. n \in Int /\ Len(g) + 1 = n
      BY ONLY <1>1, <2>0, <3>3
    <3>7. ASSUME NEW i \in 1..n PROVE f[n][i] = r[i]
      <4>1. i \in 1..(n - 1) \/ i = n
        BY ONLY <3>6, i \in 1..n
      <4> QED BY <4>1, <3>3, <3>4, <3>5, <3>6 DEF e
    <3>8. Prefix(n)
      BY <3>4, <3>5, <3>6, <3>7
    <3> QED BY <2>0, <3>8
  <2> QED BY <2>2, <2>3
<1>6. Prefix(k)
  <2>1. k \in 1..k
    BY <1>1
  <2> HIDE DEF k, Solves, Prefix
  <2> QED BY <1>5, <2>1
<1>7. f[k] = r
  <2> DEFINE g == f[k]
  <2>1. g \in Seq(S) /\ r \in Seq(S) /\ Len(g) = Len(r) /\ \A i \in 1..Len(g) : g[i] = r[i]
    BY <1>6
  <2> HIDE DEF g
  <2> QED BY ONLY <2>1, SeqEqual DEF g
<1> QED
  BY <1>2, <1>7, Zenon

-----------------------------------------------------------------------------
(* The messages that are waiting *)

\* A message waits on a topic to be read, or in a producer to be delivered; a
\* report waits in a producer to be delivered.
Unread(x) == \E c \in Consumers : \E i \in (pos[c] + 1)..Len(log[c]) : log[c][i] = x
Queued(x) == \E b, d \in Consumers : InSeq(x, out[b][d])
Waits(x) == Unread(x) \/ Queued(x)
Told(r) == \E b \in Consumers : InSeq(r, out[b][Reports])

LEMMA WaitingOK ==
    ASSUME Inv, NEW m, Waits(m)
    PROVE  TxnOK(m) /\ m \in Messages
<1>1. ASSUME NEW d \in Consumers, m \in Good(d) PROVE TxnOK(m) /\ m \in Messages
  BY <1>1 DEF Good
<1>2. CASE Unread(m)
  <2>0. PICK c \in Consumers : \E i \in (pos[c] + 1)..Len(log[c]) : log[c][i] = m
    BY <1>2 DEF Unread
  <2>1. PICK i \in (pos[c] + 1)..Len(log[c]) : log[c][i] = m
    BY <2>0
  <2>2. log[c] \in Seq(Good(c)) /\ Len(log[c]) \in Nat /\ pos[c] \in Nat
    BY LogTypes
  <2>3. i \in 1..Len(log[c])
    BY <2>2
  <2> QED BY <1>1, <2>1, <2>2, <2>3, ElementOfSeq
<1>3. CASE Queued(m)
  <2>1. PICK b \in Consumers, d \in Consumers : InSeq(m, out[b][d])
    BY <1>3 DEF Queued
  <2>2. out[b][d] \in Seq(Good(d))
    BY QueueTypes
  <2> QED BY <1>1, <2>1, <2>2, ElementOfSeq DEF InSeq
<1> QED
  BY <1>2, <1>3 DEF Waits

LEMMA ToldOK ==
    ASSUME Inv, NEW r, Told(r)
    PROVE  r \in ReportMsgs /\ r.id \in Txns /\ r.code \in Codes
<1>1. PICK b \in Consumers : InSeq(r, out[b][Reports])
  BY DEF Told
<1>2. out[b][Reports] \in Seq(ReportMsgs)
  BY QueueTypes
<1>3. r \in ReportMsgs
  BY <1>1, <1>2, ElementOfSeq DEF InSeq
<1> QED
  BY <1>3 DEF ReportMsgs

LEMMA ReadWaits ==
    ASSUME Inv, NEW c \in Consumers, Ready(c)
    PROVE  Waits(Msg(c))
<1>1. pos[c] + 1 \in (pos[c] + 1)..Len(log[c])
  BY LogTypes DEF Ready
<1> QED
  BY <1>1 DEF Waits, Unread, Msg

\* A consumer passes the message it has read, and its process produces new.
Made(new, x) == \E d \in Consumers : InSeq(x, new[d])

Moved(c, new, x) ==
    /\ Waits(x)' => Waits(x) \/ Made(new, x)
    /\ Waits(x) => Waits(x)' \/ x = Msg(c)
    /\ Made(new, x) => Waits(x)'
    /\ Told(x)' <=> Told(x) \/ InSeq(x, new[Reports])

LEMMA IterationMoves ==
    ASSUME Inv, NEW c \in Consumers, Ready(c), StoreOffsets(c), log' = log,
           NEW new, Queues(c, new),
           \A d \in Destinations : new[d] \in Seq(Messages \cup ReportMsgs), NEW x
    PROVE  Moved(c, new, x)
<1>1. ASSUME NEW b \in Consumers, NEW d \in Destinations
      PROVE  InSeq(x, out'[b][d]) <=> InSeq(x, out[b][d]) \/ (b = c /\ InSeq(x, new[d]))
  <2>1. out'[b][d] = IF b = c THEN out[b][d] \o new[d] ELSE out[b][d]
    BY DEF Queues
  <2>2. out[b][d] \in Seq(Messages \cup ReportMsgs)
    BY OutFields
  <2> DEFINE s == out[b][d]
             t == new[d]
             S == Messages \cup ReportMsgs
  <2>3. s \in Seq(S) /\ t \in Seq(S)
    BY <2>2
  <2> HIDE DEF s, t, S
  <2>4. InSeq(x, s \o t) <=> InSeq(x, s) \/ InSeq(x, t)
    BY <2>3, InConcat
  <2>5. CASE b = c
    <3>1. out'[b][d] = s \o t
      BY <2>1, <2>5 DEF s, t
    <3> QED BY <2>4, <2>5, <3>1 DEF s, t
  <2>6. CASE b # c
    BY <2>1, <2>6
  <2> QED BY <2>5, <2>6
<1>2. Reports \in Destinations /\ Consumers \subseteq Destinations
  BY ReportsApart DEF Destinations
<1>3. Queued(x)' <=> Queued(x) \/ Made(new, x)
  BY <1>1, <1>2 DEF Queued, Made
<1>4. Told(x)' <=> Told(x) \/ InSeq(x, new[Reports])
  BY <1>1, <1>2 DEF Told
<1>5. \A b \in Consumers : pos'[b] = IF b = c THEN pos[b] + 1 ELSE pos[b]
  BY DEF StoreOffsets, Inv, PositionsOK
<1>6. Unread(x)' => Unread(x)
  <2> SUFFICES ASSUME NEW b \in Consumers, NEW i \in (pos'[b] + 1)..Len(log[b]), log[b][i] = x
               PROVE  Unread(x)
    BY DEF Unread
  <2>1. i \in (pos[b] + 1)..Len(log[b])
    BY <1>5, LogTypes
  <2> QED BY <2>1 DEF Unread
<1>7. Unread(x) => Unread(x)' \/ x = Msg(c)
  <2> SUFFICES ASSUME NEW b \in Consumers, NEW i \in (pos[b] + 1)..Len(log[b]), log[b][i] = x
               PROVE  Unread(x)' \/ x = Msg(c)
    BY DEF Unread
  <2>1. CASE b = c /\ i = pos[c] + 1
    BY <2>1 DEF Msg
  <2>2. CASE ~(b = c /\ i = pos[c] + 1)
    <3>1. i \in (pos'[b] + 1)..Len(log'[b])
      BY <1>5, <2>2, LogTypes
    <3> QED BY <3>1 DEF Unread
  <2> QED BY <2>1, <2>2
<1> QED
  BY <1>3, <1>4, <1>6, <1>7 DEF Moved, Waits

\* A message is put on a topic.
LEMMA TopicGrows ==
    ASSUME Inv, NEW d \in Consumers, NEW msg \in Messages, pos' = pos,
           log' = [log EXCEPT ![d] = Append(@, msg)], NEW x
    PROVE  Unread(x)' <=> Unread(x) \/ x = msg
<1> DEFINE n == Len(log[d])
<1>5. /\ \A b \in Consumers : b # d => log'[b] = log[b]
      /\ Len(log'[d]) = n + 1 /\ n \in Nat /\ pos[d] \in Nat /\ pos[d] <= n
      /\ \A i \in 1..n : log'[d][i] = log[d][i]
      /\ log'[d][n + 1] = msg
  <2>1. log[d] \in Seq(Messages) /\ n \in Nat /\ pos[d] \in Nat /\ pos[d] <= n
    BY LogTypes
  <2>2. log \in [Consumers -> Seq(Messages)]
    BY DEF Inv, MessagesOK
  <2>3. log'[d] = Append(log[d], msg) /\ \A b \in Consumers : b # d => log'[b] = log[b]
    BY <2>2
  <2> QED BY <2>1, <2>3, AppendProperties
<1> HIDE DEF n
<1>7. Unread(x) => Unread(x)'
  <2> SUFFICES ASSUME NEW b \in Consumers, NEW i \in (pos[b] + 1)..Len(log[b]), log[b][i] = x
               PROVE  Unread(x)'
    BY DEF Unread
  <2>1. i \in (pos'[b] + 1)..Len(log'[b]) /\ log'[b][i] = x
    <3>1. CASE b # d
      BY <1>5, <3>1
    <3>2. CASE b = d
      <4>1. i \in 1..n /\ i \in (pos[d] + 1)..(n + 1)
        BY <1>5, <3>2 DEF n
      <4> QED BY <1>5, <3>2, <4>1
    <3> QED BY <3>1, <3>2
  <2> QED BY <2>1 DEF Unread
<1>8. x = msg => Unread(x)'
  <2>1. n + 1 \in (pos'[d] + 1)..Len(log'[d])
    BY <1>5
  <2> QED BY <1>5, <2>1 DEF Unread
<1>9. Unread(x)' => Unread(x) \/ x = msg
  <2> SUFFICES ASSUME NEW b \in Consumers, NEW i \in (pos'[b] + 1)..Len(log'[b]), log'[b][i] = x,
                      x # msg
               PROVE  Unread(x)
    BY DEF Unread
  <2>1. i \in (pos[b] + 1)..Len(log[b]) /\ log[b][i] = x
    <3>1. CASE b # d
      BY <1>5, <3>1
    <3>2. CASE b = d
      <4>1. i # n + 1
        BY <1>5, <3>2
      <4>2. i \in 1..n /\ i \in (pos[d] + 1)..n
        BY <1>5, <3>2, <4>1
      <4> QED BY <1>5, <3>2, <4>2 DEF n
    <3> QED BY <3>1, <3>2
  <2> QED BY <2>1 DEF Unread
<1> QED
  BY <1>7, <1>8, <1>9

\* The head of a producer's queue is taken.
LEMMA QueueShrinks ==
    ASSUME Inv, NEW c \in Consumers, NEW d \in Destinations, out[c][d] # <<>>,
           out' = [out EXCEPT ![c][d] = Tail(@)], NEW msg, msg = Head(out[c][d]), NEW x
    PROVE  /\ Queued(x)' => Queued(x)
           /\ Told(x)' => Told(x)
           /\ d # Reports => /\ Told(x) => Told(x)'
                             /\ Queued(x) => Queued(x)' \/ x = msg
                             /\ Queued(msg) /\ msg \in Messages
           /\ d = Reports => /\ Queued(x) => Queued(x)'
                             /\ Told(x) => Told(x)' \/ x = msg
                             /\ Told(msg)
<1>1. /\ \A b \in Consumers, e \in Destinations :
            out'[b][e] = IF b = c /\ e = d THEN Tail(out[c][d]) ELSE out[b][e]
      /\ d # Reports => d \in Consumers /\ msg \in Good(d)
  <2>1. \A b \in Consumers, e \in Destinations :
           out'[b][e] = IF b = c /\ e = d THEN Tail(out[c][d]) ELSE out[b][e]
    <3>1. out \in [Consumers -> [Destinations -> Seq(Messages \cup ReportMsgs)]]
      BY QueueTypes
    <3> QED BY ONLY <3>1, out' = [out EXCEPT ![c][d] = Tail(@)], c \in Consumers,
                d \in Destinations
  <2>2. IF d = Reports THEN Head(out[c][d]) \in ReportMsgs
        ELSE d \in Consumers /\ Head(out[c][d]) \in Good(d)
    BY HeadTaken
  <2> QED BY <2>1, <2>2
<1>2. out[c][d] \in Seq(Messages \cup ReportMsgs)
  BY OutFields
<1> DEFINE tail == Tail(out[c][d])
<1>3. /\ InSeq(x, tail) => InSeq(x, out[c][d])
      /\ InSeq(x, out[c][d]) => InSeq(x, tail) \/ x = msg
      /\ InSeq(msg, out[c][d])
  BY <1>2, InTail
<1>4. \A b \in Consumers, e \in Destinations :
         out'[b][e] = IF b = c /\ e = d THEN tail ELSE out[b][e]
  BY <1>1
<1> HIDE DEF tail
<1>5. Reports \in Destinations /\ Reports \notin Consumers /\ Consumers \subseteq Destinations
  BY ReportsApart DEF Destinations
<1>6. (Queued(x)' => Queued(x)) /\ (Told(x)' => Told(x))
  BY <1>3, <1>4, <1>5 DEF Queued, Told
<1>7. ASSUME d # Reports
      PROVE  /\ Told(x) => Told(x)'
             /\ Queued(x) => Queued(x)' \/ x = msg
             /\ Queued(msg) /\ msg \in Messages
  <2>1. d \in Consumers /\ msg \in Messages
    BY <1>1, <1>7 DEF Good
  <2>2. Queued(x) => Queued(x)' \/ x = msg
    BY <1>3, <1>4, <1>5 DEF Queued
  <2>3. Told(x) => Told(x)'
    BY <1>4, <1>5, <1>7 DEF Told
  <2> QED BY <1>3, <2>1, <2>2, <2>3 DEF Queued
<1>8. ASSUME d = Reports
      PROVE  /\ Queued(x) => Queued(x)'
             /\ Told(x) => Told(x)' \/ x = msg
             /\ Told(msg)
  BY <1>3, <1>4, <1>5, <1>8 DEF Queued, Told
<1> QED
  BY <1>6, <1>7, <1>8

\* The brokers have a message, or the message of a transaction's end; or a
\* message is lost, and that is known.
LEMMA DeliverMoves ==
    ASSUME Inv, NEW c \in Consumers, NEW d \in Destinations, Deliver(c, d), d # Reports, NEW x
    PROVE  (Waits(x)' <=> Waits(x)) /\ (Told(x)' <=> Told(x)) /\ outcome' = outcome
<1>1. PICK msg : msg = Head(out[c][d])
  OBVIOUS
<1>2. /\ out[c][d] # <<>> /\ out' = [out EXCEPT ![c][d] = Tail(@)] /\ pos' = pos
      /\ log' = [log EXCEPT ![d] = Append(@, msg)] /\ outcome' = outcome
  BY <1>1 DEF Deliver
<1>3. /\ Queued(x)' => Queued(x)
      /\ Queued(x) => Queued(x)' \/ x = msg
      /\ Queued(msg) /\ msg \in Messages
      /\ Told(x)' <=> Told(x)
  BY <1>1, <1>2, QueueShrinks
<1>4. d \in Consumers
  BY DEF Destinations
<1>5. Unread(x)' <=> Unread(x) \/ x = msg
  BY <1>2, <1>3, <1>4, TopicGrows
<1> QED
  BY <1>2, <1>3, <1>5 DEF Waits

LEMMA DeliverReportMoves ==
    ASSUME Inv, NEW c \in Consumers, Deliver(c, Reports), NEW x,
           NEW msg, msg = Head(out[c][Reports])
    PROVE  /\ Waits(x)' <=> Waits(x)
           /\ Told(x)' => Told(x)
           /\ Told(x) => Told(x)' \/ x = msg
           /\ Told(msg) /\ outcome' = [outcome EXCEPT ![msg.id] = Append(@, msg.code)]
<1>1. /\ out[c][Reports] # <<>> /\ out' = [out EXCEPT ![c][Reports] = Tail(@)] /\ pos' = pos
      /\ log' = log /\ outcome' = [outcome EXCEPT ![msg.id] = Append(@, msg.code)]
  BY DEF Deliver
<1>2. Unread(x)' <=> Unread(x)
  BY <1>1 DEF Unread
<1>3. /\ Queued(x)' <=> Queued(x)
      /\ Told(x)' => Told(x)
      /\ Told(x) => Told(x)' \/ x = msg
      /\ Told(msg)
  BY <1>1, ReportsApart, QueueShrinks
<1> QED
  BY <1>1, <1>2, <1>3 DEF Waits

LEMMA DeliveryFailsMoves ==
    ASSUME Inv, NEW c \in Consumers, NEW d \in Destinations, DeliveryFails(c, d), NEW x
    PROVE  (Waits(x)' => Waits(x)) /\ (Told(x)' => Told(x)) /\ lost' # {}
<1>1. /\ out[c][d] # <<>> /\ out' = [out EXCEPT ![c][d] = Tail(@)] /\ pos' = pos
      /\ log' = log /\ lost' # {}
  BY DEF DeliveryFails
<1>2. Unread(x)' <=> Unread(x)
  BY <1>1 DEF Unread
<1>3. (Queued(x)' => Queued(x)) /\ (Told(x)' => Told(x))
  BY <1>1, QueueShrinks
<1> QED
  BY <1>1, <1>2, <1>3 DEF Waits

\* A client's transaction comes to its first topic.
Submission(t) ==
    NewApecsTxn(t, "REPORT", [i \in DOMAIN Requests[t] |-> ClientStep(t, Requests[t][i])])

LEMMA SubmitMoves ==
    ASSUME Inv, NEW t \in Txns, Submit(t), NEW x
    PROVE  (Waits(x)' <=> Waits(x) \/ x = Submission(t)) /\ (Told(x)' <=> Told(x))
<1> DEFINE txn == Submission(t)
<1>1. PICK random \in Parts : log' = [log EXCEPT ![Dest(txn, random)] = Append(@, txn)]
  BY DEF Submit, Submission
<1>2. TxnOK(txn) /\ CurrentStep(txn).sys = "PROCESS"
  BY SubmittedOK DEF Submission
<1>3. out' = out /\ pos' = pos
  BY DEF Submit
<1> HIDE DEF txn
<1> DEFINE e == Dest(txn, random)
<1>4. e \in Consumers /\ log' = [log EXCEPT ![e] = Append(@, txn)] /\ txn \in Messages
  BY <1>1, <1>2, ProducedGood DEF TxnOK
<1> HIDE DEF e
<1>5. Unread(x)' <=> Unread(x) \/ x = txn
  BY <1>3, <1>4, TopicGrows
<1> QED
  BY <1>3, <1>5 DEF Waits, Queued, Told, txn

-----------------------------------------------------------------------------
(* What a transaction becomes *)

\* An enumeration meets every step number of the set.
Lists(f, S) ==
    /\ f \in Seq(S) /\ Len(f) = Cardinality(S)
    /\ \A e \in S : \E i \in 1..Len(f) : f[i] = e

LEMMA EnumerationOnto ==
    ASSUME NEW n \in Nat, NEW S, S \subseteq 1..n, NEW f, f \in Enumerations(S)
    PROVE  Lists(f, S)
<1> DEFINE I == 1..n
           k == Cardinality(S)
           D == 1..k
<1>1. IsFiniteSet(S)
  <2>1. IsFiniteSet(I)
    BY FS_Interval
  <2>2. S \in SUBSET I
    OBVIOUS
  <2> HIDE DEF I
  <2> QED BY <2>1, <2>2, FS_Subset
<1>2. k \in Nat
  BY <1>1, FS_CardinalityType
<1>3. f \in [D -> S] /\ \A i, j \in D : i # j => f[i] # f[j]
  BY DEF Enumerations
<1>4. f \in Seq(S) /\ Len(f) = k
  <2> HIDE DEF k
  <2> QED BY <1>2, <1>3, SeqDef, LenProperties
<1>5. IsFiniteSet(D) /\ Cardinality(D) = k
  <2>1. 1 \in Int /\ k \in Int /\ k - 1 + 1 = k
    BY <1>2
  <2> HIDE DEF k
  <2>2. Cardinality(1..k) = IF 1 > k THEN 0 ELSE k - 1 + 1
    BY <2>1, FS_Interval
  <2>3. IsFiniteSet(1..k)
    BY <2>1, FS_Interval
  <2> QED BY <1>2, <2>2, <2>3
<1>6. f \in Injection(D, S)
  <2> HIDE DEF D
  <2> QED BY <1>3 DEF Injection, IsInjective
<1>7. f \in Surjection(D, S)
  <2> HIDE DEF D
  <2> QED BY <1>1, <1>5, <1>6, FS_Injection DEF k
<1>8. \A e \in S : \E i \in D : f[i] = e
  <2> HIDE DEF D
  <2> QED BY <1>7 DEF Surjection
<1> QED
  BY <1>4, <1>8 DEF Lists

\* The messages X and the reports R follow from the message that c has passed.
MovesTo(c, X, R) ==
    \A x : /\ Waits(x)' => Waits(x) \/ x \in X
           /\ Waits(x) => Waits(x)' \/ x = Msg(c)
           /\ x \in X => Waits(x)'
           /\ Told(x)' <=> Told(x) \/ x \in R

LEMMA EmitsMoves ==
    ASSUME Inv, NEW c \in Consumers, Ready(c), StoreOffsets(c), log' = log,
           NEW new, Emits(c, new), NEW X, NEW R,
           \A x : Made(new, x) <=> x \in X,
           \A x : InSeq(x, new[Reports]) <=> x \in R
    PROVE  MovesTo(c, X, R)
<1>1. ASSUME NEW d \in Destinations PROVE new[d] \in Seq(Messages \cup ReportMsgs)
  <2>1. CASE d = Reports
    <3>1. OwnReports(c) \subseteq Messages \cup ReportMsgs /\ new[d] \in Seq(OwnReports(c))
      BY <2>1 DEF OwnReports, Emits
    <3> QED BY ONLY <3>1, SeqMonotonic
  <2>2. CASE d \in Consumers
    <3>1. OwnGood(c, d) \subseteq Messages \cup ReportMsgs /\ new[d] \in Seq(OwnGood(c, d))
      BY <2>2 DEF OwnGood, Good, Emits
    <3> QED BY ONLY <3>1, SeqMonotonic
  <2> QED BY <2>1, <2>2 DEF Destinations
<1>2. Queues(c, new)
  BY DEF Emits
<1>3. ASSUME NEW x PROVE Moved(c, new, x)
  BY <1>1, <1>2, IterationMoves
<1> QED
  BY <1>3 DEF Moved, MovesTo

\* A transaction goes on.
LEMMA ProduceMoves ==
    ASSUME Inv, NEW c \in Consumers, Ready(c), StoreOffsets(c), log' = log, NEW m, TxnOK(m),
           m.id = Msg(c).id, m.upon = Msg(c).upon,
           CurrentStep(m).sys # "PROCESS" => CurrentStep(m).off # Nil,
           Produce(c, m)
    PROVE  MovesTo(c, {m}, {})
<1>0. PICK d \in Consumers : \E one : one = <<m>> /\ Emits(c, Only(d, one))
  BY ProduceMakes
<1>1. PICK one : one = <<m>> /\ Emits(c, Only(d, one))
  BY <1>0
<1> DEFINE new == Only(d, one)
<1>2. d \in Destinations /\ Reports \in Destinations /\ Consumers \subseteq Destinations /\ d # Reports
  BY ReportsApart DEF Destinations
<1>3. new = [x \in Destinations |-> IF x = d THEN one ELSE <<>>]
  BY DEF Only
<1>4. ASSUME NEW x PROVE (InSeq(x, one) <=> x = m) /\ ~InSeq(x, <<>>)
  BY <1>1, InOne, InNone
<1>5. Emits(c, new)
  BY <1>1
<1> HIDE DEF new
<1>6. \A e \in Destinations : new[e] = IF e = d THEN one ELSE <<>>
  BY <1>3
<1>7. \A x : Made(new, x) <=> x \in {m}
  BY <1>2, <1>4, <1>6 DEF Made
<1>8. \A x : InSeq(x, new[Reports]) <=> x \in {}
  BY <1>2, <1>4, <1>6
<1> QED
  BY <1>5, <1>7, <1>8, EmitsMoves

\* A transaction ends with an error.
ReportSet(m, code) == IF m.upon = "BAILOUT" THEN {} ELSE {[id |-> m.id, code |-> code]}

LEMMA InReport ==
    ASSUME NEW m, NEW code, NEW x
    PROVE  InSeq(x, Report(m, code)) <=> x \in ReportSet(m, code)
<1> DEFINE r == [id |-> m.id, code |-> code]
<1>1. Report(m, code) = IF m.upon = "BAILOUT" THEN <<>> ELSE <<r>>
  BY DEF Report
<1>2. ReportSet(m, code) = IF m.upon = "BAILOUT" THEN {} ELSE {r}
  BY DEF ReportSet
<1> HIDE DEF r
<1>3. (InSeq(x, <<r>>) <=> x = r) /\ ~InSeq(x, <<>>)
  BY InOne, InNone
<1>4. CASE m.upon = "BAILOUT"
  BY <1>1, <1>2, <1>3, <1>4
<1>5. CASE m.upon # "BAILOUT"
  BY <1>1, <1>2, <1>3, <1>5
<1> QED
  BY <1>4, <1>5

LEMMA FailsMoves ==
    ASSUME Inv, NEW c \in Consumers, Ready(c), log' = log, NEW code \in Codes, Fails(c, code)
    PROVE  MovesTo(c, {}, ReportSet(Msg(c), code))
<1> DEFINE r == Report(Msg(c), code)
           new == Only(Reports, r)
<1>1. StoreOffsets(c) /\ ProduceError(c, Msg(c), code)
  BY DEF Fails
<1>2. Emits(c, new)
  BY <1>1, ErrorMakes
<1>3. \A e \in Destinations : new[e] = IF e = Reports THEN r ELSE <<>>
  BY DEF Only
<1>4. ASSUME NEW x PROVE (InSeq(x, r) <=> x \in ReportSet(Msg(c), code)) /\ ~InSeq(x, <<>>)
  BY InReport, InNone
<1> HIDE DEF new, r
<1>5. \A x : Made(new, x) <=> x \in {}
  BY <1>3, <1>4, ReportsApart DEF Made, Destinations
<1>6. \A x : InSeq(x, new[Reports]) <=> x \in ReportSet(Msg(c), code)
  BY <1>3, <1>4, ReportsApart
<1> QED
  BY <1>1, <1>2, <1>5, <1>6, EmitsMoves

\* A transaction is complete, and none of its steps has written storage: for
\* each key the last instance it has made goes to both targets.
Targets == {"STORAGE", "STORAGE_SCND"}
WritesOf(m) == {UpdateAsyncTxn(m, y[1], y[2]) : y \in Targets \X UpdateSteps(m)}

LEMMA GeneratedAll ==
    ASSUME NEW m, StepDone(m), SecondarySteps(m) = {}, NEW d \in Consumers,
           NEW fst \in Ascending(SecondaryStepsAt(m, d[2])),
           NEW snd \in Enumerations(UpdateStepsAt(m, d[2])), NEW x
    PROVE  InSeq(x, Generated(m, d, fst, snd)) <=>
             /\ d[1] # "PROCESS"
             /\ \E i \in UpdateStepsAt(m, d[2]) : x = UpdateAsyncTxn(m, d[1], i)
<1> DEFINE loop1 == IF d[1] = "STORAGE_SCND"
                    THEN [i \in 1..Len(fst) |-> SecondaryTxn(m, fst[i])] ELSE <<>>
           loop2 == IF d[1] # "PROCESS"
                    THEN [i \in 1..Len(snd) |-> UpdateAsyncTxn(m, d[1], snd[i])] ELSE <<>>
           S == UpdateStepsAt(m, d[2])
<1>1. Generated(m, d, fst, snd) = loop1 \o loop2
  BY DEF Generated
<1>2. Len(m.steps) \in Nat /\ DOMAIN m.steps = 1..Len(m.steps)
  <2>1. m.steps \in Seq(Steps)
    BY DEF StepDone, Messages
  <2> QED BY <2>1, LenProperties
<1>3. S \in SUBSET (1..Len(m.steps))
  BY <1>2 DEF UpdateStepsAt, UpdateSteps
<1>4. Len(fst) = 0
  <2>1. SecondaryStepsAt(m, d[2]) = {}
    BY DEF SecondaryStepsAt
  <2>2. fst \in Enumerations({}) /\ Cardinality({}) = 0
    BY <2>1, FS_EmptySet DEF Ascending
  <2>3. 0 \in Nat /\ {} \subseteq 1..0
    OBVIOUS
  <2>4. Lists(fst, {})
    BY ONLY <2>2, <2>3, EnumerationOnto
  <2> QED BY <2>2, <2>4 DEF Lists
<1>5. snd \in Seq(S) /\ Len(snd) \in Nat /\ \A e \in S : \E i \in 1..Len(snd) : snd[i] = e
  <2> DEFINE n == Len(m.steps)
  <2>1. n \in Nat /\ S \subseteq 1..n /\ snd \in Enumerations(S)
    BY <1>2, <1>3
  <2> HIDE DEF n, S
  <2>2. Lists(snd, S)
    BY ONLY <2>1, EnumerationOnto
  <2> QED BY <2>2, LenProperties DEF Lists
<1>6. loop1 = <<>>
  <2>1. 1..Len(fst) = {}
    BY ONLY <1>4
  <2>2. [i \in 1..Len(fst) |-> SecondaryTxn(m, fst[i])] = <<>>
    BY ONLY <2>1
  <2> QED BY <2>2
<1> HIDE DEF loop1, S
<1>7. CASE d[1] = "PROCESS"
  <2>1. loop2 = <<>>
    BY <1>7
  <2> HIDE DEF loop2
  <2>2. Generated(m, d, fst, snd) = <<>>
    BY <1>1, <1>6, <2>1
  <2> QED BY <1>7, <2>2, InNone
<1>8. CASE d[1] # "PROCESS"
  <2> DEFINE V == {UpdateAsyncTxn(m, d[1], i) : i \in S}
  <2>1. loop2 = [i \in 1..Len(snd) |-> UpdateAsyncTxn(m, d[1], snd[i])]
    BY <1>8
  <2>2. \A i \in 1..Len(snd) : snd[i] \in S
    BY <1>5, ElementOfSeq
  <2> HIDE DEF loop2
  <2>3. loop2 \in Seq(V) /\ Len(loop2) = Len(snd)
    <3>1. loop2 \in [1..Len(snd) -> V]
      BY <2>1, <2>2
    <3> DEFINE n == Len(snd)
    <3>2. n \in Nat /\ loop2 \in [1..n -> V]
      BY <1>5, <3>1
    <3> HIDE DEF V, n
    <3>3. loop2 \in Seq(V) /\ Len(loop2) = n
      BY ONLY <3>2, SeqDef, LenProperties
    <3> QED BY <3>3 DEF n
  <2> HIDE DEF V
  <2>4. Generated(m, d, fst, snd) = loop2
    BY <1>1, <1>6, <2>3, ConcatEmptySeq
  <2>5. InSeq(x, loop2) <=> \E i \in 1..Len(snd) : x = UpdateAsyncTxn(m, d[1], snd[i])
    BY <2>1, <2>3 DEF InSeq
  <2>6. InSeq(x, loop2) <=> \E i \in S : x = UpdateAsyncTxn(m, d[1], i)
    BY <1>5, <2>2, <2>5
  <2> QED BY <1>8, <2>4, <2>6 DEF S
<1> QED
  BY <1>7, <1>8

LEMMA EndMoves ==
    ASSUME Inv, NEW c \in Consumers, Ready(c), StoreOffsets(c), log' = log,
           NEW m, StepDone(m), ~CanAdvance(m), m.id = Msg(c).id, m.upon = Msg(c).upon,
           SecondarySteps(m) = {}, ProduceAtEnd(c, m)
    PROVE  MovesTo(c, WritesOf(m), ReportSet(m, "OK"))
<1>1. PICK new : Emits(c, new) /\ EndsWith(m, new)
  BY EndMakes
<1>2. ASSUME NEW x PROVE InSeq(x, new[Reports]) <=> x \in ReportSet(m, "OK")
  BY <1>1, InReport DEF EndsWith
<1>3. ASSUME NEW x, NEW d \in Consumers
      PROVE  InSeq(x, new[d]) <=>
               /\ d[1] # "PROCESS"
               /\ \E i \in UpdateStepsAt(m, d[2]) : x = UpdateAsyncTxn(m, d[1], i)
  <2>1. PICK fst \in Ascending(SecondaryStepsAt(m, d[2])),
             snd \in Enumerations(UpdateStepsAt(m, d[2])) :
                new[d] = Generated(m, d, fst, snd)
    BY <1>1 DEF EndsWith
  <2> QED BY <2>1, GeneratedAll
<1>4. ASSUME NEW x, Made(new, x) PROVE x \in WritesOf(m)
  <2>1. PICK d \in Consumers : InSeq(x, new[d])
    BY <1>4 DEF Made
  <2>2. PICK i \in UpdateStepsAt(m, d[2]) : x = UpdateAsyncTxn(m, d[1], i)
    BY <1>3, <2>1
  <2>3. d[1] \in Targets /\ i \in UpdateSteps(m)
    BY <1>3, <2>1, ConsumerPair DEF Targets, Systems, UpdateStepsAt
  <2> DEFINE sys == d[1]
  <2>4. x = UpdateAsyncTxn(m, sys, i) /\ <<sys, i>> \in Targets \X UpdateSteps(m)
    BY <2>2, <2>3
  <2> HIDE DEF sys
  <2> QED BY <2>4 DEF WritesOf
<1>5. ASSUME NEW x, x \in WritesOf(m) PROVE Made(new, x)
  <2>1. PICK y \in Targets \X UpdateSteps(m) : x = UpdateAsyncTxn(m, y[1], y[2])
    BY <1>5 DEF WritesOf
  <2> DEFINE p == PartOf[m.steps[y[2]].key]
             d == <<y[1], p>>
  <2>2. y[1] \in Targets /\ y[2] \in UpdateSteps(m) /\ y[2] \in DOMAIN m.steps
    BY DEF UpdateSteps
  <2>3. p \in Parts
    <3>1. m.steps \in Seq(Steps)
      BY DEF StepDone, Messages
    <3>2. m.steps[y[2]] \in Steps
      BY <2>2, <3>1, ElementOfSeq, LenProperties
    <3> QED BY <3>2, StepFields, PartsAssumption
  <2>4. y[2] \in UpdateStepsAt(m, p)
    BY <2>2 DEF UpdateStepsAt
  <2> HIDE DEF p
  <2>5. d \in Consumers /\ d[1] = y[1] /\ d[2] = p /\ d[1] # "PROCESS"
    BY <2>2, <2>3 DEF Consumers, Systems, Targets
  <2> HIDE DEF d
  <2>6. InSeq(x, new[d])
    BY <1>3, <2>1, <2>4, <2>5
  <2> QED BY <2>5, <2>6 DEF Made
<1> QED
  BY <1>1, <1>2, <1>4, <1>5, EmitsMoves

\* A handler that adds no step ends well: the transaction with its current step
\* done.
Finished(m, txn, step, inst) ==
    /\ StepDone(txn) /\ txn.id = m.id /\ txn.upon = m.upon /\ txn.cur = m.cur
    /\ txn.steps \in Seq(Steps) /\ Len(txn.steps) = Len(m.steps)
    /\ \A i \in 1..Len(m.steps) : i # m.cur => txn.steps[i] = m.steps[i]
    /\ txn.steps[m.cur].sys = step.sys /\ txn.steps[m.cur].cmd = step.cmd
    /\ txn.steps[m.cur].key = step.key /\ txn.steps[m.cur].off = step.off
    /\ txn.steps[m.cur].rslt.inst = inst

LEMMA FinishesTxn ==
    ASSUME Inv, NEW c \in Consumers, Ready(c),
           NEW key \in Keys \cup {NoKey}, NEW payload \in Instances \cup {Nil},
           NEW inst \in Instances \cup {Nil}, Finishes(c, key, payload, inst, <<>>)
    PROVE  \E txn : /\ Finished(Msg(c), txn, Arrived(c), inst)
                    /\ \/ CanAdvance(txn) /\ Produce(c, NextStepTxn(txn))
                       \/ ~CanAdvance(txn) /\ ProduceAtEnd(c, txn)
                    /\ StoreOffsets(c)
<1> DEFINE add == <<>>
           step == Arrived(c)
           m == Msg(c)
           pl == IF payload = Nil THEN step.payload ELSE payload
           rslt == Result("OK", key, pl, inst)
           done == [step EXCEPT !.rslt = rslt]
           set == SetCurrentStep(m, done)
           s == [m.steps EXCEPT ![m.cur] = done]
           txn == InsertSteps(set, m.cur + 1, add)
<1>1. /\ \/ CanAdvance(txn) /\ Produce(c, NextStepTxn(txn))
         \/ ~CanAdvance(txn) /\ ProduceAtEnd(c, txn)
      /\ StoreOffsets(c)
  BY DEF Finishes
<1>0. add \in Seq(Steps) /\ Len(add) = 0
  OBVIOUS
<1>2. TxnOK(m) /\ IsTodo(step, m.id) /\ step.off # Nil /\ step \in Steps
  BY ReadFacts, ArrivedTodo DEF IsTodo, StepOK
<1>3. pl \in Instances \cup {Nil} /\ (step.payload # Nil => pl # Nil)
  BY <1>2, StepFields
<1> HIDE DEF pl, step, m, add
<1>4. IsDone(done, m.id)
  BY <1>2, <1>3, TodoFinished, Zenon
<1>41. rslt.inst = inst
  BY DEF Result
<1> HIDE DEF rslt
<1>5. /\ done.sys = step.sys /\ done.cmd = step.cmd /\ done.key = step.key
      /\ done.off = step.off /\ done.rslt = rslt
  <2>1. step = [sys |-> step.sys, cmd |-> step.cmd, key |-> step.key,
                payload |-> step.payload, off |-> step.off, rslt |-> step.rslt]
    BY <1>2, StepFields
  <2> QED BY <2>1
<1> HIDE DEF done
<1>6. /\ m = [id |-> m.id, upon |-> m.upon, cur |-> m.cur, steps |-> m.steps]
      /\ m.steps \in Seq(Steps) /\ Len(m.steps) \in Nat /\ m.cur \in 1..Len(m.steps)
  BY <1>2, TxnFields
<1>7. StepDone(txn) /\ txn.id = m.id /\ txn.upon = m.upon
  <2>1. \A i \in 1..Len(add) : IsTodo(add[i], m.id)
    BY <1>0
  <2> QED BY <1>0, <1>2, <1>4, <2>1, StepIsDone
<1>8. set = [id |-> m.id, upon |-> m.upon, cur |-> m.cur, steps |-> s]
  BY <1>6, SetCurrentFields
<1>9. /\ s \in Seq(Steps) /\ Len(s) = Len(m.steps)
      /\ \A j \in 1..Len(m.steps) : s[j] = IF j = m.cur THEN done ELSE m.steps[j]
  <2>1. done \in Steps
    BY <1>4 DEF IsDone, StepOK
  <2> QED BY <1>6, <2>1, ExceptSeq
<1> HIDE DEF s, set
<1> DEFINE steps == Inserted(s, m.cur + 1, add)
<1>10. txn.steps = steps /\ txn.cur = m.cur
  <2>1. set = [id |-> set.id, upon |-> set.upon, cur |-> set.cur, steps |-> set.steps]
    BY <1>8
  <2>2. txn = [id |-> set.id, upon |-> set.upon, cur |-> set.cur,
               steps |-> Inserted(set.steps, m.cur + 1, add)]
    BY <2>1, InsertFields
  <2>3. set.id = m.id /\ set.upon = m.upon /\ set.cur = m.cur /\ set.steps = s
    BY <1>8
  <2> QED BY <2>2, <2>3
<1>11. /\ steps \in Seq(Steps) /\ Len(steps) = Len(s) + Len(add)
       /\ \A j \in 1..Len(steps) :
             steps[j] = IF j < m.cur + 1 THEN s[j]
                        ELSE IF j < m.cur + 1 + Len(add) THEN add[j - (m.cur + 1) + 1]
                        ELSE s[j - Len(add)]
  <2>1. m.cur + 1 \in 1..(Len(s) + 1) /\ s \in Seq(Steps) /\ add \in Seq(Steps)
    BY <1>0, <1>6, <1>9
  <2> QED BY ONLY <2>1, InsertedSteps
<1> HIDE DEF steps, txn
<1>12. Len(steps) = Len(m.steps) /\ \A j \in 1..Len(m.steps) : steps[j] = s[j]
  <2>1. Len(steps) = Len(m.steps)
    BY <1>0, <1>6, <1>9, <1>11
  <2>2. ASSUME NEW j \in 1..Len(m.steps) PROVE steps[j] = s[j]
    <3>1. j - Len(add) = j /\ (j < m.cur + 1 \/ ~(j < m.cur + 1 + Len(add)))
      BY <1>0, <1>6
    <3> QED BY <1>11, <2>1, <3>1
  <2> QED BY <2>1, <2>2
<1>13. Finished(m, txn, step, inst)
  BY <1>41, <1>5, <1>6, <1>7, <1>9, <1>10, <1>11, <1>12 DEF Finished
<1> QED
  BY <1>1, <1>13 DEF m, step

\* The transaction with its next step.
NextOf(txn, n) ==
    /\ n.id = txn.id /\ n.upon = txn.upon /\ n.cur = txn.cur + 1
    /\ Len(n.steps) = Len(txn.steps)
    /\ \A i \in 1..Len(txn.steps) :
          /\ n.steps[i].sys = txn.steps[i].sys /\ n.steps[i].cmd = txn.steps[i].cmd
          /\ n.steps[i].key = txn.steps[i].key
          /\ i <= txn.cur => n.steps[i] = txn.steps[i]

LEMMA NextIs ==
    ASSUME NEW m, StepDone(m), CanAdvance(m)
    PROVE  NextOf(m, NextStepTxn(m))
<1> DEFINE step == CurrentStep(m)
           next == m.steps[m.cur + 1]
           payload == IF next.payload = Nil /\ next.cmd \notin ReservedCommands
                      THEN step.rslt.payload ELSE next.payload
           off == IF next.sys = "STORAGE" /\ next.off = Nil
                  THEN step.off ELSE next.off
           st == [next EXCEPT !.payload = payload, !.off = off]
           steps == [m.steps EXCEPT ![m.cur + 1] = st]
           new == NextStepTxn(m)
<1>1. /\ m = [id |-> m.id, upon |-> m.upon, cur |-> m.cur, steps |-> m.steps]
      /\ m.steps \in Seq(Steps) /\ m.cur \in Nat \ {0}
  BY DEF StepDone, Messages
<1>2. Len(m.steps) \in Nat /\ m.cur \in 1..Len(m.steps) /\ m.cur + 1 \in 1..Len(m.steps)
  BY <1>1, LenProperties DEF StepDone, CanAdvance
<1>3. new.cur = m.cur + 1 /\ new.steps = steps /\ new.id = m.id /\ new.upon = m.upon
  <2>1. new = [m EXCEPT !.cur = m.cur + 1, !.steps = steps]
    BY DEF NextStepTxn
  <2> HIDE DEF steps, new
  <2> QED BY <1>1, <2>1
<1>4. next \in Steps
  BY <1>1, <1>2, ElementOfSeq
<1>51. st \in Steps
  <2>1. IsDone(step, m.id)
    BY <1>1, <1>2 DEF StepDone, CurrentStep
  <2>2. step \in Steps /\ step.rslt \in Results
    BY <2>1, StepFields DEF IsDone, StepOK
  <2>3. payload \in Instances \cup {Nil} /\ off \in CmpdOffsets \cup {Nil}
    BY <1>4, <2>2, StepFields DEF Results
  <2> HIDE DEF step, next, payload, off
  <2> QED BY <1>4, <2>3 DEF Steps
<1> HIDE DEF step, next, new, payload, off
<1>5. st.sys = next.sys /\ st.cmd = next.cmd /\ st.key = next.key
  <2>1. next = [sys |-> next.sys, cmd |-> next.cmd, key |-> next.key,
                payload |-> next.payload, off |-> next.off, rslt |-> next.rslt]
    BY <1>4, StepFields
  <2> QED BY <2>1
<1> HIDE DEF st
<1>6. /\ Len(steps) = Len(m.steps)
      /\ \A j \in 1..Len(m.steps) : steps[j] = IF j = m.cur + 1 THEN st ELSE m.steps[j]
  <2> QED BY <1>1, <1>2, <1>51, ExceptSeq
<1> HIDE DEF steps
<1>7. ASSUME NEW i \in 1..Len(m.steps)
      PROVE  /\ steps[i].sys = m.steps[i].sys /\ steps[i].cmd = m.steps[i].cmd
             /\ steps[i].key = m.steps[i].key
             /\ i <= m.cur => steps[i] = m.steps[i]
  <2>1. CASE i = m.cur + 1
    BY <1>1, <1>2, <1>5, <1>6, <2>1 DEF next
  <2>2. CASE i # m.cur + 1
    BY <1>6, <2>2
  <2> QED BY <2>1, <2>2
<1> QED
  BY <1>3, <1>6, <1>7 DEF NextOf, new

-----------------------------------------------------------------------------
(* Instances that are in memory *)

\* No consumer restarts, and the clients' commands are all about instances that
\* are in the instance store from the start; they read them, change them, or fail.
InMemory ==
    /\ MaxCrashes = 0
    /\ \A t \in Txns : \A i \in DOMAIN Requests[t] :
          /\ Requests[t][i].cmd \in {"Read", "Change", "Query", "Reject", "UpdateAsync"}
          /\ Requests[t][i].key \in Cached

\* The messages there are then: clients' transactions with the steps the client
\* has asked for, and the storage transactions made from them.
Asked(step, req) == step.sys = "PROCESS" /\ step.cmd = req.cmd /\ step.key = req.key

ClientMsg(m) ==
    /\ m.upon = "REPORT" /\ m.id \in Txns /\ Len(m.steps) = Len(Requests[m.id])
    /\ \A i \in 1..Len(m.steps) : Asked(m.steps[i], Requests[m.id][i])

WriteMsg(m) ==
    /\ m.upon = "BAILOUT" /\ Len(m.steps) = 1
    /\ m.steps[1].sys # "PROCESS" /\ m.steps[1].cmd = "UpdateAsync" /\ m.steps[1].key \in Cached

ShapeInv == \A m : Waits(m) => ClientMsg(m) \/ WriteMsg(m)

\* What the clients ask for.
LEMMA RequestFacts ==
    ASSUME InMemory, NEW t \in Txns, NEW i \in 1..Len(Requests[t])
    PROVE  /\ Requests[t][i].cmd \in {"Read", "Change", "Query", "Reject", "UpdateAsync"}
           /\ Requests[t][i].key \in Cached /\ Requests[t][i].key \in Keys
           /\ Requests[t][i] = [cmd |-> Requests[t][i].cmd, key |-> Requests[t][i].key]
<1> DEFINE R == [cmd : Commands, key : Keys \cup {NoKey}]
           r == Requests[t][i]
<1>1. Requests[t] \in Seq(R)
  BY RequestsAssumption
<1> HIDE DEF R
<1>2. i \in DOMAIN Requests[t] /\ r \in R
  BY <1>1, ElementOfSeq, LenProperties
<1>3. r = [cmd |-> r.cmd, key |-> r.key]
  <2> HIDE DEF r
  <2> QED BY <1>2 DEF R
<1> QED
  BY <1>2, <1>3, StoredAssumption DEF InMemory

LEMMA RequestList ==
    ASSUME NEW t \in Txns
    PROVE  /\ Len(Requests[t]) \in Nat \ {0} /\ DOMAIN Requests[t] = 1..Len(Requests[t])
<1>1. /\ Requests[t] \in Seq([cmd : Commands, key : Keys \cup {NoKey}])
      /\ Requests[t] # <<>>
  BY RequestsAssumption DEF ValidTxn
<1> QED
  BY <1>1, EmptySeq, LenProperties

\* NewApecsTxn adds no step to such a transaction.
LEMMA SubmissionIs ==
    ASSUME InMemory, NEW t \in Txns
    PROVE  ClientMsg(Submission(t)) /\ Submission(t).cur = 1 /\ Submission(t).id = t
<1> DEFINE steps == [i \in DOMAIN Requests[t] |-> ClientStep(t, Requests[t][i])]
           lists == [i \in DOMAIN steps |-> ExpandStep(steps[i])]
           n == Len(Requests[t])
           PR == "PROCESS"
           step(i) == Step(PR, Requests[t][i].cmd, Requests[t][i].key, Nil, Nil)
           r == [i \in 1..n |-> step(i)]
<1>1. n \in Nat \ {0} /\ DOMAIN Requests[t] = 1..n
  BY RequestList
<1>2. ASSUME NEW i \in 1..n PROVE lists[i] = <<r[i]>>
  <2>1. Requests[t][i].cmd \in {"Read", "Change", "Query", "Reject", "UpdateAsync"}
    BY RequestFacts
  <2>2. ClientStep(t, Requests[t][i]) = step(i)
    BY <2>1 DEF ClientStep
  <2>3. ExpandStep(step(i)) = <<step(i)>>
    <3>1. step(i).cmd = Requests[t][i].cmd
      BY DEF Step
    <3> QED BY <2>1, <3>1 DEF ExpandStep
  <2>4. lists[i] = ExpandStep(ClientStep(t, Requests[t][i]))
    BY <1>1
  <2>5. r[i] = step(i)
    OBVIOUS
  <2> QED BY <2>2, <2>3, <2>4, <2>5
<1>3. lists = [i \in 1..n |-> lists[i]] /\ r = [i \in 1..n |-> r[i]]
  BY <1>1
<1>4. ASSUME NEW i \in 1..n PROVE Asked(r[i], Requests[t][i]) /\ r[i] \in {r[j] : j \in 1..n}
  <2>1. r[i] = step(i)
    OBVIOUS
  <2> HIDE DEF r
  <2> QED BY <2>1 DEF Asked, Step
<1>5. Submission(t) = [id |-> t, upon |-> "REPORT", cur |-> 1, steps |-> FlattenSeq(lists)]
  BY DEF NewApecsTxn, Submission
<1> HIDE DEF lists, r, n
<1> DEFINE S == {r[j] : j \in 1..n}
<1>6. r \in Seq(S) /\ Len(r) = n /\ r # <<>>
  <2>1. r \in [1..n -> S]
    BY <1>3, <1>4
  <2> HIDE DEF S
  <2>2. r \in Seq(S) /\ Len(r) = n
    BY ONLY <1>1, <2>1, SeqDef, LenProperties
  <2> QED BY <1>1, <2>2
<1>7. lists = [i \in 1..Len(r) |-> <<r[i]>>]
  BY <1>2, <1>3, <1>6
<1>8. FlattenSeq(lists) = r
  <2> HIDE DEF S
  <2> QED BY ONLY <1>6, <1>7, FlattenOnes
<1>9. Submission(t) = [id |-> t, upon |-> "REPORT", cur |-> 1, steps |-> r]
  BY <1>5, <1>8
<1> HIDE DEF S
<1> QED
  BY ONLY <1>4, <1>6, <1>9, t \in Txns DEF ClientMsg, n

-----------------------------------------------------------------------------
(* What the consumer of such a message does *)

\* A client's transaction goes on to its next step, or is complete and makes the
\* writes of what it has changed.
Follows(c, txn) ==
    \/ txn.cur < Len(txn.steps) /\ \E n : NextOf(txn, n) /\ MovesTo(c, {n}, {})
    \/ txn.cur = Len(txn.steps) /\ MovesTo(c, WritesOf(txn), ReportSet(txn, "OK"))

LEMMA ClientFinishes ==
    ASSUME Inv, NEW c \in Consumers, Ready(c), log' = log, ClientMsg(Msg(c)),
           NEW key \in Keys \cup {NoKey}, NEW payload \in Instances \cup {Nil},
           NEW inst \in Instances \cup {Nil}, Finishes(c, key, payload, inst, <<>>)
    PROVE  \E txn : Finished(Msg(c), txn, Arrived(c), inst) /\ Follows(c, txn)
<1>1. PICK txn : /\ Finished(Msg(c), txn, Arrived(c), inst)
                 /\ \/ CanAdvance(txn) /\ Produce(c, NextStepTxn(txn))
                    \/ ~CanAdvance(txn) /\ ProduceAtEnd(c, txn)
                 /\ StoreOffsets(c)
  BY FinishesTxn
<1>2. StepDone(txn) /\ txn.id = Msg(c).id /\ txn.upon = Msg(c).upon
  BY <1>1 DEF Finished
<1>3. Len(txn.steps) \in Nat /\ txn.cur \in Nat /\ txn.cur <= Len(txn.steps)
  <2>1. txn.steps \in Seq(Steps) /\ txn.cur \in Nat /\ txn.cur <= Len(txn.steps)
    BY <1>2 DEF StepDone, Messages
  <2> QED BY <2>1, LenProperties
<1>4. CASE CanAdvance(txn) /\ Produce(c, NextStepTxn(txn))
  <2>1. PICK n : n = NextStepTxn(txn)
    OBVIOUS
  <2>2. NextOf(txn, n)
    BY <1>2, <1>4, <2>1, NextIs
  <2>3. /\ TxnOK(n) /\ n.id = Msg(c).id /\ n.upon = Msg(c).upon
        /\ CurrentStep(n).sys # "PROCESS" => CurrentStep(n).off # Nil
    BY <1>2, <1>4, <2>1, NextOK
  <2>4. MovesTo(c, {n}, {})
    BY <1>1, <1>4, <2>1, <2>3, ProduceMoves
  <2>5. txn.cur < Len(txn.steps)
    BY <1>4 DEF CanAdvance
  <2> QED BY <1>1, <2>2, <2>4, <2>5 DEF Follows
<1>5. CASE ~CanAdvance(txn) /\ ProduceAtEnd(c, txn)
  <2>1. ASSUME NEW i \in 1..Len(txn.steps) PROVE txn.steps[i].sys = "PROCESS"
    <3>1. TxnOK(Msg(c)) /\ Msg(c).cur \in 1..Len(Msg(c).steps)
      BY ReadFacts, TxnFields
    <3>2. \A j \in 1..Len(Msg(c).steps) : Msg(c).steps[j].sys = "PROCESS"
      BY DEF ClientMsg, Asked
    <3>3. Arrived(c).sys = "PROCESS"
      BY <3>1, <3>2, ArrivedTodo DEF CurrentStep
    <3> QED BY <1>1, <3>2, <3>3 DEF Finished
  <2>2. DOMAIN txn.steps = 1..Len(txn.steps)
    BY <1>2, LenProperties DEF StepDone, Messages
  <2>3. SecondarySteps(txn) = {}
    BY <2>1, <2>2 DEF SecondarySteps
  <2>4. MovesTo(c, WritesOf(txn), ReportSet(txn, "OK"))
    BY <1>1, <1>2, <1>5, <2>3, EndMoves
  <2>5. txn.cur = Len(txn.steps)
    BY <1>3, <1>5 DEF CanAdvance
  <2> QED BY <1>1, <2>4, <2>5 DEF Follows
<1> QED
  BY <1>1, <1>4, <1>5

\* A write that is done leaves nothing behind.
LEMMA WriteFinishes ==
    ASSUME Inv, NEW c \in Consumers, Ready(c), log' = log, WriteMsg(Msg(c)),
           NEW key \in Keys \cup {NoKey}, NEW payload \in Instances \cup {Nil},
           Finishes(c, key, payload, Nil, <<>>)
    PROVE  MovesTo(c, {}, {})
<1>1. PICK txn : /\ Finished(Msg(c), txn, Arrived(c), Nil)
                 /\ \/ CanAdvance(txn) /\ Produce(c, NextStepTxn(txn))
                    \/ ~CanAdvance(txn) /\ ProduceAtEnd(c, txn)
                 /\ StoreOffsets(c)
  BY FinishesTxn
<1>2. StepDone(txn) /\ txn.id = Msg(c).id /\ txn.upon = Msg(c).upon
  BY <1>1 DEF Finished
<1>3. Msg(c).cur = 1 /\ txn.cur = 1 /\ Len(txn.steps) = 1
  <2>1. TxnOK(Msg(c)) /\ Msg(c).cur \in 1..Len(Msg(c).steps) /\ Len(Msg(c).steps) = 1
    BY ReadFacts, TxnFields DEF WriteMsg
  <2>2. Msg(c).cur = 1
    BY <2>1
  <2> QED BY <1>1, <2>1, <2>2 DEF Finished
<1>4. ~CanAdvance(txn)
  BY <1>3 DEF CanAdvance
<1>5. txn.steps[1].sys # "PROCESS" /\ txn.steps[1].cmd = "UpdateAsync"
  <2>1. CurrentStep(Msg(c)).sys # "PROCESS" /\ CurrentStep(Msg(c)).cmd = "UpdateAsync"
    BY <1>3 DEF WriteMsg, CurrentStep
  <2>2. Arrived(c).sys = CurrentStep(Msg(c)).sys /\ Arrived(c).cmd = CurrentStep(Msg(c)).cmd
    BY ArrivedTodo
  <2> QED BY <1>1, <1>3, <2>1, <2>2 DEF Finished
<1>6. DOMAIN txn.steps = 1..1
  BY <1>2, <1>3, LenProperties DEF StepDone, Messages
<1>7. SecondarySteps(txn) = {} /\ UpdateSteps(txn) = {}
  <2>1. \A i \in DOMAIN txn.steps : i = 1
    BY <1>6
  <2> QED BY <1>5, <2>1 DEF SecondarySteps, UpdateSteps
<1>8. MovesTo(c, WritesOf(txn), ReportSet(txn, "OK"))
  BY <1>1, <1>2, <1>4, <1>7, EndMoves
<1>9. WritesOf(txn) = {} /\ ReportSet(txn, "OK") = {}
  BY <1>2, <1>7 DEF WritesOf, ReportSet, WriteMsg
<1> QED
  BY <1>8, <1>9

\* What the message is about, and the offset it gives its step.
LEMMA ClientArrived ==
    ASSUME Inv, InMemory, NEW c \in Consumers, Ready(c), ClientMsg(Msg(c))
    PROVE  LET step == Arrived(c)
               m == Msg(c)
           IN /\ m.cur \in 1..Len(Requests[m.id]) /\ m.cur \in 1..Len(m.steps)
              /\ step.sys = "PROCESS" /\ c[1] = "PROCESS"
              /\ step.key = Requests[m.id][m.cur].key /\ step.key \in Cached
              /\ step.key \in Keys /\ step.cmd = Requests[m.id][m.cur].cmd
              /\ step.cmd \in {"Read", "Change", "Query", "Reject", "UpdateAsync"}
              /\ CurrentStep(m).cmd = step.cmd /\ CurrentStep(m).key = step.key
              /\ c = Home(step.key) /\ step.off = Now(step.key)
<1> DEFINE step == Arrived(c)
           m == Msg(c)
           cur == CurrentStep(m)
<1>1. TxnOK(m) /\ Resumable(c, m) /\ m.cur \in 1..Len(m.steps) /\ m.id \in Txns
      /\ IsTodo(cur, m.id)
  BY ReadFacts, TxnFields
<1>2. /\ Len(m.steps) = Len(Requests[m.id]) /\ cur.sys = "PROCESS"
      /\ cur.cmd = Requests[m.id][m.cur].cmd /\ cur.key = Requests[m.id][m.cur].key
  BY <1>1 DEF ClientMsg, Asked, CurrentStep
<1>3. /\ cur.cmd \in {"Read", "Change", "Query", "Reject", "UpdateAsync"}
      /\ cur.key \in Cached /\ cur.key \in Keys /\ cur.key # NoKey
  <2>1. m.cur \in 1..Len(Requests[m.id])
    BY <1>1, <1>2
  <2>2. PICK t, i : t = m.id /\ i = m.cur
    OBVIOUS
  <2>3. t \in Txns /\ i \in 1..Len(Requests[t])
    BY <1>1, <2>1, <2>2
  <2>4. /\ Requests[t][i].cmd \in {"Read", "Change", "Query", "Reject", "UpdateAsync"}
        /\ Requests[t][i].key \in Cached /\ Requests[t][i].key \in Keys
    BY <2>3, RequestFacts
  <2> HIDE DEF m, cur
  <2> QED BY <1>2, <2>2, <2>4, NilAssumption
<1>4. step.sys = c[1] /\ step.cmd = cur.cmd /\ step.key = cur.key /\ cur.sys = c[1]
  BY <1>3, ArrivedTodo
<1>5. c = Home(step.key)
  <2>1. PartOf[cur.key] = c[2]
    BY <1>1, <1>3 DEF Resumable, IsKeylessStep
  <2> QED BY <1>2, <1>4, <2>1, ConsumerPair DEF Home
<1>6. step.off = [gen |-> Generation, part |-> c[2], off |-> pos[c]]
  <2> DEFINE key == IF cur.key = NoKey /\ ~IsKeylessStep(cur) /\ PreviousResult(m) # Nil
                    THEN PreviousResult(m).key ELSE cur.key
             off == IF cur.sys = "PROCESS"
                    THEN [gen |-> Generation, part |-> c[2], off |-> pos[c]]
                    ELSE cur.off
  <2>1. step = [cur EXCEPT !.key = key, !.off = off]
    BY DEF Arrived
  <2>2. off = [gen |-> Generation, part |-> c[2], off |-> pos[c]]
    BY <1>2
  <2>3. cur = [sys |-> cur.sys, cmd |-> cur.cmd, key |-> cur.key,
               payload |-> cur.payload, off |-> cur.off, rslt |-> cur.rslt]
    BY <1>1, StepFields DEF IsTodo, StepOK
  <2> HIDE DEF key, off, cur, step
  <2>4. step.off = off
    BY <2>1, <2>3
  <2> QED BY <2>2, <2>4
<1>7. step.off = Now(step.key)
  <2>1. c[2] = PartOf[step.key]
    BY <1>5 DEF Home
  <2> QED BY <1>5, <1>6, <2>1 DEF Now
<1> QED
  BY <1>1, <1>2, <1>3, <1>4, <1>5, <1>7

\* The records in memory are those of the start, and each is older than the
\* message about it that is read next.
StoreInv == DOMAIN store = Cached /\ \A k \in Cached : OffsetGT(Now(k), store[k].off)

Changed(c) ==
    LET old == store[Arrived(c).key].inst IN [old EXCEPT !.ops = Append(old.ops, Msg(c).id)]

Replaced(k, inst, off) ==
    /\ DOMAIN store' = DOMAIN store
    /\ store'[k] = [inst |-> inst, off |-> off]
    /\ \A j \in DOMAIN store : j # k => store'[j] = store[j]

\* The step of a client's transaction goes well ...
GoesOn(c, txn, inst) ==
    /\ ClientMsg(Msg(c)) /\ Finished(Msg(c), txn, Arrived(c), inst) /\ Follows(c, txn)
    /\ StoreOffsets(c)
    /\ UNCHANGED <<db, scnd, log, outcome, lost>>
    /\ \/ Arrived(c).cmd # "Change" /\ inst = Nil /\ store' = store
       \/ /\ Arrived(c).cmd = "Change" /\ inst = Changed(c) /\ inst \in Instances
          /\ Replaced(Arrived(c).key, inst, Arrived(c).off)

\* ... or it fails, or the transaction is cancelled.
EndsBadly(c, code) ==
    /\ ClientMsg(Msg(c)) /\ code # "OK" /\ MovesTo(c, {}, ReportSet(Msg(c), code))
    /\ StoreOffsets(c)
    /\ UNCHANGED <<store, db, scnd, log, outcome, lost>>
    /\ CurrentStep(Msg(c)).cmd # "Change" \/ Msg(c).id \in cancels[c]

\* A write reaches its target.
IsWritten(c) ==
    LET step == Msg(c).steps[1]
    IN /\ WriteMsg(Msg(c)) /\ MovesTo(c, {}, {}) /\ StoreOffsets(c) /\ c[1] # "PROCESS"
       /\ UNCHANGED <<store, log, outcome, lost>>
       /\ \/ /\ step.sys = "STORAGE" /\ scnd' = scnd
             /\ db' = DbUpdate(db, step.key, step.payload, step.off)
          \/ /\ step.sys = "STORAGE_SCND" /\ db' = db
             /\ scnd' = DbUpdate(scnd, step.key, step.payload, step.off)

\* The consumer exits, and will read the write again.
Retries == UNCHANGED <<store, db, scnd, log, out, pos, outcome, lost>>

\* A change is newer than what it changes.
LEMMA ChangeReplaces ==
    ASSUME Inv, InMemory, StoreInv, NEW c \in Consumers, Change(c), ClientMsg(Msg(c))
    PROVE  \E txn, inst : GoesOn(c, txn, inst)
<1> DEFINE step == Arrived(c)
           key == step.key
           off == step.off
           old == store[step.key].inst
           inst == Changed(c)
<1>0. inst = [old EXCEPT !.ops = Append(old.ops, Msg(c).id)]
  BY DEF Changed
<1>1. /\ Handles(c, "PROCESS", {"Change"})
      /\ store' = StoreSet(store, key, inst, off)
      /\ Finishes(c, NoKey, Nil, inst, <<>>)
      /\ UNCHANGED <<db, scnd, log, outcome, lost>>
  BY <1>0 DEF Change, outside
<1>2. /\ Ready(c) /\ key \in DOMAIN store /\ old \in Instances /\ StoreOffsets(c)
      /\ step.cmd = "Change" /\ Msg(c).id \in Txns
  BY <1>1, HandlesFacts, CheckedFacts
     DEF NeedsInstance, IsKeylessStep, IsInstanceStoreStep, Finishes
<1>3. off = Now(key) /\ key \in Cached
  BY <1>2, ClientArrived
<1> HIDE DEF old
<1>4. inst \in Instances
  <2>1. Append(old.ops, Msg(c).id) \in Seq(Txns)
    BY <1>2 DEF Instances
  <2> DEFINE ops == Append(old.ops, Msg(c).id)
  <2> HIDE DEF ops
  <2>2. [old EXCEPT !.ops = ops] \in Instances
    BY <1>2, <2>1 DEF Instances, ops
  <2> QED BY <1>0, <2>2 DEF ops
<1> HIDE DEF inst, step, key, off
<1>5. OffsetGT(off, store[key].off)
  BY <1>3 DEF StoreInv
<1>6. Replaced(key, inst, off)
  <2>1. PICK new : new = store'
    OBVIOUS
  <2>2. new = Put(store, key, [inst |-> inst, off |-> off])
    BY <1>1, <1>5, <2>1 DEF StoreSet
  <2>3. /\ DOMAIN new = DOMAIN store
        /\ new[key] = [inst |-> inst, off |-> off]
        /\ \A j \in DOMAIN store : j # key => new[j] = store[j]
    BY <1>2, <2>2 DEF Put
  <2> QED BY <2>1, <2>3 DEF Replaced
<1>7. PICK txn : Finished(Msg(c), txn, Arrived(c), inst) /\ Follows(c, txn)
  BY <1>1, <1>2, <1>4, ClientFinishes
<1> QED
  BY <1>1, <1>2, <1>4, <1>6, <1>7 DEF GoesOn, key, off, step, inst

LEMMA ClientKind ==
    ASSUME Inv, InMemory, StoreInv, NEW c \in Consumers, Ready(c), ClientMsg(Msg(c)), Consume(c)
    PROVE  (\E txn, inst : GoesOn(c, txn, inst)) \/ (\E code : EndsBadly(c, code))
<1>1. /\ c[1] = "PROCESS" /\ Arrived(c).key \in DOMAIN store /\ Arrived(c).key \in Keys
      /\ Arrived(c).cmd \in {"Read", "Change", "Query", "Reject", "UpdateAsync"}
      /\ CurrentStep(Msg(c)).cmd = Arrived(c).cmd
  BY ClientArrived DEF StoreInv
<1>2. RefuseCode(c) = "OK"
  BY <1>1, CheckedFacts, NilAssumption
<1>3. store[Arrived(c).key].inst \in Instances /\ Nil \in Instances \cup {Nil}
      /\ NoKey \in Keys \cup {NoKey}
  BY <1>1, InstanceThere
<1>4. ~ProcessForward(c) /\ ~RefreshInstance(c) /\ ~FlushInstance(c) /\ ~Validate(c)
  BY <1>1 DEF ProcessForward, RefreshInstance, FlushInstance, Validate, Handles
<1>5. ~CacheMiss(c) /\ ~RefuseStep(c)
  BY <1>1, <1>2 DEF CacheMiss, RefuseStep
<1>6. ~StorageCreate(c) /\ ~StorageRead(c) /\ ~StorageUpdate(c)
      /\ ~StorageDelete(c) /\ ~SecondaryStorage(c)
  BY <1>1 DEF StorageCreate, StorageRead, StorageUpdate, StorageDelete, SecondaryStorage, Handles
<1>7. ~StorageFails(c)
  BY <1>1 DEF StorageFails
<1>8. ASSUME Arrived(c).cmd # "Change", NEW payload \in Instances \cup {Nil},
             Finishes(c, NoKey, payload, Nil, <<>>),
             UNCHANGED <<outside, faults, committed, store, db, scnd, cancels>>
      PROVE  \E txn, inst : GoesOn(c, txn, inst)
  <2>1. log' = log /\ UNCHANGED <<db, scnd, outcome, lost>> /\ store' = store
    BY <1>8 DEF outside
  <2>2. PICK txn : Finished(Msg(c), txn, Arrived(c), Nil) /\ Follows(c, txn)
    BY <1>3, <1>8, <2>1, ClientFinishes
  <2>3. StoreOffsets(c)
    BY <1>8 DEF Finishes
  <2> QED BY <1>8, <2>1, <2>2, <2>3 DEF GoesOn
<1>9. CASE ProcessRead(c)
  <2>1. Arrived(c).cmd # "Change"
    BY <1>1, <1>9 DEF ProcessRead, Handles
  <2> QED BY <1>3, <1>8, <1>9, <2>1 DEF ProcessRead
<1>10. CASE Query(c)
  <2>1. Arrived(c).cmd # "Change"
    BY <1>1, <1>10 DEF Query, Handles
  <2> QED BY <1>3, <1>8, <1>10, <2>1 DEF Query
<1>11. CASE Change(c)
  BY <1>11, ChangeReplaces
<1>12. CASE Reject(c)
  <2>1. /\ CurrentStep(Msg(c)).cmd # "Change" /\ Fails(c, "INTERNAL")
        /\ UNCHANGED <<store, db, scnd, log, outcome, lost>>
    BY <1>12 DEF Reject, Handles, outside
  <2>2. "INTERNAL" \in Codes /\ "INTERNAL" # "OK"
    BY DEF Codes
  <2>3. MovesTo(c, {}, ReportSet(Msg(c), "INTERNAL")) /\ StoreOffsets(c)
    BY <2>1, <2>2, FailsMoves DEF Fails
  <2> QED BY <2>1, <2>2, <2>3 DEF EndsBadly
<1>13. CASE CancelTxn(c)
  <2>1. /\ Msg(c).id \in cancels[c] /\ Fails(c, "CANCELLED")
        /\ UNCHANGED <<store, db, scnd, log, outcome, lost>>
    BY <1>13 DEF CancelTxn, ShouldCancel, outside
  <2>2. "CANCELLED" \in Codes /\ "CANCELLED" # "OK"
    BY DEF Codes
  <2>3. MovesTo(c, {}, ReportSet(Msg(c), "CANCELLED")) /\ StoreOffsets(c)
    BY <2>1, <2>2, FailsMoves DEF Fails
  <2> QED BY <2>1, <2>2, <2>3 DEF EndsBadly
<1> QED
  BY <1>4, <1>5, <1>6, <1>7, <1>9, <1>10, <1>11, <1>12, <1>13 DEF Consume

LEMMA WriteKind ==
    ASSUME Inv, NEW c \in Consumers, Ready(c), WriteMsg(Msg(c)), Consume(c)
    PROVE  IsWritten(c) \/ Retries
<1> DEFINE step == Msg(c).steps[1]
<1>1. Msg(c).cur = 1 /\ CurrentStep(Msg(c)) = step
  <2>1. TxnOK(Msg(c)) /\ Msg(c).cur \in 1..Len(Msg(c).steps) /\ Len(Msg(c).steps) = 1
    BY ReadFacts, TxnFields DEF WriteMsg
  <2> QED BY <2>1 DEF CurrentStep
<1>2. /\ step.sys # "PROCESS" /\ step.cmd = "UpdateAsync" /\ step.key \in Keys
      /\ step.key # NoKey /\ Msg(c).upon = "BAILOUT"
  BY StoredAssumption, NilAssumption DEF WriteMsg
<1> HIDE DEF step
<1>3. /\ Arrived(c).cmd = "UpdateAsync" /\ Arrived(c).key = step.key /\ c[1] = step.sys
      /\ Arrived(c).payload = step.payload /\ Arrived(c).off = step.off /\ c[1] # "PROCESS"
  BY <1>1, <1>2, ArrivedTodo
<1>4. RefuseCode(c) = "OK" /\ Arrived(c).payload \in Instances
  BY <1>2, <1>3, CheckedFacts, ArrivedTodo DEF NeedsPayload
<1>5. /\ ~ProcessRead(c) /\ ~ProcessForward(c) /\ ~RefreshInstance(c) /\ ~FlushInstance(c)
      /\ ~Validate(c) /\ ~Change(c) /\ ~Query(c) /\ ~Reject(c)
  BY <1>3 DEF ProcessRead, ProcessForward, RefreshInstance, FlushInstance, Validate, Change,
              Query, Reject, Handles
<1>6. ~StorageCreate(c) /\ ~StorageRead(c) /\ ~StorageDelete(c)
  BY <1>1, <1>2 DEF StorageCreate, StorageRead, StorageDelete, Handles
<1>7. ~CacheMiss(c) /\ ~RefuseStep(c) /\ ~CancelTxn(c)
  <2>1. ~NeedsInstance(Arrived(c))
    BY <1>3, ArrivedTodo DEF NeedsInstance
  <2> QED BY <1>2, <1>4, <2>1 DEF CacheMiss, RefuseStep, CancelTxn, ShouldCancel
<1>8. CASE StorageUpdate(c)
  <2>1. /\ c[1] = "STORAGE" /\ db' = DbUpdate(db, step.key, step.payload, step.off)
        /\ scnd' = scnd /\ UNCHANGED <<store, log, outcome, lost>>
        /\ Finishes(c, NoKey, step.payload, Nil, <<>>)
    BY <1>3, <1>8 DEF StorageUpdate, Handles, outside
  <2>2. step.payload \in Instances \cup {Nil} /\ NoKey \in Keys \cup {NoKey}
    BY <1>3, <1>4
  <2>3. MovesTo(c, {}, {}) /\ StoreOffsets(c)
    BY <2>1, <2>2, WriteFinishes DEF Finishes
  <2> QED BY <1>3, <2>1, <2>3 DEF IsWritten, step
<1>9. CASE SecondaryStorage(c)
  <2>1. /\ c[1] = "STORAGE_SCND" /\ scnd' = DbUpdate(scnd, step.key, step.payload, step.off)
        /\ db' = db /\ UNCHANGED <<store, log, outcome, lost>>
        /\ Finishes(c, NoKey, Nil, Nil, <<>>)
    BY <1>3, <1>9 DEF SecondaryStorage, Handles, outside
  <2>2. Nil \in Instances \cup {Nil} /\ NoKey \in Keys \cup {NoKey}
    OBVIOUS
  <2>3. MovesTo(c, {}, {}) /\ StoreOffsets(c)
    BY <2>1, <2>2, WriteFinishes DEF Finishes
  <2> QED BY <1>3, <2>1, <2>3 DEF IsWritten, step
<1>10. CASE StorageFails(c)
  BY <1>2, <1>10 DEF StorageFails, outside, Retries
<1> QED
  BY <1>5, <1>6, <1>7, <1>8, <1>9, <1>10 DEF Consume

LEMMA ConsumeReads ==
    ASSUME NEW c, Consume(c)
    PROVE  Ready(c)
BY DEF Consume, ProcessRead, ProcessForward, RefreshInstance, FlushInstance, Validate, Change,
       Query, Reject, CacheMiss, StorageCreate, StorageRead, StorageUpdate, StorageDelete,
       SecondaryStorage, StorageFails, RefuseStep, CancelTxn, Handles, Reads

LEMMA ConsumeKind ==
    ASSUME Inv, InMemory, StoreInv, ShapeInv, NEW c \in Consumers, Consume(c)
    PROVE  /\ Ready(c) /\ Waits(Msg(c))
           /\ \/ \E txn, inst : GoesOn(c, txn, inst)
              \/ \E code : EndsBadly(c, code)
              \/ IsWritten(c)
              \/ Retries
<1>1. Ready(c)
  BY ConsumeReads
<1>2. Waits(Msg(c))
  BY <1>1, ReadWaits
<1>3. ClientMsg(Msg(c)) \/ WriteMsg(Msg(c))
  BY <1>2 DEF ShapeInv
<1> QED
  BY <1>1, <1>2, <1>3, ClientKind, WriteKind

-----------------------------------------------------------------------------
(* Every step, as it looks to the instances and to the messages *)

Idle ==
    /\ \A x : (Waits(x)' <=> Waits(x)) /\ (Told(x)' <=> Told(x))
    /\ UNCHANGED <<store, db, scnd, pos, outcome, lost>>

Arrives(t) ==
    /\ \A x : (Waits(x)' <=> Waits(x) \/ x = Submission(t)) /\ (Told(x)' <=> Told(x))
    /\ UNCHANGED <<store, db, scnd, pos, outcome, lost>>

Answers(msg) ==
    /\ Told(msg) /\ outcome' = [outcome EXCEPT ![msg.id] = Append(@, msg.code)]
    /\ \A x : /\ Waits(x)' <=> Waits(x)
              /\ Told(x)' => Told(x)
              /\ Told(x) => Told(x)' \/ x = msg
    /\ UNCHANGED <<store, db, scnd, pos, lost>>

Loses ==
    /\ \A x : (Waits(x)' => Waits(x)) /\ (Told(x)' => Told(x))
    /\ lost' # {}
    /\ UNCHANGED <<store, db, scnd, pos, outcome>>

Advances(c) ==
    /\ Ready(c) /\ Waits(Msg(c))
    /\ \/ \E txn, inst : GoesOn(c, txn, inst)
       \/ \E code : EndsBadly(c, code)
       \/ IsWritten(c)

MemoryStep ==
    \/ Idle
    \/ \E t \in Txns : Arrives(t)
    \/ \E msg : Answers(msg)
    \/ Loses
    \/ \E c \in Consumers : Advances(c)

LEMMA NothingMoves ==
    ASSUME UNCHANGED <<log, out, pos, store, db, scnd, outcome, lost>>
    PROVE  Idle
BY DEF Idle, Waits, Unread, Queued, Told

LEMMA NextKind ==
    ASSUME Inv, InMemory, StoreInv, ShapeInv, [Next]_vars
    PROVE  MemoryStep
<1>1. CASE UNCHANGED vars
  BY <1>1, NothingMoves DEF vars, MemoryStep
<1>2. ASSUME NEW t \in Txns, Submit(t) PROVE Arrives(t)
  <2>1. \A x : (Waits(x)' <=> Waits(x) \/ x = Submission(t)) /\ (Told(x)' <=> Told(x))
    BY <1>2, SubmitMoves
  <2>2. UNCHANGED <<store, db, scnd, pos, outcome, lost>>
    BY <1>2 DEF Submit
  <2> QED BY <2>1, <2>2 DEF Arrives
<1>3. ASSUME NEW c \in Consumers, Consume(c) PROVE Idle \/ Advances(c)
  <2>1. CASE Retries
    BY <2>1, NothingMoves DEF Retries
  <2> QED BY <1>3, <2>1, ConsumeKind DEF Advances
<1>4. ASSUME NEW c \in Consumers PROVE ~Commit(c) /\ ~Crash(c)
  <2>1. ~(crashes < MaxCrashes)
    BY DEF Inv, RestOK, InMemory
  <2> QED BY <2>1 DEF Commit, Crash
<1>5. ASSUME NEW c \in Consumers, NEW d \in Destinations, Deliver(c, d), d # Reports PROVE Idle
  <2>1. \A x : (Waits(x)' <=> Waits(x)) /\ (Told(x)' <=> Told(x)) /\ outcome' = outcome
    BY <1>5, DeliverMoves
  <2>2. UNCHANGED <<store, db, scnd, pos, lost>>
    BY <1>5 DEF Deliver
  <2> QED BY <2>1, <2>2 DEF Idle
<1>6. ASSUME NEW c \in Consumers, Deliver(c, Reports) PROVE \E msg : Answers(msg)
  <2>1. PICK msg : msg = Head(out[c][Reports])
    OBVIOUS
  <2>2. ASSUME NEW x
        PROVE  /\ Waits(x)' <=> Waits(x)
               /\ Told(x)' => Told(x)
               /\ Told(x) => Told(x)' \/ x = msg
               /\ Told(msg) /\ outcome' = [outcome EXCEPT ![msg.id] = Append(@, msg.code)]
    BY <1>6, <2>1, DeliverReportMoves
  <2>3. UNCHANGED <<store, db, scnd, pos, lost>>
    BY <1>6 DEF Deliver
  <2> QED BY <2>2, <2>3 DEF Answers
<1>7. ASSUME NEW c \in Consumers, NEW d \in Destinations, DeliveryFails(c, d) PROVE Loses
  <2>1. \A x : (Waits(x)' => Waits(x)) /\ (Told(x)' => Told(x)) /\ lost' # {}
    BY <1>7, DeliveryFailsMoves
  <2>2. UNCHANGED <<store, db, scnd, pos, outcome>>
    BY <1>7 DEF DeliveryFails
  <2> QED BY <2>1, <2>2 DEF Loses
<1>8. ASSUME NEW c \in Consumers, NEW t \in Txns, CancelDirective(c, t) PROVE Idle
  BY <1>8, NothingMoves DEF CancelDirective, outside
<1> QED
  BY <1>1, <1>2, <1>3, <1>4, <1>5, <1>6, <1>7, <1>8 DEF Next, MemoryStep

\* The transaction whose step went well.
LEMMA GoesOnFacts ==
    ASSUME Inv, InMemory, NEW c \in Consumers, Ready(c), NEW txn, NEW inst, GoesOn(c, txn, inst)
    PROVE  /\ ClientMsg(txn) /\ StepDone(txn) /\ txn.id \in Txns /\ txn.upon = "REPORT"
           /\ txn.id = Msg(c).id /\ txn.cur = Msg(c).cur
           /\ Len(txn.steps) \in Nat /\ DOMAIN txn.steps = 1..Len(txn.steps)
           /\ Len(txn.steps) = Len(Requests[txn.id])
           /\ txn.cur \in 1..Len(txn.steps)
           /\ \A i \in 1..Len(txn.steps) : i # txn.cur => txn.steps[i] = Msg(c).steps[i]
           /\ txn.steps[txn.cur].key = Arrived(c).key
           /\ txn.steps[txn.cur].off = Arrived(c).off
           /\ txn.steps[txn.cur].rslt.inst = inst
<1> DEFINE m == Msg(c)
           step == Arrived(c)
<1>1. Finished(m, txn, step, inst) /\ ClientMsg(m)
  BY DEF GoesOn
<1>2. /\ m.cur \in 1..Len(Requests[m.id]) /\ m.cur \in 1..Len(m.steps)
      /\ step.sys = "PROCESS" /\ step.key = Requests[m.id][m.cur].key
      /\ step.cmd = Requests[m.id][m.cur].cmd
  BY <1>1, ClientArrived
<1> HIDE DEF m, step
<1>3. /\ m.upon = "REPORT" /\ m.id \in Txns /\ Len(m.steps) = Len(Requests[m.id])
      /\ \A i \in 1..Len(m.steps) : Asked(m.steps[i], Requests[m.id][i])
  BY <1>1 DEF ClientMsg
<1>4. /\ StepDone(txn) /\ txn.id = m.id /\ txn.upon = m.upon /\ txn.cur = m.cur
      /\ txn.steps \in Seq(Steps) /\ Len(txn.steps) = Len(m.steps)
      /\ \A i \in 1..Len(m.steps) : i # m.cur => txn.steps[i] = m.steps[i]
      /\ txn.steps[m.cur].sys = step.sys /\ txn.steps[m.cur].cmd = step.cmd
      /\ txn.steps[m.cur].key = step.key /\ txn.steps[m.cur].off = step.off
      /\ txn.steps[m.cur].rslt.inst = inst
  BY <1>1 DEF Finished
<1>5. Len(txn.steps) \in Nat /\ DOMAIN txn.steps = 1..Len(txn.steps)
  BY <1>4, LenProperties
<1>6. ASSUME NEW i \in 1..Len(txn.steps) PROVE Asked(txn.steps[i], Requests[txn.id][i])
  <2>1. CASE i = m.cur
    BY ONLY <1>2, <1>3, <1>4, <2>1 DEF Asked
  <2>2. CASE i # m.cur
    <3>1. txn.steps[i] = m.steps[i]
      BY ONLY <1>4, <2>2, i \in 1..Len(txn.steps)
    <3> QED BY ONLY <1>3, <1>4, <3>1, i \in 1..Len(txn.steps)
  <2> QED BY <2>1, <2>2
<1>7. ClientMsg(txn)
  BY <1>3, <1>4, <1>6 DEF ClientMsg
<1> QED
  BY <1>2, <1>3, <1>4, <1>5, <1>7 DEF m, step

LEMMA NextClient ==
    ASSUME NEW txn, NEW n, ClientMsg(txn), NextOf(txn, n)
    PROVE  ClientMsg(n)
BY DEF ClientMsg, NextOf, Asked

\* The writes that a complete transaction makes.
LEMMA WriteFields ==
    ASSUME NEW txn, NEW x
    PROVE  x \in WritesOf(txn) <=>
             \E sys \in Targets : \E i \in UpdateSteps(txn) : x = UpdateAsyncTxn(txn, sys, i)
<1>1. ASSUME NEW sys \in Targets, NEW i \in UpdateSteps(txn), x = UpdateAsyncTxn(txn, sys, i)
      PROVE  x \in WritesOf(txn)
  <2> DEFINE y == <<sys, i>>
  <2>1. y \in Targets \X UpdateSteps(txn) /\ y[1] = sys /\ y[2] = i
    OBVIOUS
  <2> HIDE DEF y
  <2> QED BY <1>1, <2>1 DEF WritesOf
<1>2. ASSUME x \in WritesOf(txn)
      PROVE  \E sys \in Targets : \E i \in UpdateSteps(txn) : x = UpdateAsyncTxn(txn, sys, i)
  <2>1. PICK y \in Targets \X UpdateSteps(txn) : x = UpdateAsyncTxn(txn, y[1], y[2])
    BY <1>2 DEF WritesOf
  <2>2. y[1] \in Targets /\ y[2] \in UpdateSteps(txn)
    OBVIOUS
  <2> QED BY <2>1, <2>2
<1> QED
  BY <1>1, <1>2

LEMMA WriteIs ==
    ASSUME NEW txn, NEW sys, NEW i, NEW x, x = UpdateAsyncTxn(txn, sys, i)
    PROVE  /\ x.upon = "BAILOUT" /\ x.id = txn.id /\ x.cur = 1 /\ Len(x.steps) = 1
           /\ x.steps[1] = Step(sys, "UpdateAsync", txn.steps[i].key,
                                txn.steps[i].rslt.inst, txn.steps[i].off)
<1> DEFINE st == Step(sys, "UpdateAsync", txn.steps[i].key,
                      txn.steps[i].rslt.inst, txn.steps[i].off)
<1>1. x = [id |-> txn.id, upon |-> "BAILOUT", cur |-> 1, steps |-> <<st>>]
  BY DEF UpdateAsyncTxn, StorageTxn
<1> HIDE DEF st
<1>2. x.steps = <<st>> /\ x.upon = "BAILOUT" /\ x.id = txn.id /\ x.cur = 1
  BY <1>1
<1> QED
  BY <1>2 DEF st

\* A message that follows from it.
LEMMA FollowingShape ==
    ASSUME Inv, InMemory, NEW c \in Consumers, Ready(c), NEW txn, NEW inst, GoesOn(c, txn, inst),
           NEW x, Waits(x)', ~Waits(x)
    PROVE  \/ /\ txn.cur < Len(txn.steps) /\ NextOf(txn, x) /\ ClientMsg(x)
           \/ /\ txn.cur = Len(txn.steps) /\ WriteMsg(x)
              /\ \E sys \in Targets : \E i \in UpdateSteps(txn) : x = UpdateAsyncTxn(txn, sys, i)
<1>1. ClientMsg(txn) /\ DOMAIN txn.steps = 1..Len(txn.steps)
  BY GoesOnFacts
<1>2. CASE txn.cur < Len(txn.steps) /\ \E n : NextOf(txn, n) /\ MovesTo(c, {n}, {})
  <2>1. PICK n : NextOf(txn, n) /\ MovesTo(c, {n}, {})
    BY <1>2
  <2>2. x = n
    BY <2>1 DEF MovesTo
  <2> QED BY <1>1, <1>2, <2>1, <2>2, NextClient
<1>3. CASE txn.cur = Len(txn.steps) /\ MovesTo(c, WritesOf(txn), ReportSet(txn, "OK"))
  <2>1. x \in WritesOf(txn)
    BY <1>3 DEF MovesTo
  <2>2. PICK sys \in Targets, i \in UpdateSteps(txn) : x = UpdateAsyncTxn(txn, sys, i)
    BY <2>1, WriteFields
  <2>3. i \in 1..Len(txn.steps)
    BY <1>1 DEF UpdateSteps
  <2>4. txn.steps[i].key \in Cached
    <3>1. txn.id \in Txns /\ Asked(txn.steps[i], Requests[txn.id][i])
          /\ i \in 1..Len(Requests[txn.id])
      BY <1>1, <2>3 DEF ClientMsg
    <3>2. PICK t : t = txn.id
      OBVIOUS
    <3>3. Requests[t][i].key \in Cached
      BY <3>1, <3>2, RequestFacts
    <3> QED BY <3>1, <3>2, <3>3 DEF Asked
  <2>5. x.upon = "BAILOUT" /\ Len(x.steps) = 1
        /\ x.steps[1] = Step(sys, "UpdateAsync", txn.steps[i].key,
                             txn.steps[i].rslt.inst, txn.steps[i].off)
    BY <2>2, WriteIs
  <2>6. WriteMsg(x)
    BY <2>4, <2>5 DEF WriteMsg, Step, Targets
  <2> QED BY <1>3, <2>2, <2>6
<1> QED
  BY <1>2, <1>3 DEF GoesOn, Follows

-----------------------------------------------------------------------------
(* What is in memory, and what is on its way *)

\* How a step changes the records in memory.
LEMMA StoreStep ==
    ASSUME Inv, InMemory, StoreInv, MemoryStep
    PROVE  /\ \A b \in Consumers : pos'[b] \in Nat /\ pos[b] <= pos'[b]
           /\ \/ store' = store
              \/ \E c \in Consumers : \E txn, inst :
                    /\ Ready(c) /\ GoesOn(c, txn, inst) /\ Arrived(c).cmd = "Change"
                    /\ inst = Changed(c) /\ inst \in Instances
                    /\ Replaced(Arrived(c).key, inst, Arrived(c).off)
                    /\ pos'[c] = pos[c] + 1
<1>1. CASE pos' = pos /\ store' = store
  BY <1>1 DEF Inv, PositionsOK
<1>2. ASSUME NEW c \in Consumers, StoreOffsets(c), store' = store
      PROVE  \A b \in Consumers : pos'[b] \in Nat /\ pos[b] <= pos'[b]
  BY <1>2, ReadsOn
<1>3. ASSUME NEW c \in Consumers, Ready(c), NEW txn, NEW inst, GoesOn(c, txn, inst)
      PROVE  /\ \A b \in Consumers : pos'[b] \in Nat /\ pos[b] <= pos'[b]
             /\ \/ store' = store
                \/ /\ Arrived(c).cmd = "Change"
                   /\ inst = Changed(c) /\ inst \in Instances
                   /\ Replaced(Arrived(c).key, inst, Arrived(c).off)
                   /\ pos'[c] = pos[c] + 1
  BY <1>3, ReadsOn DEF GoesOn
<1>4. ASSUME NEW c \in Consumers, Advances(c)
      PROVE  (\E txn, inst : Ready(c) /\ GoesOn(c, txn, inst)) \/ (StoreOffsets(c) /\ store' = store)
  BY <1>4 DEF Advances, EndsBadly, IsWritten
<1>5. (pos' = pos /\ store' = store) \/ \E c \in Consumers : Advances(c)
  BY DEF MemoryStep, Idle, Arrives, Answers, Loses
<1> QED
  BY <1>1, <1>2, <1>3, <1>4, <1>5

LEMMA NowGrows ==
    ASSUME Inv, NEW k \in Keys, \A b \in Consumers : pos'[b] \in Nat /\ pos[b] <= pos'[b],
           NEW off \in CmpdOffsets, OffsetGT(Now(k), off)
    PROVE  OffsetGT(Now(k)', off)
<1>1. /\ pos[Home(k)] \in Nat /\ pos'[Home(k)] \in Nat /\ pos[Home(k)] <= pos'[Home(k)]
      /\ off.off \in Nat
  BY HomeConsumer DEF Inv, PositionsOK, CmpdOffsets
<1>2. /\ Now(k).gen = Now(k)'.gen /\ Now(k).part = Now(k)'.part
      /\ Now(k).off = pos[Home(k)] /\ Now(k)'.off = pos'[Home(k)]
  BY DEF Now, Home
<1> QED
  BY <1>1, <1>2 DEF OffsetGT

LEMMA NextStore ==
    ASSUME Inv, InMemory, StoreInv, MemoryStep
    PROVE  StoreInv'
<1>1. \A b \in Consumers : pos'[b] \in Nat /\ pos[b] <= pos'[b]
  BY StoreStep
<1>2. ASSUME NEW k \in Cached
      PROVE  k \in Keys /\ store[k].off \in CmpdOffsets /\ OffsetGT(Now(k)', store[k].off)
  <2>1. k \in Keys /\ store[k].off \in CmpdOffsets /\ OffsetGT(Now(k), store[k].off)
    BY InstanceThere DEF StoreInv
  <2> QED BY <1>1, <2>1, NowGrows
<1>3. CASE store' = store
  BY <1>2, <1>3 DEF StoreInv
<1>4. ASSUME NEW c \in Consumers, NEW txn, NEW inst, Ready(c), GoesOn(c, txn, inst),
             Replaced(Arrived(c).key, inst, Arrived(c).off), pos'[c] = pos[c] + 1
      PROVE  StoreInv'
  <2>1. PICK key, off : key = Arrived(c).key /\ off = Arrived(c).off
    OBVIOUS
  <2>2. key \in Cached /\ off = Now(key) /\ c = Home(key)
    BY <1>4, <2>1, ClientArrived DEF GoesOn
  <2>3. /\ DOMAIN store' = Cached /\ store'[key].off = off
        /\ \A j \in Cached : j # key => store'[j] = store[j]
    BY <1>4, <2>1 DEF Replaced, StoreInv
  <2>4. OffsetGT(Now(key)', off)
    <3>1. /\ Now(key).gen = Now(key)'.gen /\ Now(key).part = Now(key)'.part
          /\ Now(key).off = pos[c] /\ Now(key)'.off = pos[c] + 1 /\ pos[c] \in Nat
      BY <1>4, <2>2 DEF Now, Home, Inv, PositionsOK
    <3> QED BY <2>2, <3>1 DEF OffsetGT
  <2>5. ASSUME NEW k \in Cached PROVE OffsetGT(Now(k)', store'[k].off)
    BY <1>2, <2>3, <2>4
  <2> QED BY <2>3, <2>5 DEF StoreInv
<1> QED
  BY <1>3, <1>4, StoreStep

LEMMA NextShape ==
    ASSUME Inv, InMemory, StoreInv, ShapeInv, MemoryStep
    PROVE  ShapeInv'
<1> SUFFICES ASSUME NEW x, Waits(x)' PROVE ClientMsg(x) \/ WriteMsg(x)
  BY DEF ShapeInv
<1>1. CASE Waits(x)
  BY <1>1 DEF ShapeInv
<1>2. CASE ~Waits(x)
  <2>1. ASSUME NEW t \in Txns, Arrives(t) PROVE ClientMsg(x)
    <3>1. x = Submission(t)
      BY <1>2, <2>1 DEF Arrives
    <3> QED BY <3>1, SubmissionIs
  <2>2. ASSUME NEW c \in Consumers, Advances(c) PROVE ClientMsg(x) \/ WriteMsg(x)
    <3>1. Ready(c) /\ \E txn, inst : GoesOn(c, txn, inst)
      BY <1>2, <2>2 DEF Advances, EndsBadly, IsWritten, MovesTo
    <3>2. PICK txn, inst : GoesOn(c, txn, inst)
      BY <3>1
    <3> QED BY <1>2, <3>1, <3>2, FollowingShape
  <2> QED BY <1>2, <2>1, <2>2 DEF MemoryStep, Idle, Answers, Loses
<1> QED
  BY <1>1, <1>2

LEMMA NothingWaits ==
    ASSUME Init
    PROVE  \A x : ~Waits(x) /\ ~Told(x)
<1> SUFFICES ASSUME NEW x PROVE ~Waits(x) /\ ~Told(x)
  OBVIOUS
<1>1. \A c \in Consumers : pos[c] = 0 /\ log[c] = <<>>
  BY DEF Init
<1>2. \A c \in Consumers, d \in Destinations : out[c][d] = <<>>
  BY DEF Init
<1>3. ~Unread(x)
  BY <1>1 DEF Unread
<1>4. ~Queued(x) /\ ~Told(x)
  BY <1>2, InNone, ReportsApart DEF Queued, Told, Destinations
<1> QED
  BY <1>3, <1>4 DEF Waits

LEMMA InitMemory ==
    ASSUME Init
    PROVE  StoreInv /\ ShapeInv
<1>1. ShapeInv
  BY NothingWaits DEF ShapeInv
<1>2. DOMAIN store = Cached /\ \A k \in Cached : store[k].off = OldOffset(k)
  BY DEF Init
<1>3. ASSUME NEW k \in Cached PROVE OffsetGT(Now(k), OldOffset(k))
  BY DEF OffsetGT, Now, OldOffset, Generation
<1> QED
  BY <1>1, <1>2, <1>3 DEF StoreInv

LEMMA MemoryInvariance ==
    ASSUME InMemory
    PROVE  Spec => [](StoreInv /\ ShapeInv)
<1>1. Inv /\ (StoreInv /\ ShapeInv) /\ [Next]_vars => (StoreInv /\ ShapeInv)'
  BY NextKind, NextStore, NextShape
<1>2. Init => StoreInv /\ ShapeInv
  BY InitMemory
<1> QED
  BY <1>1, <1>2, Invariance, PTL DEF Spec

-----------------------------------------------------------------------------
(* A change that is reported has been made *)

CountIn(t, s) == Cardinality({i \in DOMAIN s : s[i] = t})

LEMMA CountAppend ==
    ASSUME NEW S, NEW s \in Seq(S), NEW e \in S, NEW t
    PROVE  /\ CountIn(t, s) \in Nat
           /\ CountIn(t, Append(s, e)) = IF e = t THEN CountIn(t, s) + 1 ELSE CountIn(t, s)
<1> DEFINE u == Append(s, e)
           n == Len(s)
           A == {i \in 1..n : s[i] = t}
           B == {i \in 1..(n + 1) : u[i] = t}
<1>1. /\ n \in Nat /\ DOMAIN s = 1..n /\ DOMAIN u = 1..(n + 1)
      /\ \A i \in 1..n : u[i] = s[i]
      /\ u[n + 1] = e
  BY LenProperties, AppendProperties
<1> HIDE DEF u, n
<1>2. IsFiniteSet(A) /\ n + 1 \notin A
  <2>1. IsFiniteSet(1..n)
    BY <1>1, FS_Interval
  <2>2. A \subseteq 1..n
    OBVIOUS
  <2>3. n + 1 \notin 1..n
    BY <1>1
  <2> HIDE DEF A
  <2> QED BY <2>1, <2>2, <2>3, FS_Subset
<1>3. B = IF e = t THEN A \cup {n + 1} ELSE A
  <2>1. ASSUME NEW i PROVE i \in 1..(n + 1) <=> i \in 1..n \/ i = n + 1
    BY <1>1
  <2>2. n + 1 \notin 1..n
    BY <1>1
  <2> QED BY <1>1, <2>1, <2>2
<1>4. CountIn(t, s) = Cardinality(A) /\ CountIn(t, u) = Cardinality(B)
  BY <1>1 DEF CountIn
<1> HIDE DEF A, B
<1>5. Cardinality(A) \in Nat /\ Cardinality(A \cup {n + 1}) = Cardinality(A) + 1
  BY <1>2, FS_CardinalityType, FS_AddElement
<1> QED
  BY <1>3, <1>4, <1>5 DEF u

\* How often t has changed k, and which of its steps before the nth one do.
Times(t, k) == CountIn(t, store[k].inst.ops)
Before(t, k, n) == {i \in ChangesOf(t, k) : i < n}

Applied(t, n) == \A k \in Cached : Times(t, k) >= Cardinality(Before(t, k, n))
AllApplied(t) == \A k \in Cached : Times(t, k) >= Cardinality(ChangesOf(t, k))

CountInv ==
    /\ \A m : Waits(m) /\ m.upon = "REPORT" => Applied(m.id, m.cur)
    /\ \A r : Told(r) /\ r.code = "OK" => AllApplied(r.id)
    /\ \A t \in Txns : (\E i \in 1..Len(outcome[t]) : outcome[t][i] = "OK") => AllApplied(t)

LEMMA ChangesFinite ==
    ASSUME NEW t \in Txns, NEW k
    PROVE  /\ \A n : IsFiniteSet(Before(t, k, n)) /\ Cardinality(Before(t, k, n)) \in Nat
           /\ IsFiniteSet(ChangesOf(t, k)) /\ Cardinality(ChangesOf(t, k)) \in Nat
           /\ ChangesOf(t, k) \subseteq 1..Len(Requests[t])
<1>1. ChangesOf(t, k) \subseteq 1..Len(Requests[t]) /\ Len(Requests[t]) \in Nat
  BY RequestList DEF ChangesOf
<1>2. IsFiniteSet(1..Len(Requests[t]))
  BY <1>1, FS_Interval
<1>3. IsFiniteSet(ChangesOf(t, k))
  BY <1>1, <1>2, FS_Subset
<1>4. ASSUME NEW n PROVE IsFiniteSet(Before(t, k, n)) /\ Cardinality(Before(t, k, n)) \in Nat
  <2>1. Before(t, k, n) \subseteq ChangesOf(t, k)
    BY DEF Before
  <2> QED BY <1>3, <2>1, FS_Subset, FS_CardinalityType
<1> QED
  BY <1>1, <1>3, <1>4, FS_CardinalityType

LEMMA BeforeNext ==
    ASSUME NEW t \in Txns, NEW k, NEW n \in 1..Len(Requests[t])
    PROVE  /\ Requests[t][n] = [cmd |-> "Change", key |-> k] =>
                 Cardinality(Before(t, k, n + 1)) = Cardinality(Before(t, k, n)) + 1
           /\ Requests[t][n] # [cmd |-> "Change", key |-> k] =>
                 Before(t, k, n + 1) = Before(t, k, n)
           /\ n = Len(Requests[t]) => Before(t, k, n + 1) = ChangesOf(t, k)
<1>1. Len(Requests[t]) \in Nat /\ DOMAIN Requests[t] = 1..Len(Requests[t])
  BY RequestList
<1>2. ChangesOf(t, k) \subseteq 1..Len(Requests[t])
  BY ChangesFinite
<1>3. ASSUME NEW i \in 1..Len(Requests[t]) PROVE i < n + 1 <=> i < n \/ i = n
  BY <1>1
<1>4. n \in ChangesOf(t, k) <=> Requests[t][n] = [cmd |-> "Change", key |-> k]
  BY <1>1 DEF ChangesOf
<1>5. ASSUME Requests[t][n] = [cmd |-> "Change", key |-> k]
      PROVE  Cardinality(Before(t, k, n + 1)) = Cardinality(Before(t, k, n)) + 1
  <2>1. Before(t, k, n + 1) = Before(t, k, n) \cup {n}
    BY <1>2, <1>3, <1>4, <1>5 DEF Before
  <2>2. n \notin Before(t, k, n)
    BY <1>1 DEF Before
  <2> QED BY <2>1, <2>2, ChangesFinite, FS_AddElement
<1>6. ASSUME Requests[t][n] # [cmd |-> "Change", key |-> k]
      PROVE  Before(t, k, n + 1) = Before(t, k, n)
  BY <1>2, <1>3, <1>4, <1>6 DEF Before
<1>7. ASSUME n = Len(Requests[t]) PROVE Before(t, k, n + 1) = ChangesOf(t, k)
  <2>1. \A i \in 1..Len(Requests[t]) : i < n + 1
    BY <1>1, <1>7
  <2> QED BY <1>2, <2>1 DEF Before
<1> QED
  BY <1>5, <1>6, <1>7

LEMMA OpsType ==
    ASSUME Inv, StoreInv, NEW k \in Cached
    PROVE  store[k].inst.ops \in Seq(Txns)
<1>1. store[k].inst \in Instances
  BY InstanceThere DEF StoreInv
<1> QED
  BY <1>1 DEF Instances

\* A change is added to what was done.
LEMMA ChangeAdds ==
    ASSUME Inv, InMemory, StoreInv, NEW c \in Consumers, NEW txn, NEW inst, Ready(c),
           GoesOn(c, txn, inst), Arrived(c).cmd = "Change", inst = Changed(c),
           Replaced(Arrived(c).key, inst, Arrived(c).off), NEW k \in Cached
    PROVE  store'[k].inst.ops = IF k = Arrived(c).key THEN Append(store[k].inst.ops, Msg(c).id)
                                ELSE store[k].inst.ops
<1>1. PICK key, off : key = Arrived(c).key /\ off = Arrived(c).off
  OBVIOUS
<1>2. PICK old : old = store[key].inst
  OBVIOUS
<1>3. key \in Cached /\ old \in Instances
  BY <1>1, <1>2, ClientArrived, InstanceThere DEF GoesOn, StoreInv
<1>4. inst = [old EXCEPT !.ops = Append(old.ops, Msg(c).id)]
  BY <1>1, <1>2 DEF Changed
<1>5. inst.ops = Append(old.ops, Msg(c).id)
  BY <1>3, <1>4 DEF Instances
<1>6. /\ store'[key].inst = inst
      /\ \A j \in Cached : j # key => store'[j] = store[j]
  BY <1>1 DEF Replaced, StoreInv
<1> QED
  BY <1>1, <1>2, <1>5, <1>6

LEMMA TimesGrow ==
    ASSUME Inv, InMemory, StoreInv, MemoryStep, NEW t, NEW k \in Cached
    PROVE  Times(t, k) \in Nat /\ Times(t, k)' \in Nat /\ Times(t, k)' >= Times(t, k)
<1> DEFINE s == store[k].inst.ops
<1>1. s \in Seq(Txns)
  BY OpsType
<1>2. ASSUME NEW e \in Txns
      PROVE  /\ CountIn(t, s) \in Nat
             /\ CountIn(t, Append(s, e)) = IF e = t THEN CountIn(t, s) + 1 ELSE CountIn(t, s)
  <2> HIDE DEF s
  <2> QED BY <1>1, CountAppend
<1>3. CountIn(t, s) \in Nat
  <2> DEFINE n == Len(s)
             A == {i \in 1..n : s[i] = t}
  <2>1. CountIn(t, s) = Cardinality(A) /\ n \in Nat
    BY <1>1, LenProperties DEF CountIn
  <2>2. IsFiniteSet(1..n)
    BY <2>1, FS_Interval
  <2>3. A \subseteq 1..n
    OBVIOUS
  <2> HIDE DEF A
  <2> QED BY <2>1, <2>2, <2>3, FS_Subset, FS_CardinalityType
<1>4. CASE store' = store
  BY <1>3, <1>4 DEF Times
<1>5. ASSUME NEW c \in Consumers, NEW txn, NEW inst, Ready(c),
             GoesOn(c, txn, inst), Arrived(c).cmd = "Change", inst = Changed(c),
             Replaced(Arrived(c).key, inst, Arrived(c).off)
      PROVE  Times(t, k)' \in Nat /\ Times(t, k)' >= Times(t, k)
  <2>1. store'[k].inst.ops = IF k = Arrived(c).key THEN Append(s, Msg(c).id) ELSE s
    BY <1>5, ChangeAdds
  <2>2. Msg(c).id \in Txns
    BY <1>5 DEF GoesOn, ClientMsg
  <2>3. PICK e \in Txns : e = Msg(c).id
    BY <2>2
  <2>4. Times(t, k)' = CountIn(t, store'[k].inst.ops) /\ Times(t, k) = CountIn(t, s)
    BY DEF Times
  <2> HIDE DEF s
  <2>5. CASE k = Arrived(c).key
    <3>1. Times(t, k)' = CountIn(t, Append(s, e))
      BY <2>1, <2>3, <2>4, <2>5
    <3> QED BY <1>2, <1>3, <2>4, <3>1
  <2>6. CASE k # Arrived(c).key
    BY <1>3, <2>1, <2>4, <2>6
  <2> QED BY <2>5, <2>6
<1> QED
  BY <1>3, <1>4, <1>5, StoreStep DEF Times

LEMMA AppliedKept ==
    ASSUME Inv, InMemory, StoreInv, MemoryStep, NEW t \in Txns
    PROVE  /\ \A n : Applied(t, n) => Applied(t, n)'
           /\ AllApplied(t) => AllApplied(t)'
<1>1. ASSUME NEW k \in Cached
      PROVE  Times(t, k) \in Nat /\ Times(t, k)' \in Nat /\ Times(t, k)' >= Times(t, k)
  BY TimesGrow
<1>2. ASSUME NEW k
      PROVE  /\ \A n : Cardinality(Before(t, k, n)) \in Nat
             /\ Cardinality(ChangesOf(t, k)) \in Nat
  BY ChangesFinite
<1>3. ASSUME NEW n, Applied(t, n) PROVE Applied(t, n)'
  <2>1. ASSUME NEW k \in Cached PROVE Times(t, k)' >= Cardinality(Before(t, k, n))
    <3>1. Times(t, k) >= Cardinality(Before(t, k, n))
      BY <1>3 DEF Applied
    <3> QED BY <1>1, <1>2, <3>1
  <2>2. \A k : Before(t, k, n)' = Before(t, k, n)
    BY DEF Before, ChangesOf
  <2> QED BY <2>1, <2>2 DEF Applied
<1>4. ASSUME AllApplied(t) PROVE AllApplied(t)'
  <2>1. ASSUME NEW k \in Cached PROVE Times(t, k)' >= Cardinality(ChangesOf(t, k))
    <3>1. Times(t, k) >= Cardinality(ChangesOf(t, k))
      BY <1>4 DEF AllApplied
    <3> QED BY <1>1, <1>2, <3>1
  <2>2. \A k : ChangesOf(t, k)' = ChangesOf(t, k)
    BY DEF ChangesOf
  <2> QED BY <2>1, <2>2 DEF AllApplied
<1> QED
  BY <1>3, <1>4

\* The step that went well is one of those that were applied.
LEMMA AppliedNext ==
    ASSUME Inv, InMemory, StoreInv, MemoryStep, NEW c \in Consumers, Ready(c), NEW txn, NEW inst,
           GoesOn(c, txn, inst), Applied(txn.id, txn.cur)
    PROVE  /\ Applied(txn.id, txn.cur + 1)'
           /\ txn.cur = Len(txn.steps) => AllApplied(txn.id)'
<1>1. PICK t, n : t = txn.id /\ n = txn.cur
  OBVIOUS
<1>2. /\ t \in Txns /\ n \in 1..Len(Requests[t]) /\ Len(txn.steps) = Len(Requests[t])
      /\ t = Msg(c).id /\ n = Msg(c).cur
  BY <1>1, GoesOnFacts
<1>3. /\ Arrived(c).key = Requests[t][n].key /\ Arrived(c).cmd = Requests[t][n].cmd
  BY <1>2, ClientArrived DEF GoesOn
<1>4. Requests[t][n] = [cmd |-> Requests[t][n].cmd, key |-> Requests[t][n].key]
  BY <1>2, RequestFacts
<1>5. ASSUME NEW k \in Cached PROVE Times(t, k)' >= Cardinality(Before(t, k, n + 1))
  <2>1. /\ Times(t, k) \in Nat /\ Times(t, k)' \in Nat /\ Times(t, k)' >= Times(t, k)
        /\ Cardinality(Before(t, k, n)) \in Nat
    BY <1>2, TimesGrow, ChangesFinite
  <2>2. Times(t, k) >= Cardinality(Before(t, k, n))
    BY <1>1 DEF Applied
  <2>3. CASE Requests[t][n] = [cmd |-> "Change", key |-> k]
    <3>1. Arrived(c).cmd = "Change" /\ Arrived(c).key = k
      BY <1>3, <2>3
    <3>2. inst = Changed(c) /\ Replaced(Arrived(c).key, inst, Arrived(c).off)
      BY <3>1 DEF GoesOn
    <3>3. store'[k].inst.ops = Append(store[k].inst.ops, t)
      BY <1>2, <3>1, <3>2, ChangeAdds
    <3>4. PICK s : s = store[k].inst.ops
      OBVIOUS
    <3>5. s \in Seq(Txns)
      BY <3>4, OpsType
    <3>6. CountIn(t, Append(s, t)) = CountIn(t, s) + 1
      BY <1>2, <3>5, CountAppend
    <3>7. Times(t, k)' = Times(t, k) + 1
      BY <3>3, <3>4, <3>6 DEF Times
    <3>8. Cardinality(Before(t, k, n + 1)) = Cardinality(Before(t, k, n)) + 1
      BY <1>2, <2>3, BeforeNext
    <3> QED BY <2>1, <2>2, <3>7, <3>8
  <2>4. CASE Requests[t][n] # [cmd |-> "Change", key |-> k]
    <3>1. Before(t, k, n + 1) = Before(t, k, n)
      BY <1>2, <2>4, BeforeNext
    <3> QED BY <2>1, <2>2, <3>1
  <2> QED BY <2>3, <2>4
<1>6. ASSUME txn.cur = Len(txn.steps), NEW k \in Cached
      PROVE  Times(t, k)' >= Cardinality(ChangesOf(t, k))
  <2>1. Before(t, k, n + 1) = ChangesOf(t, k)
    BY <1>1, <1>2, <1>6, BeforeNext
  <2> QED BY <1>5, <2>1
<1>7. Applied(t, n + 1)'
  BY <1>5 DEF Applied, Before, ChangesOf
<1>8. txn.cur = Len(txn.steps) => AllApplied(t)'
  BY <1>6 DEF AllApplied, ChangesOf
<1> QED
  BY <1>1, <1>7, <1>8

LEMMA NextCount ==
    ASSUME Inv, InMemory, StoreInv, ShapeInv, CountInv, MemoryStep
    PROVE  CountInv'
<1>1. ASSUME NEW m, Waits(m)', m.upon = "REPORT" PROVE Applied(m.id, m.cur)'
  <2>1. CASE Waits(m)
    <3>1. PICK t, n : t = m.id /\ n = m.cur
      OBVIOUS
    <3>2. t \in Txns /\ Applied(t, n)
      BY <1>1, <2>1, <3>1, WaitingOK, TxnFields DEF CountInv
    <3>3. Applied(t, n)'
      BY <3>2, AppliedKept
    <3> QED BY <3>1, <3>3
  <2>2. CASE ~Waits(m)
    <3>1. ASSUME NEW t \in Txns, Arrives(t) PROVE Applied(m.id, m.cur)'
      <4>1. m.cur = 1 /\ m.id = t
        BY <2>2, <1>1, <3>1, SubmissionIs DEF Arrives
      <4>2. ASSUME NEW k PROVE Cardinality(Before(t, k, 1)) = 0
        <5>1. Len(Requests[t]) \in Nat /\ ChangesOf(t, k) \subseteq 1..Len(Requests[t])
          BY RequestList, ChangesFinite
        <5>2. \A i \in 1..Len(Requests[t]) : ~(i < 1)
          BY <5>1
        <5>3. Before(t, k, 1) = {}
          BY <5>1, <5>2 DEF Before
        <5> QED BY <5>3, FS_EmptySet
      <4>3. ASSUME NEW k \in Cached PROVE Times(t, k)' \in Nat
        BY TimesGrow
      <4>4. ASSUME NEW k \in Cached PROVE Times(t, k)' >= Cardinality(Before(t, k, 1))
        BY <4>2, <4>3
      <4>5. Applied(t, 1)'
        BY <4>4 DEF Applied, Before, ChangesOf
      <4> QED BY <4>1, <4>5
    <3>2. ASSUME NEW c \in Consumers, Advances(c) PROVE Applied(m.id, m.cur)'
      <4>1. Ready(c) /\ Waits(Msg(c)) /\ \E txn, inst : GoesOn(c, txn, inst)
        BY <1>1, <2>2, <3>2 DEF Advances, EndsBadly, IsWritten, MovesTo
      <4>2. PICK txn, inst : GoesOn(c, txn, inst)
        BY <4>1
      <4>3. NextOf(txn, m)
        BY <1>1, <2>2, <4>1, <4>2, FollowingShape DEF WriteMsg
      <4>4. Applied(txn.id, txn.cur)
        BY <4>1, <4>2, GoesOnFacts DEF CountInv, GoesOn, ClientMsg
      <4>5. PICK t, n : t = txn.id /\ n = txn.cur + 1
        OBVIOUS
      <4>6. Applied(t, n)'
        BY <4>1, <4>2, <4>4, <4>5, AppliedNext
      <4>7. m.id = t /\ m.cur = n
        BY <4>3, <4>5 DEF NextOf
      <4> QED BY <4>6, <4>7
    <3> QED BY <1>1, <2>2, <3>1, <3>2 DEF MemoryStep, Idle, Answers, Loses
  <2> QED BY <2>1, <2>2
<1>2. ASSUME NEW r, Told(r)', r.code = "OK" PROVE AllApplied(r.id)'
  <2>1. CASE Told(r)
    <3>1. PICK t : t = r.id
      OBVIOUS
    <3>2. t \in Txns /\ AllApplied(t)
      BY <1>2, <2>1, <3>1, ToldOK DEF CountInv
    <3>3. AllApplied(t)'
      BY <3>2, AppliedKept
    <3> QED BY <3>1, <3>3
  <2>2. CASE ~Told(r)
    <3>1. PICK c \in Consumers : Advances(c)
      BY <1>2, <2>2 DEF MemoryStep, Idle, Arrives, Answers, Loses
    <3>2. ASSUME NEW code, EndsBadly(c, code) PROVE FALSE
      BY <1>2, <2>2, <3>2 DEF EndsBadly, MovesTo, ReportSet
    <3>3. Ready(c) /\ Waits(Msg(c)) /\ \E txn, inst : GoesOn(c, txn, inst)
      BY <1>2, <2>2, <3>1, <3>2 DEF Advances, IsWritten, MovesTo
    <3>4. PICK txn, inst : GoesOn(c, txn, inst)
      BY <3>3
    <3>5. txn.cur = Len(txn.steps) /\ r \in ReportSet(txn, "OK")
      BY <1>2, <2>2, <3>4 DEF GoesOn, Follows, MovesTo
    <3>6. r.id = txn.id
      BY <3>5 DEF ReportSet
    <3>7. Applied(txn.id, txn.cur)
      BY <3>3, <3>4, GoesOnFacts DEF CountInv, GoesOn, ClientMsg
    <3>8. PICK t : t = txn.id
      OBVIOUS
    <3>9. AllApplied(t)'
      BY <3>3, <3>4, <3>5, <3>7, <3>8, AppliedNext
    <3> QED BY <3>6, <3>8, <3>9
  <2> QED BY <2>1, <2>2
<1>3. ASSUME NEW t \in Txns, NEW i \in 1..Len(outcome'[t]), outcome'[t][i] = "OK"
      PROVE  AllApplied(t)'
  <2>1. outcome \in [Txns -> Seq(Codes)]
    BY DEF Inv, RestOK
  <2>2. AllApplied(t)
    <3>1. CASE outcome' = outcome
      BY <1>3, <3>1 DEF CountInv
    <3>2. ASSUME NEW msg, Answers(msg) PROVE AllApplied(t)
      <4>1. Told(msg) /\ outcome' = [outcome EXCEPT ![msg.id] = Append(@, msg.code)]
        BY <3>2 DEF Answers
      <4>2. msg.id \in Txns /\ msg.code \in Codes
        BY <4>1, ToldOK
      <4>3. CASE t # msg.id
        <5>1. outcome'[t] = outcome[t]
          BY <2>1, <4>1, <4>3
        <5> QED BY <1>3, <5>1 DEF CountInv
      <4>4. CASE t = msg.id
        <5>1. outcome'[t] = Append(outcome[t], msg.code)
          BY <2>1, <4>1, <4>2, <4>4
        <5>2. PICK s, e : s = outcome[t] /\ e = msg.code
          OBVIOUS
        <5>3. s \in Seq(Codes) /\ e \in Codes
          BY <2>1, <4>2, <5>2
        <5>4. InSeq("OK", Append(s, e))
          BY <1>3, <5>1, <5>2 DEF InSeq
        <5>5. InSeq("OK", s) \/ e = "OK"
          BY <5>3, <5>4, InAppend
        <5> QED BY <4>1, <4>4, <5>2, <5>5 DEF CountInv, InSeq
      <4> QED BY <4>3, <4>4
    <3> QED BY <3>1, <3>2
          DEF MemoryStep, Idle, Arrives, Loses, Advances, GoesOn, EndsBadly, IsWritten
  <2> QED BY <2>2, AppliedKept
<1> QED
  BY <1>1, <1>2, <1>3 DEF CountInv

LEMMA InitCount ==
    ASSUME Init
    PROVE  CountInv
<1>1. \A t \in Txns : outcome[t] = <<>>
  BY DEF Init
<1> QED
  BY <1>1, NothingWaits DEF CountInv

\* A change that is reported as complete is in the instance as often as the
\* transaction asked for it, for any number of transactions, partitions and
\* instances, whatever fails, is cancelled or is lost meanwhile.  It is promised
\* of instances that are in memory and consumers that do not restart: after a
\* restart the store is filled from storage, which may be behind.
THEOREM ReportedIsApplied ==
    ASSUME InMemory
    PROVE  Spec => []NoLostUpdate
<1>1. Inv /\ (StoreInv /\ ShapeInv) /\ CountInv /\ [Next]_vars => CountInv'
  BY NextKind, NextCount
<1>2. Init => CountInv
  BY InitCount
<1>3. Inv /\ (StoreInv /\ ShapeInv) /\ CountInv => NoLostUpdate
  <2> SUFFICES ASSUME Inv, StoreInv, CountInv, NEW t \in Txns, NEW k \in Keys,
                      outcome[t] = <<"OK">>, k \in DOMAIN store
               PROVE  Times(t, k) >= Cardinality(ChangesOf(t, k))
    BY DEF NoLostUpdate, Times, CountIn
  <2>1. 1 \in 1..Len(outcome[t]) /\ outcome[t][1] = "OK" /\ k \in Cached
    BY DEF StoreInv
  <2> QED BY <2>1 DEF CountInv, AllApplied
<1> QED
  BY <1>1, <1>2, <1>3, Invariance, MemoryInvariance, PTL DEF Spec

-----------------------------------------------------------------------------
(* Nothing is ahead of memory *)

\* A version of the instance k is what is in memory, or older.
NotAhead(k, inst, off) ==
    /\ off \in CmpdOffsets
    /\ OffsetGT(store[k].off, off) \/ (off = store[k].off /\ inst = store[k].inst)

RowsInv(rows) == \A k \in Cached : k \in DOMAIN rows => NotAhead(k, rows[k].inst, rows[k].off)

\* A step that was done and has changed its instance.
DoneInv(step) == step.rslt.inst # Nil => NotAhead(step.key, step.rslt.inst, step.off)

AheadInv ==
    /\ RowsInv(db) /\ RowsInv(scnd)
    /\ \A m : Waits(m) /\ m.upon = "BAILOUT" =>
          NotAhead(m.steps[1].key, m.steps[1].payload, m.steps[1].off)
    /\ \A m : Waits(m) /\ m.upon = "REPORT" => \A i \in 1..(m.cur - 1) : DoneInv(m.steps[i])

LEMMA NotAheadKept ==
    ASSUME Inv, InMemory, StoreInv, MemoryStep, NEW k \in Cached, NEW inst, NEW off,
           NotAhead(k, inst, off)
    PROVE  NotAhead(k, inst, off)'
<1>1. CASE store' = store
  BY <1>1 DEF NotAhead
<1>2. ASSUME NEW c \in Consumers, NEW txn, NEW new, Ready(c), GoesOn(c, txn, new),
             Replaced(Arrived(c).key, new, Arrived(c).off)
      PROVE  NotAhead(k, inst, off)'
  <2>1. PICK key, now : key = Arrived(c).key /\ now = Arrived(c).off
    OBVIOUS
  <2>2. key \in Cached /\ now = Now(key) /\ key \in Keys
    BY <1>2, <2>1, ClientArrived DEF GoesOn
  <2>3. /\ store'[key].off = now
        /\ \A j \in Cached : j # key => store'[j] = store[j]
    BY <1>2, <2>1 DEF Replaced, StoreInv
  <2>4. CASE k = key
    <3>1. /\ OffsetGT(now, store[k].off) /\ now \in CmpdOffsets
          /\ store[k].off \in CmpdOffsets /\ off \in CmpdOffsets
      BY <2>2, <2>4, NowType, InstanceThere DEF StoreInv, NotAhead
    <3>2. OffsetGT(now, off)
      BY <3>1, OffsetOrder DEF NotAhead
    <3> QED BY <2>3, <2>4, <3>1, <3>2 DEF NotAhead
  <2>5. CASE k # key
    <3>1. store'[k] = store[k]
      BY <2>3, <2>5
    <3> QED BY <3>1 DEF NotAhead
  <2> QED BY <2>4, <2>5
<1> QED
  BY <1>1, <1>2, StoreStep

\* A write that is not ahead: a row is what it was or what is written, and is
\* what is in memory if one of the two is.
LEMMA RowWritten ==
    ASSUME NEW rows, IsMapTo(rows, Keys, InstanceRecord(Instances)), RowsInv(rows), StoreInv, Inv,
           NEW key \in Cached, NEW inst, NEW off, NotAhead(key, inst, off),
           NEW new, new = DbUpdate(rows, key, inst, off)
    PROVE  /\ RowsInv(new)
           /\ \A k \in Cached : k \in DOMAIN rows /\ rows[k] = store[k] =>
                                    k \in DOMAIN new /\ new[k] = store[k]
           /\ inst = store[key].inst /\ off = store[key].off =>
                 key \in DOMAIN new /\ new[key] = store[key]
<1>1. ASSUME NEW k \in Cached
      PROVE  /\ store[k].off \in CmpdOffsets
             /\ store[k] = [inst |-> store[k].inst, off |-> store[k].off]
  BY InstanceThere DEF StoreInv, Inv, MapsOK, IsMapTo, InstanceRecord
<1>2. ASSUME NEW k \in DOMAIN rows
      PROVE  /\ rows[k].off \in CmpdOffsets
             /\ rows[k] = [inst |-> rows[k].inst, off |-> rows[k].off]
  BY DEF IsMapTo, InstanceRecord
<1>3. off \in CmpdOffsets
  BY DEF NotAhead
<1>4. CASE key \in DOMAIN rows /\ ~OffsetGT(off, rows[key].off)
  <2>1. new = rows
    BY <1>4 DEF DbUpdate
  <2>2. ASSUME inst = store[key].inst, off = store[key].off PROVE rows[key] = store[key]
    <3>1. NotAhead(key, rows[key].inst, rows[key].off)
      BY <1>4 DEF RowsInv
    <3>2. rows[key].off = store[key].off /\ rows[key].inst = store[key].inst
      BY <1>4, <2>2, <3>1 DEF NotAhead
    <3> QED BY <1>1, <1>2, <1>4, <3>2
  <2> QED BY <1>4, <2>1, <2>2
<1>5. CASE ~(key \in DOMAIN rows /\ ~OffsetGT(off, rows[key].off))
  <2> DEFINE rec == [inst |-> inst, off |-> off]
  <2>1. new = Put(rows, key, rec)
    BY <1>5 DEF DbUpdate
  <2>2. rec.inst = inst /\ rec.off = off
    OBVIOUS
  <2>3. (inst = store[key].inst /\ off = store[key].off) => rec = store[key]
    BY <1>1
  <2> HIDE DEF rec
  <2>4. /\ DOMAIN new = DOMAIN rows \cup {key} /\ new[key] = rec
        /\ \A k \in DOMAIN rows : k # key => new[k] = rows[k]
    BY <2>1 DEF Put
  <2>5. RowsInv(new)
    <3> SUFFICES ASSUME NEW k \in Cached, k \in DOMAIN new
                 PROVE  NotAhead(k, new[k].inst, new[k].off)
      BY DEF RowsInv
    <3>1. CASE k = key
      BY <2>2, <2>4, <3>1
    <3>2. CASE k # key
      BY <2>4, <3>2 DEF RowsInv
    <3> QED BY <3>1, <3>2
  <2>6. ASSUME NEW k \in Cached, k \in DOMAIN rows, rows[k] = store[k]
        PROVE  k \in DOMAIN new /\ new[k] = store[k]
    <3>1. CASE k = key
      <4>1. OffsetGT(off, store[key].off) /\ store[key].off \in CmpdOffsets
        BY <1>1, <1>5, <2>6, <3>1
      <4>2. FALSE
        BY <1>3, <4>1, OffsetOrder DEF NotAhead
      <4> QED BY <4>2
    <3>2. CASE k # key
      BY <2>4, <2>6, <3>2
    <3> QED BY <3>1, <3>2
  <2> QED BY <2>3, <2>4, <2>5, <2>6
<1> QED
  BY <1>4, <1>5

LEMMA RowsKept ==
    ASSUME Inv, InMemory, StoreInv, MemoryStep, NEW rows, RowsInv(rows)
    PROVE  \A k \in Cached : k \in DOMAIN rows => NotAhead(k, rows[k].inst, rows[k].off)'
<1> SUFFICES ASSUME NEW k \in Cached, k \in DOMAIN rows
             PROVE  NotAhead(k, rows[k].inst, rows[k].off)'
  OBVIOUS
<1>1. PICK inst, off : inst = rows[k].inst /\ off = rows[k].off
  OBVIOUS
<1>2. NotAhead(k, inst, off)
  BY <1>1 DEF RowsInv
<1>3. NotAhead(k, inst, off)'
  BY <1>2, NotAheadKept
<1> QED
  BY <1>1, <1>3

\* The write that is read.
LEMMA WriteRead ==
    ASSUME Inv, ShapeInv, AheadInv, NEW m, Waits(m), WriteMsg(m)
    PROVE  /\ m.steps[1].key \in Cached
           /\ NotAhead(m.steps[1].key, m.steps[1].payload, m.steps[1].off)
BY DEF WriteMsg, AheadInv

\* The rows after a step.
LEMMA NextRows ==
    ASSUME Inv, InMemory, StoreInv, ShapeInv, AheadInv, MemoryStep
    PROVE  RowsInv(db)' /\ RowsInv(scnd)'
<1>1. CASE db' = db /\ scnd' = scnd
  <2>1. PICK a, b : a = db /\ b = scnd
    OBVIOUS
  <2>2. /\ \A k \in Cached : k \in DOMAIN a => NotAhead(k, a[k].inst, a[k].off)'
        /\ \A k \in Cached : k \in DOMAIN b => NotAhead(k, b[k].inst, b[k].off)'
    BY <2>1, RowsKept DEF AheadInv
  <2> QED BY <1>1, <2>1, <2>2 DEF RowsInv
<1>2. ASSUME NEW c \in Consumers, Ready(c), Waits(Msg(c)), IsWritten(c)
      PROVE  RowsInv(db)' /\ RowsInv(scnd)'
  <2>1. PICK step : step = Msg(c).steps[1]
    OBVIOUS
  <2>2. step.key \in Cached /\ NotAhead(step.key, step.payload, step.off)
    BY <1>2, <2>1, WriteRead DEF IsWritten
  <2>3. PICK a, b : a = db' /\ b = scnd'
    OBVIOUS
  <2>4. a = db \/ a = DbUpdate(db, step.key, step.payload, step.off)
    BY <1>2, <2>1, <2>3 DEF IsWritten
  <2>5. b = scnd \/ b = DbUpdate(scnd, step.key, step.payload, step.off)
    BY <1>2, <2>1, <2>3 DEF IsWritten
  <2>6. RowsInv(a) /\ RowsInv(b)
    BY <2>2, <2>4, <2>5, RowWritten DEF AheadInv, Inv, MapsOK
  <2>7. store' = store
    BY <1>2 DEF IsWritten
  <2> QED BY <2>3, <2>6, <2>7 DEF RowsInv, NotAhead
<1> QED
  BY <1>1, <1>2
  DEF MemoryStep, Idle, Arrives, Answers, Loses, Advances, GoesOn, EndsBadly

\* The key of each step of a client's transaction.
LEMMA ClientKey ==
    ASSUME InMemory, NEW m, ClientMsg(m), NEW i \in 1..Len(m.steps)
    PROVE  m.steps[i].key \in Cached
<1>1. m.id \in Txns /\ Asked(m.steps[i], Requests[m.id][i]) /\ i \in 1..Len(Requests[m.id])
  BY DEF ClientMsg
<1>2. PICK t : t = m.id
  OBVIOUS
<1>3. Requests[t][i].key \in Cached
  BY <1>1, <1>2, RequestFacts
<1> QED
  BY <1>1, <1>2, <1>3 DEF Asked

\* The steps that are done when a step went well.
LEMMA DoneNext ==
    ASSUME Inv, InMemory, StoreInv, AheadInv, MemoryStep, NEW c \in Consumers, Ready(c),
           Waits(Msg(c)), NEW txn, NEW inst, GoesOn(c, txn, inst), NEW i \in 1..txn.cur
    PROVE  DoneInv(txn.steps[i])'
<1>1. /\ ClientMsg(txn) /\ txn.cur = Msg(c).cur /\ Len(txn.steps) \in Nat
      /\ txn.cur \in 1..Len(txn.steps)
      /\ \A j \in 1..Len(txn.steps) : j # txn.cur => txn.steps[j] = Msg(c).steps[j]
      /\ txn.steps[txn.cur].key = Arrived(c).key
      /\ txn.steps[txn.cur].off = Arrived(c).off
      /\ txn.steps[txn.cur].rslt.inst = inst
  BY GoesOnFacts
<1>2. i \in 1..Len(txn.steps)
  BY <1>1
<1>3. txn.steps[i].key \in Cached
  BY <1>1, <1>2, ClientKey
<1>4. PICK step : step = txn.steps[i]
  OBVIOUS
<1> SUFFICES ASSUME step.rslt.inst # Nil PROVE NotAhead(step.key, step.rslt.inst, step.off)'
  BY <1>4 DEF DoneInv
<1>5. CASE i # txn.cur
  <2>1. step = Msg(c).steps[i] /\ i \in 1..(Msg(c).cur - 1)
    BY <1>1, <1>2, <1>4, <1>5
  <2>2. Msg(c).upon = "REPORT"
    BY DEF GoesOn, ClientMsg
  <2>3. DoneInv(step)
    BY <2>1, <2>2 DEF AheadInv
  <2>4. PICK k, new, off : k = step.key /\ new = step.rslt.inst /\ off = step.off
    OBVIOUS
  <2>5. NotAhead(k, new, off) /\ k \in Cached
    BY <1>3, <1>4, <2>3, <2>4 DEF DoneInv
  <2>6. NotAhead(k, new, off)'
    BY <2>5, NotAheadKept
  <2> QED BY <2>4, <2>6
<1>6. CASE i = txn.cur
  <2>1. step.key = Arrived(c).key /\ step.off = Arrived(c).off /\ step.rslt.inst = inst
    BY <1>1, <1>4, <1>6
  <2>2. Replaced(Arrived(c).key, inst, Arrived(c).off)
    BY <2>1 DEF GoesOn
  <2>3. PICK k, off : k = step.key /\ off = step.off
    OBVIOUS
  <2>4. store'[k].inst = inst /\ store'[k].off = off
    BY <2>1, <2>2, <2>3 DEF Replaced
  <2>5. off \in CmpdOffsets
    BY <2>1, <2>3, CheckedFacts
  <2>6. NotAhead(k, inst, off)'
    BY <2>4, <2>5 DEF NotAhead
  <2> QED BY <2>1, <2>3, <2>6
<1> QED
  BY <1>5, <1>6

LEMMA NextAhead ==
    ASSUME Inv, InMemory, StoreInv, ShapeInv, AheadInv, MemoryStep
    PROVE  AheadInv'
<1>1. ASSUME NEW m, Waits(m)', m.upon = "BAILOUT"
      PROVE  NotAhead(m.steps[1].key, m.steps[1].payload, m.steps[1].off)'
  <2>1. PICK step : step = m.steps[1]
    OBVIOUS
  <2>2. CASE Waits(m)
    <3>1. WriteMsg(m)
      BY <1>1, <2>2 DEF ShapeInv, ClientMsg
    <3>2. PICK k, inst, off : k = step.key /\ inst = step.payload /\ off = step.off
      OBVIOUS
    <3>3. k \in Cached /\ NotAhead(k, inst, off)
      BY <2>1, <2>2, <3>1, <3>2, WriteRead
    <3>4. NotAhead(k, inst, off)'
      BY <3>3, NotAheadKept
    <3> QED BY <2>1, <3>2, <3>4
  <2>3. CASE ~Waits(m)
    <3>1. ASSUME NEW t \in Txns, Arrives(t) PROVE FALSE
      <4>1. m = Submission(t)
        BY <1>1, <2>3, <3>1 DEF Arrives
      <4> QED BY <1>1, <4>1, SubmissionIs DEF ClientMsg
    <3>2. PICK c \in Consumers : Advances(c)
      BY <1>1, <2>3, <3>1 DEF MemoryStep, Idle, Answers, Loses
    <3>3. Ready(c) /\ Waits(Msg(c)) /\ \E txn, inst : GoesOn(c, txn, inst)
      BY <1>1, <2>3, <3>2 DEF Advances, EndsBadly, IsWritten, MovesTo
    <3>4. PICK txn, inst : GoesOn(c, txn, inst)
      BY <3>3
    <3>5. /\ txn.cur = Len(txn.steps)
          /\ \E sys \in Targets : \E i \in UpdateSteps(txn) : m = UpdateAsyncTxn(txn, sys, i)
      BY <1>1, <2>3, <3>3, <3>4, FollowingShape DEF ClientMsg
    <3>6. PICK sys \in Targets, i \in UpdateSteps(txn) : m = UpdateAsyncTxn(txn, sys, i)
      BY <3>5
    <3>7. i \in 1..txn.cur /\ txn.steps[i].rslt.inst # Nil
      BY <3>3, <3>4, <3>5, GoesOnFacts DEF UpdateSteps
    <3>8. m.steps[1] = Step(sys, "UpdateAsync", txn.steps[i].key,
                            txn.steps[i].rslt.inst, txn.steps[i].off)
      BY <3>6, WriteIs
    <3>9. PICK k, new, off : /\ k = txn.steps[i].key /\ new = txn.steps[i].rslt.inst
                             /\ off = txn.steps[i].off
      OBVIOUS
    <3>10. step.key = k /\ step.payload = new /\ step.off = off
      BY <2>1, <3>8, <3>9 DEF Step
    <3>11. PICK done : done = txn.steps[i]
      OBVIOUS
    <3>12. DoneInv(done)'
      BY <3>3, <3>4, <3>7, <3>11, DoneNext
    <3>13. NotAhead(k, new, off)'
      BY <3>7, <3>9, <3>11, <3>12 DEF DoneInv
    <3> QED BY <2>1, <3>10, <3>13
  <2> QED BY <2>2, <2>3
<1>2. ASSUME NEW m, Waits(m)', m.upon = "REPORT", NEW i \in 1..(m.cur - 1)
      PROVE  DoneInv(m.steps[i])'
  <2>1. PICK step : step = m.steps[i]
    OBVIOUS
  <2>2. CASE Waits(m)
    <3>1. ClientMsg(m) /\ DoneInv(step)
      BY <1>2, <2>1, <2>2 DEF ShapeInv, WriteMsg, AheadInv
    <3>2. i \in 1..Len(m.steps)
      BY <1>2, <2>2, WaitingOK, TxnFields
    <3>3. step.key \in Cached
      BY <2>1, <3>1, <3>2, ClientKey
    <3>4. PICK k, new, off : k = step.key /\ new = step.rslt.inst /\ off = step.off
      OBVIOUS
    <3>5. new # Nil => NotAhead(k, new, off)'
      BY <3>1, <3>3, <3>4, NotAheadKept DEF DoneInv
    <3> QED BY <2>1, <3>4, <3>5 DEF DoneInv
  <2>3. CASE ~Waits(m)
    <3>1. ASSUME NEW t \in Txns, Arrives(t) PROVE FALSE
      <4>1. m.cur = 1
        BY <1>2, <2>3, <3>1, SubmissionIs DEF Arrives
      <4> QED BY <1>2, <4>1
    <3>2. PICK c \in Consumers : Advances(c)
      BY <1>2, <2>3, <3>1 DEF MemoryStep, Idle, Answers, Loses
    <3>3. Ready(c) /\ Waits(Msg(c)) /\ \E txn, inst : GoesOn(c, txn, inst)
      BY <1>2, <2>3, <3>2 DEF Advances, EndsBadly, IsWritten, MovesTo
    <3>4. PICK txn, inst : GoesOn(c, txn, inst)
      BY <3>3
    <3>5. NextOf(txn, m)
      BY <1>2, <2>3, <3>3, <3>4, FollowingShape DEF WriteMsg
    <3>6. txn.cur \in 1..Len(txn.steps) /\ Len(txn.steps) \in Nat
      BY <3>3, <3>4, GoesOnFacts
    <3>7. m.cur = txn.cur + 1
      BY <3>5 DEF NextOf
    <3>8. i \in 1..txn.cur /\ i \in 1..Len(txn.steps) /\ i <= txn.cur
      BY <1>2, <3>6, <3>7
    <3>9. step = txn.steps[i]
      BY <2>1, <3>5, <3>8 DEF NextOf
    <3>10. DoneInv(step)'
      BY <3>3, <3>4, <3>8, <3>9, DoneNext
    <3> QED BY <2>1, <3>10
  <2> QED BY <2>2, <2>3
<1> QED
  BY <1>1, <1>2, NextRows DEF AheadInv

LEMMA InitAhead ==
    ASSUME Init
    PROVE  AheadInv
<1>1. \A k \in Cached : store[k] = [inst |-> NewInstance(k), off |-> OldOffset(k)]
  BY DEF Init
<1>2. /\ \A k \in DOMAIN db : db[k] = [inst |-> NewInstance(k), off |-> OldOffset(k)]
      /\ scnd = db
  BY DEF Init
<1>3. ASSUME NEW k \in Cached PROVE OldOffset(k) \in CmpdOffsets
  BY HomeConsumer, StoredAssumption DEF OldOffset, CmpdOffsets
<1>4. RowsInv(db) /\ RowsInv(scnd)
  BY <1>1, <1>2, <1>3 DEF RowsInv, NotAhead
<1> QED
  BY <1>4, NothingWaits DEF AheadInv

-----------------------------------------------------------------------------
(* Storage catches up *)

\* One of the first steps of m made the version of k that is in memory, and is
\* the last of them to change k.
Holds(m, last, k) ==
    \E i \in 1..last :
        /\ m.steps[i].key = k
        /\ m.steps[i].off = store[k].off /\ m.steps[i].rslt.inst = store[k].inst
        /\ \A j \in (i + 1)..last : m.steps[j].key = k => m.steps[j].rslt.inst = Nil

\* The version of k that is in memory is carried by a client's transaction, or
\* is in each target or in a write that is on its way there.
Carries(m, k) == m.upon = "REPORT" /\ Holds(m, m.cur - 1, k)

Brings(m, sys, k) ==
    m.upon = "BAILOUT" /\ m.steps[1] = Step(sys, "UpdateAsync", k, store[k].inst, store[k].off)

Has(rows, sys, k) ==
    \/ k \in DOMAIN rows /\ rows[k] = store[k]
    \/ \E m : Waits(m) /\ Brings(m, sys, k)

Carried(k) ==
    \/ \E m : Waits(m) /\ Carries(m, k)
    \/ Has(db, "STORAGE", k) /\ Has(scnd, "STORAGE_SCND", k)

\* A message was lost, or a transaction has failed.
Failed ==
    \/ lost # {}
    \/ \E r : Told(r) /\ r.code # "OK"
    \/ \E t \in Txns : \E i \in 1..Len(outcome[t]) : outcome[t][i] # "OK"

CarriedInv == Failed \/ \A k \in Cached : Carried(k)

LEMMA FailedKept ==
    ASSUME Inv, MemoryStep, Failed
    PROVE  Failed'
<1>1. CASE Loses
  BY <1>1 DEF Loses, Failed
<1>2. CASE outcome' = outcome /\ lost' = lost /\ \A r : Told(r) => Told(r)'
  BY <1>2 DEF Failed
<1>3. ASSUME NEW msg, Answers(msg) PROVE Failed'
  <2>1. /\ Told(msg) /\ outcome' = [outcome EXCEPT ![msg.id] = Append(@, msg.code)]
        /\ lost' = lost /\ \A r : Told(r) => Told(r)' \/ r = msg
    BY <1>3 DEF Answers
  <2>2. outcome \in [Txns -> Seq(Codes)] /\ msg.id \in Txns /\ msg.code \in Codes
    BY <2>1, ToldOK DEF Inv, RestOK
  <2>3. ASSUME NEW t \in Txns, NEW code, InSeq(code, outcome[t]) PROVE InSeq(code, outcome'[t])
    <3>1. PICK s, e : s = outcome[t] /\ e = msg.code
      OBVIOUS
    <3>2. s \in Seq(Codes) /\ e \in Codes /\ InSeq(code, s)
      BY <2>2, <2>3, <3>1
    <3>3. InSeq(code, Append(s, e))
      BY <3>2, InAppend
    <3>4. outcome'[t] = Append(s, e) \/ outcome'[t] = s
      BY <2>1, <2>2, <3>1
    <3> QED BY <3>2, <3>3, <3>4
  <2>4. InSeq(msg.code, outcome'[msg.id])
    <3>1. PICK s, e : s = outcome[msg.id] /\ e = msg.code
      OBVIOUS
    <3>2. s \in Seq(Codes) /\ e \in Codes
      BY <2>2, <3>1
    <3>3. outcome'[msg.id] = Append(s, e)
      BY <2>1, <2>2, <3>1
    <3>4. InSeq(e, Append(s, e))
      BY <3>2, InAppend
    <3> QED BY <3>1, <3>3, <3>4
  <2>5. ASSUME NEW t \in Txns, NEW code, InSeq(code, outcome'[t]), code # "OK" PROVE Failed'
    BY <2>5 DEF Failed, InSeq
  <2>6. CASE lost # {}
    BY <2>1, <2>6 DEF Failed
  <2>7. CASE \E r : Told(r) /\ r.code # "OK"
    <3>1. PICK r : Told(r) /\ r.code # "OK"
      BY <2>7
    <3>2. CASE Told(r)'
      BY <3>1, <3>2 DEF Failed
    <3>3. CASE r = msg
      BY <2>2, <2>4, <2>5, <3>1, <3>3
    <3> QED BY <2>1, <3>1, <3>2, <3>3
  <2>8. CASE \E t \in Txns : \E i \in 1..Len(outcome[t]) : outcome[t][i] # "OK"
    <3>1. PICK t \in Txns : \E i \in 1..Len(outcome[t]) : outcome[t][i] # "OK"
      BY <2>8
    <3>2. PICK code : code # "OK" /\ InSeq(code, outcome[t])
      BY <3>1 DEF InSeq
    <3> QED BY <2>3, <2>5, <3>2
  <2> QED BY <2>6, <2>7, <2>8 DEF Failed
<1>4. ASSUME NEW c \in Consumers, Advances(c)
      PROVE  outcome' = outcome /\ lost' = lost /\ \A r : Told(r) => Told(r)'
  BY <1>4 DEF Advances, GoesOn, EndsBadly, IsWritten, Follows, MovesTo
<1>5. CASE Idle
  BY <1>2, <1>5 DEF Idle
<1>6. ASSUME NEW t \in Txns, Arrives(t) PROVE Failed'
  BY <1>2, <1>6 DEF Arrives
<1> QED
  BY <1>1, <1>2, <1>3, <1>4, <1>5, <1>6 DEF MemoryStep

LEMMA FollowsKeeps ==
    ASSUME NEW c, NEW txn, Follows(c, txn), NEW x, Waits(x), x # Msg(c)
    PROVE  Waits(x)'
BY DEF Follows, MovesTo

\* What the transaction holds when its step is done, it carries on, or writes.
LEMMA HoldsFollows ==
    ASSUME Inv, InMemory, NEW c \in Consumers, Ready(c), NEW txn, NEW inst, GoesOn(c, txn, inst),
           NEW k \in Cached, store'[k].inst # Nil, Holds(txn, txn.cur, k)'
    PROVE  Carried(k)'
<1>1. /\ ClientMsg(txn) /\ txn.upon = "REPORT" /\ Len(txn.steps) \in Nat
      /\ txn.cur \in 1..Len(txn.steps) /\ DOMAIN txn.steps = 1..Len(txn.steps)
  BY GoesOnFacts
<1>2. PICK i \in 1..txn.cur :
        /\ txn.steps[i].key = k
        /\ txn.steps[i].off = store'[k].off /\ txn.steps[i].rslt.inst = store'[k].inst
        /\ \A j \in (i + 1)..txn.cur : txn.steps[j].key = k => txn.steps[j].rslt.inst = Nil
  BY DEF Holds
<1>3. i \in 1..Len(txn.steps)
  BY <1>1
<1>4. CASE txn.cur < Len(txn.steps) /\ \E n : NextOf(txn, n) /\ MovesTo(c, {n}, {})
  <2>1. PICK n : NextOf(txn, n) /\ MovesTo(c, {n}, {})
    BY <1>4
  <2>2. Waits(n)'
    BY <2>1 DEF MovesTo
  <2>3. n.upon = "REPORT" /\ n.cur - 1 = txn.cur
    BY <1>1, <2>1 DEF NextOf
  <2>4. ASSUME NEW j \in 1..txn.cur PROVE n.steps[j] = txn.steps[j]
    <3>1. j \in 1..Len(txn.steps) /\ j <= txn.cur
      BY <1>1
    <3> QED BY <2>1, <3>1 DEF NextOf
  <2>5. \A j \in (i + 1)..txn.cur : j \in 1..txn.cur
    BY <1>1
  <2>6. Holds(n, txn.cur, k)'
    BY <1>2, <2>4, <2>5 DEF Holds
  <2>7. Carries(n, k)'
    BY <2>3, <2>6 DEF Carries
  <2> QED BY <2>2, <2>7 DEF Carried
<1>5. CASE txn.cur = Len(txn.steps) /\ MovesTo(c, WritesOf(txn), ReportSet(txn, "OK"))
  <2>1. \A j \in 1..Len(txn.steps) : txn.steps[j].sys = "PROCESS"
    BY <1>1 DEF ClientMsg, Asked
  <2>2. i \in UpdateSteps(txn)
    <3>1. \A j \in (i + 1)..Len(txn.steps) : j \in 1..Len(txn.steps)
      BY <1>1
    <3> QED BY <1>1, <1>2, <1>3, <1>5, <2>1, <3>1 DEF UpdateSteps
  <2>3. ASSUME NEW sys \in Targets PROVE \E m : Waits(m)' /\ Brings(m, sys, k)'
    <3>1. PICK m : m = UpdateAsyncTxn(txn, sys, i)
      OBVIOUS
    <3>2. m \in WritesOf(txn)
      BY <2>2, <3>1, WriteFields
    <3>3. Waits(m)'
      BY <1>5, <3>2 DEF MovesTo
    <3>4. m.upon = "BAILOUT" /\ m.steps[1] = Step(sys, "UpdateAsync", txn.steps[i].key,
                                                  txn.steps[i].rslt.inst, txn.steps[i].off)
      BY <3>1, WriteIs
    <3>5. Brings(m, sys, k)'
      BY <1>2, <3>4 DEF Brings, Step
    <3> QED BY <3>3, <3>5
  <2>4. Has(db, "STORAGE", k)' /\ Has(scnd, "STORAGE_SCND", k)'
    BY <2>3 DEF Has, Targets
  <2> QED BY <2>4 DEF Carried
<1> QED
  BY <1>4, <1>5 DEF GoesOn, Follows

LEMMA GoesOnCarried ==
    ASSUME Inv, InMemory, StoreInv, NEW c \in Consumers, Ready(c), NEW txn, NEW inst,
           GoesOn(c, txn, inst), NEW k \in Cached, Carried(k)
    PROVE  Carried(k)'
<1>1. /\ txn.cur = Msg(c).cur /\ Len(txn.steps) \in Nat
      /\ txn.cur \in 1..Len(txn.steps)
      /\ \A j \in 1..Len(txn.steps) : j # txn.cur => txn.steps[j] = Msg(c).steps[j]
      /\ txn.steps[txn.cur].key = Arrived(c).key
      /\ txn.steps[txn.cur].off = Arrived(c).off
      /\ txn.steps[txn.cur].rslt.inst = inst
  BY GoesOnFacts
<1>2. /\ store[k].inst # Nil /\ Follows(c, txn) /\ db' = db /\ scnd' = scnd
      /\ Msg(c).upon = "REPORT"
  <2>1. store[k].inst \in Instances
    BY InstanceThere DEF StoreInv
  <2> QED BY <2>1, NilAssumption DEF GoesOn, ClientMsg
<1>3. CASE Arrived(c).cmd = "Change" /\ k = Arrived(c).key
  <2>1. /\ inst \in Instances /\ store'[k].inst = inst /\ store'[k].off = Arrived(c).off
    BY <1>3 DEF GoesOn, Replaced
  <2>2. txn.cur \in 1..txn.cur /\ (txn.cur + 1)..txn.cur = {}
    BY <1>1
  <2>3. Holds(txn, txn.cur, k)'
    BY <1>1, <1>3, <2>1, <2>2 DEF Holds
  <2> QED BY <2>1, <2>3, NilAssumption, HoldsFollows
<1>4. CASE ~(Arrived(c).cmd = "Change" /\ k = Arrived(c).key)
  <2>1. store'[k] = store[k] /\ (inst = Nil \/ k # Arrived(c).key)
    BY <1>4 DEF GoesOn, Replaced, StoreInv
  <2>2. CASE \E m : Waits(m) /\ Carries(m, k)
    <3>1. PICK m : Waits(m) /\ Carries(m, k)
      BY <2>2
    <3>2. CASE m # Msg(c)
      <4>1. Waits(m)'
        BY <1>2, <3>1, <3>2, FollowsKeeps
      <4>2. Carries(m, k)'
        BY <2>1, <3>1 DEF Carries, Holds
      <4> QED BY <4>1, <4>2 DEF Carried
    <3>3. CASE m = Msg(c)
      <4>1. PICK last : last = m.cur - 1
        OBVIOUS
      <4>2. PICK i \in 1..last :
              /\ m.steps[i].key = k
              /\ m.steps[i].off = store[k].off /\ m.steps[i].rslt.inst = store[k].inst
              /\ \A j \in (i + 1)..last : m.steps[j].key = k => m.steps[j].rslt.inst = Nil
        BY <3>1, <4>1 DEF Carries, Holds
      <4>3. last = txn.cur - 1 /\ i \in 1..txn.cur /\ i # txn.cur /\ i \in 1..Len(txn.steps)
        BY <1>1, <3>3, <4>1
      <4>4. ASSUME NEW j \in (i + 1)..txn.cur, txn.steps[j].key = k
            PROVE  txn.steps[j].rslt.inst = Nil
        <5>1. CASE j = txn.cur
          BY <1>1, <2>1, <4>4, <5>1
        <5>2. CASE j # txn.cur
          <6>1. j \in (i + 1)..last /\ j \in 1..Len(txn.steps)
            BY <1>1, <4>3, <5>2
          <6>2. txn.steps[j] = m.steps[j]
            BY <1>1, <3>3, <5>2, <6>1
          <6> QED BY <4>2, <4>4, <6>1, <6>2
        <5> QED BY <5>1, <5>2
      <4>5. txn.steps[i] = m.steps[i]
        BY <1>1, <3>3, <4>3
      <4>6. Holds(txn, txn.cur, k)'
        BY <2>1, <4>2, <4>3, <4>4, <4>5 DEF Holds
      <4> QED BY <1>2, <2>1, <4>6, HoldsFollows
    <3> QED BY <3>2, <3>3
  <2>3. ASSUME NEW rows, NEW sys, Has(rows, sys, k)
        PROVE  \/ k \in DOMAIN rows /\ rows[k] = store[k]
               \/ \E m : Waits(m)' /\ Brings(m, sys, k)
    <3>1. CASE \E m : Waits(m) /\ Brings(m, sys, k)
      <4>1. PICK m : Waits(m) /\ Brings(m, sys, k)
        BY <3>1
      <4>2. m # Msg(c)
        BY <1>2, <4>1 DEF Brings
      <4> QED BY <1>2, <4>1, <4>2, FollowsKeeps
    <3> QED BY <2>3, <3>1 DEF Has
  <2>4. \A m, sys : Brings(m, sys, k)' <=> Brings(m, sys, k)
    BY <2>1 DEF Brings
  <2>5. CASE Has(db, "STORAGE", k) /\ Has(scnd, "STORAGE_SCND", k)
    <3>1. Has(db, "STORAGE", k)'
      BY <1>2, <2>1, <2>3, <2>4, <2>5 DEF Has
    <3>2. Has(scnd, "STORAGE_SCND", k)'
      BY <1>2, <2>1, <2>3, <2>4, <2>5 DEF Has
    <3> QED BY <3>1, <3>2 DEF Carried
  <2> QED BY <2>2, <2>5 DEF Carried
<1> QED
  BY <1>3, <1>4

LEMMA WrittenCarried ==
    ASSUME Inv, InMemory, StoreInv, ShapeInv, AheadInv, NEW c \in Consumers, Waits(Msg(c)),
           IsWritten(c), NEW k \in Cached, Carried(k)
    PROVE  Carried(k)'
<1>1. PICK step : step = Msg(c).steps[1]
  OBVIOUS
<1>2. /\ Msg(c).upon = "BAILOUT" /\ store' = store
      /\ \A x : Waits(x) /\ x # Msg(c) => Waits(x)'
  BY DEF IsWritten, WriteMsg, MovesTo
<1>3. step.key \in Cached /\ NotAhead(step.key, step.payload, step.off)
  BY <1>1, WriteRead DEF IsWritten
<1>4. ASSUME NEW rows, IsMapTo(rows, Keys, InstanceRecord(Instances)), RowsInv(rows), NEW new, NEW sys,
             \/ new = rows /\ step.sys # sys
             \/ new = DbUpdate(rows, step.key, step.payload, step.off),
             Has(rows, sys, k)
      PROVE  \/ k \in DOMAIN new /\ new[k] = store[k]
             \/ \E m : Waits(m)' /\ Brings(m, sys, k)
  <2>1. CASE k \in DOMAIN rows /\ rows[k] = store[k]
    BY <1>3, <1>4, <2>1, RowWritten
  <2>2. ASSUME NEW m, Waits(m), Brings(m, sys, k), m # Msg(c)
        PROVE  \E x : Waits(x)' /\ Brings(x, sys, k)
    BY <1>2, <2>2
  <2>3. ASSUME Brings(Msg(c), sys, k) PROVE k \in DOMAIN new /\ new[k] = store[k]
    <3>1. step = Step(sys, "UpdateAsync", k, store[k].inst, store[k].off)
      BY <1>1, <2>3 DEF Brings
    <3>2. /\ step.sys = sys /\ step.key = k
          /\ step.payload = store[k].inst /\ step.off = store[k].off
      BY <3>1 DEF Step
    <3>3. new = DbUpdate(rows, step.key, step.payload, step.off)
      BY <1>4, <3>2
    <3> QED BY <1>3, <1>4, <3>2, <3>3, RowWritten
  <2> QED BY <1>4, <2>1, <2>2, <2>3 DEF Has
<1>5. /\ \/ db' = db /\ step.sys # "STORAGE"
         \/ db' = DbUpdate(db, step.key, step.payload, step.off)
      /\ \/ scnd' = scnd /\ step.sys # "STORAGE_SCND"
         \/ scnd' = DbUpdate(scnd, step.key, step.payload, step.off)
  BY <1>1 DEF IsWritten
<1>6. \A m, sys : Brings(m, sys, k)' <=> Brings(m, sys, k)
  BY <1>2 DEF Brings
<1>7. CASE \E m : Waits(m) /\ Carries(m, k)
  <2>1. PICK m : Waits(m) /\ Carries(m, k)
    BY <1>7
  <2>2. Waits(m)'
    BY <1>2, <2>1 DEF Carries
  <2>3. Carries(m, k)'
    BY <1>2, <2>1 DEF Carries, Holds
  <2> QED BY <2>2, <2>3 DEF Carried
<1>8. CASE Has(db, "STORAGE", k) /\ Has(scnd, "STORAGE_SCND", k)
  <2>1. PICK a, b : a = db' /\ b = scnd'
    OBVIOUS
  <2>2. \/ k \in DOMAIN a /\ a[k] = store[k]
        \/ \E m : Waits(m)' /\ Brings(m, "STORAGE", k)
    BY <1>4, <1>5, <1>8, <2>1 DEF AheadInv, Inv, MapsOK
  <2>3. \/ k \in DOMAIN b /\ b[k] = store[k]
        \/ \E m : Waits(m)' /\ Brings(m, "STORAGE_SCND", k)
    BY <1>4, <1>5, <1>8, <2>1 DEF AheadInv, Inv, MapsOK
  <2>4. Has(db, "STORAGE", k)' /\ Has(scnd, "STORAGE_SCND", k)'
    BY <1>2, <1>6, <2>1, <2>2, <2>3 DEF Has
  <2> QED BY <2>4 DEF Carried
<1> QED
  BY <1>7, <1>8 DEF Carried

LEMMA CarriedSame ==
    ASSUME store' = store, db' = db, scnd' = scnd, \A x : Waits(x) => Waits(x)', NEW k, Carried(k)
    PROVE  Carried(k)'
<1>1. CASE \E m : Waits(m) /\ Carries(m, k)
  BY <1>1 DEF Carried, Carries, Holds
<1>2. CASE Has(db, "STORAGE", k) /\ Has(scnd, "STORAGE_SCND", k)
  <2>1. Has(db, "STORAGE", k)'
    BY <1>2 DEF Has, Brings
  <2>2. Has(scnd, "STORAGE_SCND", k)'
    BY <1>2 DEF Has, Brings
  <2> QED BY <2>1, <2>2 DEF Carried
<1> QED
  BY <1>1, <1>2 DEF Carried

LEMMA NextCarried ==
    ASSUME Inv, InMemory, StoreInv, ShapeInv, AheadInv, CarriedInv, MemoryStep
    PROVE  CarriedInv'
<1>1. CASE Failed
  BY <1>1, FailedKept DEF CarriedInv
<1>2. CASE \A k \in Cached : Carried(k)
  <2>1. CASE store' = store /\ db' = db /\ scnd' = scnd /\ \A x : Waits(x) => Waits(x)'
    BY <1>2, <2>1, CarriedSame DEF CarriedInv
  <2>2. CASE Loses
    BY <2>2 DEF Loses, CarriedInv, Failed
  <2>3. ASSUME NEW c \in Consumers, Ready(c), NEW txn, NEW inst, GoesOn(c, txn, inst)
        PROVE  CarriedInv'
    BY <1>2, <2>3, GoesOnCarried DEF CarriedInv
  <2>4. ASSUME NEW c \in Consumers, NEW code, EndsBadly(c, code) PROVE CarriedInv'
    <3>1. PICK r : r = [id |-> Msg(c).id, code |-> code]
      OBVIOUS
    <3>2. r \in ReportSet(Msg(c), code) /\ r.code # "OK"
      BY <2>4, <3>1 DEF EndsBadly, ClientMsg, ReportSet
    <3>3. Told(r)'
      BY <2>4, <3>2 DEF EndsBadly, MovesTo
    <3> QED BY <3>2, <3>3 DEF CarriedInv, Failed
  <2>5. ASSUME NEW c \in Consumers, Waits(Msg(c)), IsWritten(c) PROVE CarriedInv'
    BY <1>2, <2>5, WrittenCarried DEF CarriedInv
  <2>6. ASSUME NEW c \in Consumers, Advances(c) PROVE CarriedInv'
    BY <2>3, <2>4, <2>5, <2>6 DEF Advances
  <2>7. ASSUME Idle PROVE CarriedInv'
    BY <2>1, <2>7 DEF Idle
  <2>8. ASSUME NEW t \in Txns, Arrives(t) PROVE CarriedInv'
    BY <2>1, <2>8 DEF Arrives
  <2>9. ASSUME NEW msg, Answers(msg) PROVE CarriedInv'
    BY <2>1, <2>9 DEF Answers
  <2> QED BY <2>2, <2>6, <2>7, <2>8, <2>9 DEF MemoryStep
<1> QED
  BY <1>1, <1>2 DEF CarriedInv

LEMMA InitCarried ==
    ASSUME Init, Cached \subseteq Stored
    PROVE  CarriedInv
<1>1. ASSUME NEW k \in Cached PROVE Carried(k)
  <2>1. k \in DOMAIN db /\ db[k] = store[k] /\ scnd = db
    BY DEF Init
  <2> QED BY <2>1 DEF Carried, Has
<1> QED
  BY <1>1 DEF CarriedInv

\* When there is nothing left to do.
LEMMA QuietMeans ==
    ASSUME Inv, Quiescent
    PROVE  \A x : ~Waits(x) /\ ~Told(x)
<1> SUFFICES ASSUME NEW x PROVE ~Waits(x) /\ ~Told(x)
  OBVIOUS
<1>1. ~Unread(x)
  <2> SUFFICES ASSUME NEW c \in Consumers, NEW i \in (pos[c] + 1)..Len(log[c]) PROVE FALSE
    BY DEF Unread
  <2>1. pos[c] = Len(log[c]) /\ Len(log[c]) \in Nat
    BY LogTypes DEF Quiescent
  <2> QED BY <2>1
<1>2. ASSUME NEW c \in Consumers, NEW d \in Destinations PROVE ~InSeq(x, out[c][d])
  <2> SUFFICES ASSUME NEW i \in 1..Len(out[c][d]) PROVE FALSE
    BY DEF InSeq
  <2>1. DOMAIN out[c][d] = 1..Len(out[c][d])
    BY OutFields, LenProperties
  <2>2. out[c][d][i].id \in Undelivered(c)
    BY <2>1 DEF Undelivered
  <2> QED BY <2>2 DEF Quiescent
<1>3. ~Queued(x) /\ ~Told(x)
  BY <1>2, ReportsApart DEF Queued, Told, Destinations
<1> QED
  BY <1>1, <1>3 DEF Waits

\* When everything produced has been delivered and consumed, nothing was lost
\* and no transaction failed, both storage targets hold the instances that are
\* in memory: the offset guard makes the last change win, in whatever order the
\* UPDATE_ASYNC transactions of any number of clients arrive and are retried.
THEOREM StorageEndsUpSame ==
    ASSUME InMemory, Cached \subseteq Stored
    PROVE  Spec => []StorageCatchesUp
<1>1. Inv /\ (StoreInv /\ ShapeInv) /\ (AheadInv /\ CarriedInv) /\ [Next]_vars
        => (AheadInv /\ CarriedInv)'
  BY NextKind, NextAhead, NextCarried
<1>2. Init => AheadInv /\ CarriedInv
  BY InitAhead, InitCarried
<1>3. Inv /\ (StoreInv /\ ShapeInv) /\ (AheadInv /\ CarriedInv) => StorageCatchesUp
  <2> SUFFICES ASSUME Inv, StoreInv, CarriedInv, Quiescent, NoFailures, lost = {},
                      NEW k \in DOMAIN store
               PROVE  /\ k \in DOMAIN db /\ k \in DOMAIN scnd
                      /\ db[k].inst = store[k].inst /\ scnd[k] = db[k]
    BY DEF StorageCatchesUp
  <2>1. \A x : ~Waits(x) /\ ~Told(x)
    BY QuietMeans
  <2>2. \A t \in Txns : DOMAIN outcome[t] = 1..Len(outcome[t])
    BY LenProperties DEF Inv, RestOK
  <2>3. ~Failed
    BY <2>1, <2>2 DEF Failed, NoFailures
  <2>4. Carried(k)
    BY <2>3 DEF CarriedInv, StoreInv
  <2> QED BY <2>1, <2>4 DEF Carried, Has
<1> QED
  BY <1>1, <1>2, <1>3, Invariance, MemoryInvariance, PTL DEF Spec

-----------------------------------------------------------------------------
(* The order of the log *)

LEMMA LogGrows ==
    ASSUME Inv, InMemory, StoreInv, ShapeInv, [Next]_vars
    PROVE  LogKept
<1>1. CASE log' = log
  BY <1>1, LogTypes DEF LogKept
<1>2. ASSUME NEW t \in Txns, Submit(t) PROVE LogKept
  <2> DEFINE steps == [i \in DOMAIN Requests[t] |-> ClientStep(t, Requests[t][i])]
             txn == NewApecsTxn(t, "REPORT", steps)
  <2>1. PICK random \in Parts : log' = [log EXCEPT ![Dest(txn, random)] = Append(@, txn)]
    BY <1>2 DEF Submit
  <2>2. TxnOK(txn) /\ CurrentStep(txn).sys = "PROCESS"
    BY <1>2, SubmittedOK
  <2> HIDE DEF txn
  <2>3. Dest(txn, random) \in Consumers /\ txn \in Good(Dest(txn, random))
    BY <2>2, ProducedGood
  <2>4. PICK e : e = Dest(txn, random)
    OBVIOUS
  <2> QED BY <2>1, <2>3, <2>4, AppendKept
<1>3. ASSUME NEW c \in Consumers, Consume(c) PROVE log' = log
  BY <1>3, ConsumeKind DEF GoesOn, EndsBadly, IsWritten, Retries
<1>4. ASSUME NEW c \in Consumers PROVE ~Commit(c) /\ ~Crash(c)
  <2>1. ~(crashes < MaxCrashes)
    BY DEF Inv, RestOK, InMemory
  <2> QED BY <2>1 DEF Commit, Crash
<1>5. ASSUME NEW c \in Consumers, NEW d \in Destinations, Deliver(c, d) PROVE LogKept
  <2>1. PICK msg : msg = Head(out[c][d])
    OBVIOUS
  <2>2. out[c][d] # <<>> /\ out' = [out EXCEPT ![c][d] = Tail(@)]
    BY <1>5 DEF Deliver
  <2>3. CASE d = Reports
    BY <1>1, <1>5, <2>3 DEF Deliver
  <2>4. CASE d # Reports
    <3>1. log' = [log EXCEPT ![d] = Append(@, msg)]
      BY <1>5, <2>1, <2>4 DEF Deliver
    <3>2. d \in Consumers /\ msg \in Good(d)
      BY <2>1, <2>2, <2>4, HeadTaken
    <3> QED BY <3>1, <3>2, AppendKept
  <2> QED BY <2>3, <2>4
<1>6. ASSUME NEW c \in Consumers, NEW d \in Destinations, DeliveryFails(c, d) PROVE log' = log
  BY <1>6 DEF DeliveryFails
<1>7. ASSUME NEW c \in Consumers, NEW t \in Txns, CancelDirective(c, t) PROVE log' = log
  BY <1>7 DEF CancelDirective, outside
<1>8. CASE UNCHANGED vars
  BY <1>1, <1>8 DEF vars
<1> QED
  BY <1>1, <1>2, <1>3, <1>4, <1>5, <1>6, <1>7, <1>8 DEF Next

\* An enumeration goes on with what is greater than all that it enumerates.
GoesFurther(f, g, n, p) ==
    /\ n \in Nat /\ DOMAIN f = 1..n /\ DOMAIN g = 1..(n + 1)
    /\ \A i \in 1..n : f[i] \in 1..p /\ g[i] = f[i]
    /\ g[n + 1] = p + 1

LEMMA AscendingAdd ==
    ASSUME NEW p \in Nat, NEW S, S \subseteq 1..p, NEW f, f \in Ascending(S)
    PROVE  \E n, g : g \in Ascending(S \cup {p + 1}) /\ GoesFurther(f, g, n, p)
<1>1. IsFiniteSet(S)
  <2>1. 1 \in Int /\ p \in Int
    OBVIOUS
  <2>2. IsFiniteSet(1..p)
    BY <2>1, FS_Interval
  <2> QED BY <2>2, FS_Subset
<1>2. PICK n : n = Cardinality(S)
  OBVIOUS
<1>3. n \in Nat /\ Cardinality(S \cup {p + 1}) = n + 1
  <2>1. p + 1 \notin S
    OBVIOUS
  <2> QED BY <1>1, <1>2, <2>1, FS_CardinalityType, FS_AddElement
<1>4. /\ f \in [1..n -> S]
      /\ \A i, j \in 1..n : i # j => f[i] # f[j]
      /\ \A i, j \in 1..n : i < j => f[i] < f[j]
  BY <1>2 DEF Ascending, Enumerations
<1>5. PICK g : g = [i \in 1..(n + 1) |-> IF i <= n THEN f[i] ELSE p + 1]
  OBVIOUS
<1>6. ASSUME NEW i \in 1..(n + 1)
      PROVE  /\ i <= n => i \in 1..n /\ g[i] = f[i] /\ f[i] \in S /\ f[i] \in 1..p
             /\ ~(i <= n) => i = n + 1 /\ g[i] = p + 1
  <2>1. i <= n => i \in 1..n
    BY <1>3
  <2>2. ~(i <= n) => i = n + 1
    BY <1>3
  <2>3. i <= n => f[i] \in S /\ f[i] \in 1..p
    BY <1>4, <2>1
  <2>4. g[i] = IF i <= n THEN f[i] ELSE p + 1
    BY <1>5
  <2> QED BY ONLY <2>1, <2>2, <2>3, <2>4
<1>7. g \in [1..(n + 1) -> S \cup {p + 1}]
  BY <1>5, <1>6
<1>8. ASSUME NEW i \in 1..(n + 1), NEW j \in 1..(n + 1), i < j PROVE g[i] < g[j]
  <2>1. i <= n
    BY <1>3, <1>8
  <2>2. CASE j <= n
    BY <1>4, <1>6, <1>8, <2>1, <2>2
  <2>3. CASE ~(j <= n)
    <3>1. f[i] \in 1..p /\ g[i] = f[i] /\ g[j] = p + 1
      BY <1>6, <2>1, <2>3
    <3> QED BY <3>1
  <2> QED BY <2>2, <2>3
<1>9. ASSUME NEW i \in 1..(n + 1), NEW j \in 1..(n + 1), i # j PROVE g[i] # g[j]
  <2>1. g[i] \in Int /\ g[j] \in Int
    BY <1>6
  <2>2. i < j \/ j < i
    BY <1>3, <1>9
  <2> QED BY <1>8, <2>1, <2>2
<1>10. g \in Ascending(S \cup {p + 1})
  BY <1>3, <1>7, <1>8, <1>9 DEF Ascending, Enumerations
<1>11. DOMAIN f = 1..n /\ DOMAIN g = 1..(n + 1)
  BY <1>4, <1>5
<1>12. \A i \in 1..n : f[i] \in 1..p /\ g[i] = f[i]
  <2>1. \A i \in 1..n : i \in 1..(n + 1) /\ i <= n
    BY <1>3
  <2> QED BY <1>6, <2>1
<1>13. g[n + 1] = p + 1
  <2>1. n + 1 \in 1..(n + 1) /\ ~(n + 1 <= n)
    BY <1>3
  <2> QED BY <1>6, <2>1
<1>14. GoesFurther(f, g, n, p)
  BY <1>3, <1>11, <1>12, <1>13 DEF GoesFurther
<1> QED
  BY <1>10, <1>14

\* What is put last in the log, and last in the list of what was done.
Listed(f, topic) == [i \in DOMAIN f |-> topic[f[i]].id]

ListGoesOn(S, p, b, ops, id) ==
    \E g : g \in Ascending(S \cup {p + 1}) /\ Append(ops, id) = Listed(g, b)

LEMMA ListAdd ==
    ASSUME NEW p \in Nat, NEW S, S \subseteq 1..p, NEW f, f \in Ascending(S),
           NEW a, NEW b, \A i \in 1..p : b[i] = a[i],
           NEW T, NEW ops, ops \in Seq(T), ops = Listed(f, a),
           NEW id, id \in T, id = b[p + 1].id
    PROVE  ListGoesOn(S, p, b, ops, id)
<1>a. PICK n, g : g \in Ascending(S \cup {p + 1}) /\ GoesFurther(f, g, n, p)
  BY AscendingAdd
<1>1. /\ n \in Nat /\ DOMAIN f = 1..n /\ DOMAIN g = 1..(n + 1)
      /\ \A i \in 1..n : f[i] \in 1..p /\ g[i] = f[i]
      /\ g[n + 1] = p + 1
  BY <1>a DEF GoesFurther
<1>b. ops = [i \in 1..n |-> a[f[i]].id]
  BY <1>1 DEF Listed
<1>3. DOMAIN ops = 1..Len(ops) /\ DOMAIN ops = 1..n /\ Len(ops) \in Nat
  BY <1>b, LenProperties
<1>4. Len(ops) = n
  <2>1. PICK m : m = Len(ops)
    OBVIOUS
  <2>2. m \in Nat /\ n \in Nat /\ \A i : i \in 1..m <=> i \in 1..n
    BY <1>1, <1>3, <2>1
  <2>3. ~(m < n)
    <3>1. m < n => n \in 1..n /\ ~(n \in 1..m)
      BY ONLY <2>2
    <3> QED BY ONLY <2>2, <3>1
  <2>4. ~(n < m)
    <3>1. n < m => m \in 1..m /\ ~(m \in 1..n)
      BY ONLY <2>2
    <3> QED BY ONLY <2>2, <3>1
  <2> QED BY ONLY <2>1, <2>2, <2>3, <2>4
<1>5. PICK new : new = Append(ops, id)
  OBVIOUS
<1>6. /\ new \in Seq(T) /\ Len(new) = n + 1
      /\ \A i \in 1..n : new[i] = ops[i]
      /\ new[n + 1] = id
  BY <1>4, <1>5, AppendProperties
<1>7. new \in [1..(n + 1) -> T]
  BY <1>6, LenProperties
<1>9. ASSUME NEW i \in 1..(n + 1) PROVE new[i] = b[g[i]].id
  <2>1. CASE i \in 1..n
    <3>1. ops[i] = a[f[i]].id
      BY <1>b, <2>1
    <3>2. b[g[i]] = a[f[i]]
      BY <1>1, <2>1
    <3> QED BY <1>6, <2>1, <3>1, <3>2
  <2>2. CASE i = n + 1
    BY <1>1, <1>6, <2>2
  <2>3. i \in 1..n \/ i = n + 1
    BY <1>1
  <2> QED BY <2>1, <2>2, <2>3
<1>10. new = Listed(g, b)
  BY <1>1, <1>7, <1>9 DEF Listed
<1> QED
  BY <1>a, <1>5, <1>10 DEF ListGoesOn

\* What has been read of an instance's topic and changes it, and the enumeration
\* of it that the instance shows.
ReadOf(k) == {i \in 1..pos[Home(k)] : IsChangeOf(k, log[Home(k)][i])}

Shows(k, f) == store[k].inst.ops = Listed(f, log[Home(k)])

OrderInv == \A k \in Cached : \E f \in Ascending(ReadOf(k)) : Shows(k, f)

LEMMA ReadLog ==
    ASSUME Inv, LogKept, NEW k \in Keys
    PROVE  /\ Home(k) \in Consumers /\ pos[Home(k)] \in Nat
           /\ \A i \in 1..pos[Home(k)] : log'[Home(k)][i] = log[Home(k)][i]
           /\ Ready(Home(k)) => log'[Home(k)][pos[Home(k)] + 1] = Msg(Home(k))
<1>1. PICK c : c = Home(k)
  OBVIOUS
<1>2. c \in Consumers
  BY <1>1, HomeConsumer
<1>3. /\ pos[c] \in Nat /\ pos[c] <= Len(log[c]) /\ Len(log[c]) \in Nat
      /\ \A i \in 1..Len(log[c]) : log'[c][i] = log[c][i]
  BY <1>2, LogTypes DEF LogKept
<1>4. \A i \in 1..pos[c] : i \in 1..Len(log[c])
  BY <1>3
<1>5. pos[c] < Len(log[c]) => pos[c] + 1 \in 1..Len(log[c])
  BY <1>3
<1> QED
  BY <1>1, <1>2, <1>3, <1>4, <1>5 DEF Ready, Msg

\* Nothing about the instance is read, or what is read does not change it.
LEMMA OrderSame ==
    ASSUME Inv, LogKept, NEW k \in Keys, NEW f \in Ascending(ReadOf(k)), Shows(k, f),
           store'[k].inst.ops = store[k].inst.ops,
           \/ pos'[Home(k)] = pos[Home(k)]
           \/ /\ Ready(Home(k)) /\ pos'[Home(k)] = pos[Home(k)] + 1
              /\ ~IsChangeOf(k, Msg(Home(k)))
    PROVE  f \in Ascending(ReadOf(k)') /\ Shows(k, f)'
<1> DEFINE c == Home(k)
<1>1. /\ pos[c] \in Nat
      /\ \A i \in 1..pos[c] : log'[c][i] = log[c][i]
      /\ Ready(c) => log'[c][pos[c] + 1] = Msg(c)
  BY ReadLog
<1>2. c' = c
  BY DEF Home
<1> HIDE DEF c
<1>3. ReadOf(k)' = {i \in 1..pos'[c] : IsChangeOf(k, log'[c][i])}
  BY <1>2 DEF ReadOf, IsChangeOf, c
<1>4. ReadOf(k) = {i \in 1..pos[c] : IsChangeOf(k, log[c][i])}
  BY DEF ReadOf, c
<1>5. \A i \in 1..pos[c] : IsChangeOf(k, log'[c][i]) <=> IsChangeOf(k, log[c][i])
  BY <1>1
<1>6. ASSUME NEW i PROVE i \in ReadOf(k)' <=> i \in ReadOf(k)
  <2>1. CASE pos'[c] = pos[c]
    BY <1>3, <1>4, <1>5, <2>1
  <2>2. CASE Ready(c) /\ pos'[c] = pos[c] + 1 /\ ~IsChangeOf(k, Msg(c))
    <3>1. i \in 1..pos'[c] <=> i \in 1..pos[c] \/ i = pos[c] + 1
      BY <1>1, <2>2
    <3>2. ~IsChangeOf(k, log'[c][pos[c] + 1])
      BY <1>1, <2>2
    <3> QED BY ONLY <1>3, <1>4, <1>5, <3>1, <3>2
  <2> QED BY <2>1, <2>2 DEF c
<1>7. ReadOf(k)' = ReadOf(k)
  BY <1>6
<1>8. DOMAIN f = 1..Cardinality(ReadOf(k)) /\ \A i \in DOMAIN f : f[i] \in 1..pos[c]
  <2>1. f \in [1..Cardinality(ReadOf(k)) -> ReadOf(k)]
    BY DEF Ascending, Enumerations
  <2> QED BY <1>4, <2>1
<1>9. \A i \in DOMAIN f : log'[c][f[i]].id = log[c][f[i]].id
  BY <1>1, <1>8
<1>10. store[k].inst.ops = [i \in DOMAIN f |-> log[c][f[i]].id]
  BY DEF Shows, Listed, c
<1>11. store'[k].inst.ops = [i \in DOMAIN f |-> log'[c][f[i]].id]
  BY <1>9, <1>10
<1> QED
  BY <1>2, <1>7, <1>11 DEF Shows, Listed, c

\* A change is read: it comes last in the instance too.
LEMMA OrderAdds ==
    ASSUME Inv, LogKept, NEW k \in Keys, NEW f \in Ascending(ReadOf(k)), Shows(k, f),
           store[k].inst.ops \in Seq(Txns), Msg(Home(k)).id \in Txns,
           store'[k].inst.ops = Append(store[k].inst.ops, Msg(Home(k)).id),
           Ready(Home(k)), pos'[Home(k)] = pos[Home(k)] + 1, IsChangeOf(k, Msg(Home(k)))
    PROVE  \E g \in Ascending(ReadOf(k)') : Shows(k, g)'
<1> DEFINE c == Home(k)
<1>1. /\ pos[c] \in Nat
      /\ \A i \in 1..pos[c] : log'[c][i] = log[c][i]
      /\ log'[c][pos[c] + 1] = Msg(c)
  BY ReadLog
<1>2. c' = c
  BY DEF Home
<1>a. Msg(c) = Msg(Home(k)) /\ pos'[c] = pos[c] + 1
  BY DEF c
<1> HIDE DEF c
<1>3. ReadOf(k)' = {i \in 1..pos'[c] : IsChangeOf(k, log'[c][i])}
  BY <1>2 DEF ReadOf, IsChangeOf, c
<1>4. ReadOf(k) = {i \in 1..pos[c] : IsChangeOf(k, log[c][i])}
  BY DEF ReadOf, c
<1>5. \A i \in 1..pos[c] : IsChangeOf(k, log'[c][i]) <=> IsChangeOf(k, log[c][i])
  BY <1>1
<1>6. ASSUME NEW i PROVE i \in ReadOf(k)' <=> i \in ReadOf(k) \/ i = pos[c] + 1
  <2>1. i \in 1..pos'[c] <=> i \in 1..pos[c] \/ i = pos[c] + 1
    BY <1>1, <1>a
  <2>2. IsChangeOf(k, log'[c][pos[c] + 1])
    BY <1>1, <1>a
  <2> QED BY ONLY <1>3, <1>4, <1>5, <2>1, <2>2
<1>7. PICK S, p : S = ReadOf(k) /\ p = pos[c]
  OBVIOUS
<1>8. ReadOf(k)' = S \cup {p + 1}
  BY <1>6, <1>7
<1>9. PICK a, b, ops : a = log[c] /\ b = log'[c] /\ ops = store[k].inst.ops
  OBVIOUS
<1>b. PICK id : id = Msg(c).id
  OBVIOUS
<1>10. /\ p \in Nat /\ S \subseteq 1..p /\ f \in Ascending(S)
       /\ \A i \in 1..p : b[i] = a[i]
       /\ b[p + 1] = Msg(c) /\ id = b[p + 1].id /\ id \in Txns
  BY <1>1, <1>4, <1>7, <1>9, <1>a, <1>b
<1>11. ops \in Seq(Txns) /\ ops = Listed(f, a)
  BY <1>9 DEF Shows, c
<1>12. store'[k].inst.ops = Append(ops, id)
  BY <1>9, <1>a, <1>b
<1>c. ListGoesOn(S, p, b, ops, id)
  BY ONLY <1>10, <1>11, ListAdd
<1>13. PICK g : g \in Ascending(S \cup {p + 1}) /\ Append(ops, id) = Listed(g, b)
  BY <1>c DEF ListGoesOn
<1>14. store'[k].inst.ops = Listed(g, log'[c])
  BY <1>9, <1>12, <1>13
<1>15. Shows(k, g)'
  BY <1>2, <1>14 DEF Shows, c
<1> QED
  BY <1>8, <1>13, <1>15

\* A consumer that is not the instance's does not read about it.
LEMMA OrderOther ==
    ASSUME Inv, NEW c \in Consumers, StoreOffsets(c), NEW k \in Keys
    PROVE  IF c = Home(k) THEN pos'[Home(k)] = pos[Home(k)] + 1
           ELSE pos'[Home(k)] = pos[Home(k)]
BY HomeConsumer DEF Inv, PositionsOK, StoreOffsets

LEMMA NextOrder ==
    ASSUME Inv, InMemory, Cancels = {}, StoreInv, ShapeInv, OrderInv, MemoryStep, LogKept
    PROVE  OrderInv'
<1> SUFFICES ASSUME NEW k \in Cached
             PROVE  \E g \in Ascending(ReadOf(k)') : Shows(k, g)'
  BY DEF OrderInv
<1>1. k \in Keys
  BY StoredAssumption
<1>2. PICK f \in Ascending(ReadOf(k)) : Shows(k, f)
  BY DEF OrderInv
<1>3. CASE UNCHANGED <<store, pos>>
  BY <1>1, <1>2, <1>3, OrderSame
<1>4. ASSUME NEW c \in Consumers, Ready(c), StoreOffsets(c), store' = store,
             c = Home(k) => ~IsChangeOf(k, Msg(c))
      PROVE  \E g \in Ascending(ReadOf(k)') : Shows(k, g)'
  <2>1. CASE c = Home(k)
    <3>1. pos'[Home(k)] = pos[Home(k)] + 1 /\ Ready(Home(k)) /\ ~IsChangeOf(k, Msg(Home(k)))
      BY <1>1, <1>4, <2>1, OrderOther
    <3> QED BY <1>1, <1>2, <1>4, <3>1, OrderSame
  <2>2. CASE c # Home(k)
    <3>1. pos'[Home(k)] = pos[Home(k)]
      BY <1>1, <1>4, <2>2, OrderOther
    <3> QED BY <1>1, <1>2, <1>4, <3>1, OrderSame
  <2> QED BY <2>1, <2>2
<1>5. ASSUME NEW c \in Consumers, Ready(c), NEW code, EndsBadly(c, code)
      PROVE  \E g \in Ascending(ReadOf(k)') : Shows(k, g)'
  <2>1. cancels[c] = {}
    BY DEF Inv, RestOK
  <2>2. CurrentStep(Msg(c)).cmd # "Change" /\ StoreOffsets(c) /\ store' = store
    BY <1>5, <2>1 DEF EndsBadly
  <2> QED BY <1>4, <1>5, <2>2 DEF IsChangeOf
<1>6. ASSUME NEW c \in Consumers, Ready(c), IsWritten(c)
      PROVE  \E g \in Ascending(ReadOf(k)') : Shows(k, g)'
  <2>1. c # Home(k) /\ StoreOffsets(c) /\ store' = store
    BY <1>6 DEF IsWritten, Home
  <2> QED BY <1>4, <1>6, <2>1
<1>7. ASSUME NEW c \in Consumers, Ready(c), NEW txn, NEW inst, GoesOn(c, txn, inst)
      PROVE  \E g \in Ascending(ReadOf(k)') : Shows(k, g)'
  <2>1. StoreOffsets(c) /\ ClientMsg(Msg(c))
    BY <1>7 DEF GoesOn
  <2>2. /\ CurrentStep(Msg(c)).cmd = Arrived(c).cmd /\ CurrentStep(Msg(c)).key = Arrived(c).key
        /\ CurrentStep(Msg(c)).sys = "PROCESS" /\ c = Home(Arrived(c).key)
    <3>1. /\ CurrentStep(Msg(c)).cmd = Arrived(c).cmd /\ CurrentStep(Msg(c)).key = Arrived(c).key
          /\ c = Home(Arrived(c).key) /\ Msg(c).cur \in 1..Len(Msg(c).steps)
      BY <1>7, <2>1, ClientArrived
    <3>2. CurrentStep(Msg(c)).sys = "PROCESS"
      BY <2>1, <3>1 DEF ClientMsg, Asked, CurrentStep
    <3> QED BY <3>1, <3>2
  <2>3. CASE Arrived(c).cmd # "Change"
    <3>1. store' = store
      BY <1>7, <2>3 DEF GoesOn
    <3> QED BY <1>4, <1>7, <2>1, <2>2, <2>3, <3>1 DEF IsChangeOf
  <2>4. CASE Arrived(c).cmd = "Change"
    <3>1. inst = Changed(c) /\ Replaced(Arrived(c).key, inst, Arrived(c).off)
      BY <1>7, <2>4 DEF GoesOn
    <3>2. store'[k].inst.ops = IF k = Arrived(c).key THEN Append(store[k].inst.ops, Msg(c).id)
                               ELSE store[k].inst.ops
      BY <1>7, <2>4, <3>1, ChangeAdds
    <3>3. CASE k = Arrived(c).key
      <4>1. c = Home(k) /\ IsChangeOf(k, Msg(c))
        BY <2>2, <2>4, <3>3 DEF IsChangeOf
      <4>2. store'[k].inst.ops = Append(store[k].inst.ops, Msg(Home(k)).id)
        BY <3>2, <3>3, <4>1
      <4>3. pos'[Home(k)] = pos[Home(k)] + 1 /\ Ready(Home(k)) /\ IsChangeOf(k, Msg(Home(k)))
        BY <1>1, <1>7, <2>1, <4>1, OrderOther
      <4>4. store[k].inst.ops \in Seq(Txns) /\ Msg(Home(k)).id \in Txns
        BY <2>1, <4>1, OpsType DEF ClientMsg
      <4> QED BY <1>1, <1>2, <4>2, <4>3, <4>4, OrderAdds
    <3>4. CASE k # Arrived(c).key
      <4>1. store'[k].inst.ops = store[k].inst.ops
        BY <3>2, <3>4
      <4>2. CASE c = Home(k)
        <5>1. ~IsChangeOf(k, Msg(c))
          BY <2>2, <3>4 DEF IsChangeOf
        <5>2. /\ pos'[Home(k)] = pos[Home(k)] + 1 /\ Ready(Home(k))
              /\ ~IsChangeOf(k, Msg(Home(k)))
          BY <1>1, <1>7, <2>1, <4>2, <5>1, OrderOther
        <5> QED BY <1>1, <1>2, <4>1, <5>2, OrderSame
      <4>3. CASE c # Home(k)
        <5>1. pos'[Home(k)] = pos[Home(k)]
          BY <1>1, <2>1, <4>3, OrderOther
        <5> QED BY <1>1, <1>2, <4>1, <5>1, OrderSame
      <4> QED BY <4>2, <4>3
    <3> QED BY <3>3, <3>4
  <2> QED BY <2>3, <2>4
<1>8. ASSUME NEW c \in Consumers, Advances(c)
      PROVE  \E g \in Ascending(ReadOf(k)') : Shows(k, g)'
  BY <1>5, <1>6, <1>7, <1>8 DEF Advances
<1> QED
  BY <1>3, <1>8 DEF MemoryStep, Idle, Arrives, Answers, Loses

LEMMA InitOrder ==
    ASSUME Init
    PROVE  OrderInv
<1> SUFFICES ASSUME NEW k \in Cached PROVE \E f \in Ascending(ReadOf(k)) : Shows(k, f)
  BY DEF OrderInv
<1>1. k \in Keys /\ Home(k) \in Consumers
  BY StoredAssumption, HomeConsumer
<1>2. pos[Home(k)] = 0
  BY <1>1 DEF Init
<1>3. ReadOf(k) = {}
  BY <1>2 DEF ReadOf
<1>4. store[k].inst.ops = <<>>
  BY DEF Init, NewInstance
<1>5. PICK f : f = [i \in 1..0 |-> 0]
  OBVIOUS
<1>6. f \in Ascending({})
  BY <1>5, FS_EmptySet DEF Ascending, Enumerations
<1>7. Shows(k, f)
  BY <1>4, <1>5 DEF Shows, Listed
<1> QED
  BY <1>3, <1>6, <1>7

\* The commands that were applied to an instance in memory are those of the
\* messages its partition's consumer has read, each once and in the order of
\* their offsets, for any number of transactions, partitions and instances,
\* whatever fails or is lost.  A cancelled transaction is read and not applied,
\* so that no directive is one of the conditions.
THEOREM DoneInLogOrder ==
    ASSUME InMemory, Cancels = {}
    PROVE  Spec => []AppliedInLogOrder
<1>1. Inv /\ (StoreInv /\ ShapeInv) /\ OrderInv /\ [Next]_vars => OrderInv'
  BY NextKind, LogGrows, NextOrder
<1>2. Init => OrderInv
  BY InitOrder
<1>3. (StoreInv /\ ShapeInv) /\ OrderInv => AppliedInLogOrder
  BY DEF StoreInv, OrderInv, AppliedInLogOrder, ReadOf, Shows, Listed, Home
<1> QED
  BY <1>1, <1>2, <1>3, Invariance, MemoryInvariance, PTL DEF Spec
=============================================================================
