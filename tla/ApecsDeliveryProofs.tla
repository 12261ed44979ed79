------------------------ MODULE ApecsDeliveryProofs -------------------------
(***************************************************************************)
(* Proofs about what becomes of a transaction in the APECS engine: that    *)
(* restarts alone lose none, that without restarts it is reported once,    *)
(* and that storage is never behind the writes that were done.             *)
(*                                                                         *)
(* The first two are about the same thing from two sides.  A transaction   *)
(* goes on by one message at a time, its token: one that is still to be    *)
(* read, one in the queue of a producer, or the report of its end.  A step *)
(* of a consumer replaces a token by one other, a delivery moves it.       *)
(***************************************************************************)
EXTENDS ApecsProofs

-----------------------------------------------------------------------------
(* Tokens *)

LogToken(t, c, i) ==
    /\ c \in Consumers /\ i \in Nat /\ pos[c] < i /\ i <= Len(log[c])
    /\ log[c][i].id = t /\ log[c][i].upon # "BAILOUT"

OutToken(t, c, d, i) ==
    /\ c \in Consumers /\ d \in Destinations /\ i \in DOMAIN out[c][d]
    /\ out[c][d][i].id = t /\ CarriesOn(d, out[c][d][i])

\* Where a token of t is: a kind of place, two ends and a number.
Token(t, kind, c, d, i) ==
    \/ kind = "log" /\ d = c /\ LogToken(t, c, i)
    \/ kind = "out" /\ OutToken(t, c, d, i)
    \/ kind = "end" /\ c = Reports /\ d = Reports /\ i \in DOMAIN outcome[t]

HasToken(t) == \E kind, c, d, i : Token(t, kind, c, d, i)

AtMostOne(t) ==
    \A k1, c1, d1, i1, k2, c2, d2, i2 :
        Token(t, k1, c1, d1, i1) /\ Token(t, k2, c2, d2, i2) =>
            k1 = k2 /\ c1 = c2 /\ d1 = d2 /\ i1 = i2

\* Every transaction has a token unless one of its messages was dropped.
TokenInv == \A t \in submitted \ lost : HasToken(t)

\* While nothing is read again it has no two, and none before it is submitted.
UniqueInv ==
    crashes = 0 => \A t \in Txns : AtMostOne(t) /\ (t \notin submitted => ~HasToken(t))

\* The queues after an iteration that handled its message.
LEMMA QueueAfter ==
    ASSUME Inv, NEW c \in Consumers, NEW new, Emits(c, new), NEW b \in Consumers,
           NEW d \in Destinations
    PROVE  /\ Len(out[b][d]) \in Nat /\ DOMAIN out[b][d] = 1..Len(out[b][d])
           /\ \A i \in DOMAIN out[b][d] : i \in DOMAIN out'[b][d] /\ out'[b][d][i] = out[b][d][i]
           /\ b # c => out'[b][d] = out[b][d]
           /\ \A i \in DOMAIN out'[b][d] :
                 \/ i \in DOMAIN out[b][d]
                 \/ /\ b = c /\ i - Len(out[b][d]) \in DOMAIN new[d] /\ i \in Nat
                    /\ out'[b][d][i] = new[d][i - Len(out[b][d])]
           /\ \A j \in DOMAIN new[d] :
                 /\ j \in Nat
                 /\ b = c => /\ Len(out[b][d]) + j \in DOMAIN out'[b][d]
                             /\ out'[b][d][Len(out[b][d]) + j] = new[d][j]
           /\ \A j \in DOMAIN new[d] : new[d][j].id = Msg(c).id
<1> DEFINE S == Messages \cup ReportMsgs
           s == out[b][d]
           r == new[d]
<1>1. s \in Seq(S)
  BY QueueTypes
<1>2. r \in Seq(S) /\ \A j \in DOMAIN r : r[j].id = Msg(c).id
  <2>1. PICK R : R \subseteq S /\ r \in Seq(R) /\ \A m \in R : m.id = Msg(c).id
    <3>1. CASE d = Reports
      <4>1. OwnReports(c) \subseteq S /\ \A m \in OwnReports(c) : m.id = Msg(c).id
        BY DEF OwnReports
      <4>2. r \in Seq(OwnReports(c))
        BY <3>1 DEF Emits
      <4> HIDE DEF S, r
      <4> QED BY <4>1, <4>2
    <3>2. CASE d \in Consumers
      <4>1. OwnGood(c, d) \subseteq S /\ \A m \in OwnGood(c, d) : m.id = Msg(c).id
        BY DEF OwnGood, Good
      <4>2. r \in Seq(OwnGood(c, d))
        BY <3>2 DEF Emits
      <4> HIDE DEF S, r
      <4> QED BY <4>1, <4>2
    <3> QED BY <3>1, <3>2 DEF Destinations
  <2> HIDE DEF S, r
  <2>2. r \in Seq(S)
    BY <2>1, SeqMonotonic
  <2>3. \A j \in DOMAIN r : r[j] \in R
    BY <2>1, LenProperties, ElementOfSeq
  <2> QED BY <2>1, <2>2, <2>3
<1>3. out'[b][d] = IF b = c THEN s \o r ELSE s
  BY EmitsKept
<1> HIDE DEF S, s, r
<1>4. Len(s) \in Nat /\ DOMAIN s = 1..Len(s) /\ Len(r) \in Nat /\ DOMAIN r = 1..Len(r)
  BY <1>1, <1>2, LenProperties
<1>5. /\ s \o r \in Seq(S) /\ Len(s \o r) = Len(s) + Len(r)
      /\ \A i \in 1..Len(s) + Len(r) :
            (s \o r)[i] = IF i <= Len(s) THEN s[i] ELSE r[i - Len(s)]
  BY <1>1, <1>2, ConcatProperties
<1>6. DOMAIN (s \o r) = 1..(Len(s) + Len(r))
  BY <1>5, LenProperties
<1>7. \A i \in DOMAIN s : i \in DOMAIN (s \o r) /\ (s \o r)[i] = s[i]
  BY <1>4, <1>5, <1>6
<1>8. \A i \in DOMAIN (s \o r) :
         \/ i \in DOMAIN s
         \/ /\ i - Len(s) \in DOMAIN r /\ i \in Nat
            /\ (s \o r)[i] = r[i - Len(s)]
  BY <1>4, <1>5, <1>6
<1>9. ASSUME NEW j \in DOMAIN r
      PROVE  j \in Nat /\ Len(s) + j \in DOMAIN (s \o r) /\ (s \o r)[Len(s) + j] = r[j]
  <2>1. j \in Nat /\ Len(s) + j \in 1..(Len(s) + Len(r)) /\ ~(Len(s) + j <= Len(s))
        /\ (Len(s) + j) - Len(s) = j
    BY <1>4
  <2> QED BY <1>5, <1>6, <2>1
<1> QED
  BY <1>2, <1>3, <1>4, <1>7, <1>8, <1>9 DEF s, r
-----------------------------------------------------------------------------
(* No token vanishes *)

LEMMA ReadAfter ==
    ASSUME Inv, NEW c \in Consumers, Ready(c), StoreOffsets(c)
    PROVE  /\ pos[c] \in Nat /\ pos'[c] = pos[c] + 1
           /\ \A b \in Consumers : b # c => pos'[b] = pos[b]
BY LogTypes DEF StoreOffsets, Inv, PositionsOK

LEMMA ConsumeMoves ==
    ASSUME Inv, NEW c \in Consumers, Consume(c), NEW t, HasToken(t)
    PROVE  HasToken(t)'
<1>1. /\ Ready(c) /\ UNCHANGED <<log, outcome>>
      /\ Handled(c) \/ UNCHANGED <<out, pos>>
  BY ConsumeEffect DEF Effect, Iteration, outside
<1>2. PICK kind, b, d, i : Token(t, kind, b, d, i)
  BY DEF HasToken
<1>3. CASE UNCHANGED <<out, pos>>
  <2>1. Token(t, kind, b, d, i)'
    BY <1>1, <1>2, <1>3 DEF Token, LogToken, OutToken
  <2> QED BY <2>1 DEF HasToken
<1>4. CASE Handled(c)
  <2>1. PICK new : Emits(c, new)
    BY <1>4 DEF Handled
  <2>2. /\ pos[c] \in Nat /\ pos'[c] = pos[c] + 1
        /\ \A e \in Consumers : e # c => pos'[e] = pos[e]
    BY <1>1, <1>4, ReadAfter DEF Handled
  <2>3. CASE kind = "log" /\ d = b /\ LogToken(t, b, i) /\ ~(b = c /\ i = pos[c] + 1)
    <3>1. LogToken(t, b, i)'
      BY <1>1, <2>2, <2>3 DEF LogToken
    <3>2. Token(t, kind, b, d, i)'
      BY <2>3, <3>1 DEF Token
    <3> QED BY <3>2 DEF HasToken
  <2>4. CASE LogToken(t, b, i) /\ b = c /\ i = pos[c] + 1
    <3>1. Msg(c).id = t /\ Msg(c).upon # "BAILOUT"
      BY <2>4 DEF LogToken, Msg
    <3>2. PICK e \in Destinations : \E j \in DOMAIN new[e] : CarriesOn(e, new[e][j])
      BY <2>1, <3>1 DEF Emits, OneCarriesOn
    <3>3. PICK j \in DOMAIN new[e] : CarriesOn(e, new[e][j])
      BY <3>2
    <3>4. PICK n : n \in DOMAIN out'[c][e] /\ out'[c][e][n] = new[e][j] /\ new[e][j].id = t
      BY <2>1, <3>1, QueueAfter
    <3>5. OutToken(t, c, e, n)'
      BY <3>3, <3>4 DEF OutToken, CarriesOn
    <3>6. Token(t, "out", c, e, n)'
      BY <3>5 DEF Token
    <3> QED BY <3>6 DEF HasToken
  <2>5. CASE kind = "out" /\ OutToken(t, b, d, i)
    <3>1. i \in DOMAIN out'[b][d] /\ out'[b][d][i] = out[b][d][i]
      BY <2>1, <2>5, QueueAfter DEF OutToken
    <3>2. OutToken(t, b, d, i)'
      BY <2>5, <3>1 DEF OutToken, CarriesOn
    <3>3. Token(t, kind, b, d, i)'
      BY <2>5, <3>2 DEF Token
    <3> QED BY <3>3 DEF HasToken
  <2>6. CASE kind = "end" /\ b = Reports /\ d = Reports /\ i \in DOMAIN outcome[t]
    <3>1. Token(t, kind, b, d, i)'
      BY <1>1, <2>6 DEF Token
    <3> QED BY <3>1 DEF HasToken
  <2> QED BY <1>2, <2>3, <2>4, <2>5, <2>6 DEF Token
<1> QED
  BY <1>1, <1>3, <1>4

\* The queues after a message was delivered or dropped.
Shifted(c, d) ==
    /\ Head(out[c][d]) = out[c][d][1] /\ 1 \in DOMAIN out[c][d]
    /\ \A b \in Consumers, e \in Destinations : ~(b = c /\ e = d) => out'[b][e] = out[b][e]
    /\ \A i \in DOMAIN out[c][d] :
          i # 1 => i - 1 \in DOMAIN out'[c][d] /\ out'[c][d][i - 1] = out[c][d][i]
    /\ \A i \in DOMAIN out'[c][d] :
          /\ i \in Nat \ {0} /\ i + 1 \in DOMAIN out[c][d]
          /\ out'[c][d][i] = out[c][d][i + 1]

LEMMA TailAfter ==
    ASSUME Inv, NEW c \in Consumers, NEW d \in Destinations, out[c][d] # <<>>,
           out' = [out EXCEPT ![c][d] = Tail(@)]
    PROVE  Shifted(c, d)
<1> DEFINE s == out[c][d]
<1>1. s \in Seq(Messages \cup ReportMsgs) /\ s # <<>>
  BY QueueTypes
<1>2. \A b \in Consumers, e \in Destinations :
         out'[b][e] = IF b = c /\ e = d THEN Tail(s) ELSE out[b][e]
  <2>1. /\ out \in [Consumers -> [Destinations -> Seq(Messages \cup ReportMsgs)]]
        /\ c \in Consumers /\ d \in Destinations
        /\ out' = [out EXCEPT ![c][d] = Tail(@)]
    BY QueueTypes
  <2>2. \A b \in Consumers, e \in Destinations :
           out'[b][e] = IF b = c /\ e = d THEN Tail(out[c][d]) ELSE out[b][e]
    BY ONLY <2>1
  <2> QED BY ONLY <2>2 DEF s
<1> HIDE DEF s
<1>3. /\ Len(s) \in Nat /\ Len(s) # 0 /\ DOMAIN s = 1..Len(s)
      /\ Head(s) = s[1]
  BY <1>1, LenProperties, EmptySeq, HeadTailProperties
<1>4. /\ Len(Tail(s)) = Len(s) - 1 /\ DOMAIN Tail(s) = 1..(Len(s) - 1)
      /\ \A i \in 1..(Len(s) - 1) : Tail(s)[i] = s[i + 1]
  BY <1>1, <1>3, HeadTailProperties, LenProperties
<1>5. \A i \in DOMAIN s : i # 1 => i - 1 \in DOMAIN Tail(s) /\ Tail(s)[i - 1] = s[i]
  <2> SUFFICES ASSUME NEW i \in DOMAIN s, i # 1
               PROVE  i - 1 \in DOMAIN Tail(s) /\ Tail(s)[i - 1] = s[i]
    OBVIOUS
  <2>1. i - 1 \in 1..(Len(s) - 1) /\ (i - 1) + 1 = i
    BY <1>3
  <2> QED BY <1>4, <2>1
<1>6. \A i \in DOMAIN Tail(s) : i \in Nat \ {0} /\ i + 1 \in DOMAIN s /\ Tail(s)[i] = s[i + 1]
  BY <1>3, <1>4
<1>7. 1 \in DOMAIN s
  BY <1>3
<1>8. /\ out'[c][d] = Tail(s) /\ out[c][d] = s
      /\ \A b \in Consumers, e \in Destinations : ~(b = c /\ e = d) => out'[b][e] = out[b][e]
  BY <1>2 DEF s
<1> QED
  BY <1>3, <1>5, <1>6, <1>7, <1>8 DEF Shifted

\* Delivery turns the token at the head of a queue into one on a topic or into
\* the report itself, and leaves the others in their order.
LEMMA DeliverMoves ==
    ASSUME Inv, NEW c \in Consumers, NEW d \in Destinations, Deliver(c, d), NEW t \in Txns,
           HasToken(t)
    PROVE  HasToken(t)'
<1> DEFINE msg == Head(out[c][d])
<1>1. /\ out[c][d] # <<>> /\ out' = [out EXCEPT ![c][d] = Tail(@)]
      /\ pos' = pos
  BY DEF Deliver
<1>shift. Shifted(c, d)
  BY <1>1, TailAfter
<1>2. IF d = Reports THEN msg \in ReportMsgs ELSE d \in Consumers /\ msg \in Good(d)
  BY <1>1, HeadTaken
<1>3. PICK kind, b, e, i : Token(t, kind, b, e, i)
  BY DEF HasToken
<1>4. CASE kind = "log" /\ e = b /\ LogToken(t, b, i)
  <2>1. i <= Len(log'[b]) /\ log'[b][i] = log[b][i]
    <3>1. CASE d = Reports
      BY <1>4, <3>1 DEF Deliver, LogToken
    <3>2. CASE d # Reports
      <4>1. LogKept /\ log' \in [Consumers -> Seq(Messages)]
        BY <1>2, <3>2, AppendKept DEF Deliver
      <4>2. b \in Consumers /\ Len(log[b]) \in Nat /\ Len(log'[b]) \in Nat /\ pos[b] \in Nat
        BY <1>4, <4>1, LogTypes, LenProperties DEF LogToken
      <4>3. i \in 1..Len(log[b])
        BY <1>4, <4>2 DEF LogToken
      <4> QED BY <4>1, <4>2, <4>3 DEF LogKept
    <3> QED BY <3>1, <3>2
  <2>2. LogToken(t, b, i)'
    BY <1>1, <1>4, <2>1 DEF LogToken
  <2>3. Token(t, kind, b, e, i)'
    BY <1>4, <2>2 DEF Token
  <2> QED BY <2>3 DEF HasToken
<1>5. CASE kind = "out" /\ OutToken(t, b, e, i) /\ ~(b = c /\ e = d)
  <2>1. OutToken(t, b, e, i)'
    BY <1>5, <1>shift DEF Shifted, OutToken, CarriesOn
  <2>2. Token(t, kind, b, e, i)'
    BY <1>5, <2>1 DEF Token
  <2> QED BY <2>2 DEF HasToken
<1>6. CASE OutToken(t, b, e, i) /\ b = c /\ e = d /\ i # 1
  <2>1. PICK n : n \in DOMAIN out'[c][d] /\ out'[c][d][n] = out[c][d][i]
    <3>1. i \in DOMAIN out[c][d] /\ i # 1
      BY <1>6 DEF OutToken
    <3>2. i - 1 \in DOMAIN out'[c][d] /\ out'[c][d][i - 1] = out[c][d][i]
      BY ONLY <1>shift, <3>1 DEF Shifted
    <3> QED BY <3>2
  <2>2. OutToken(t, c, d, n)'
    BY <1>6, <2>1 DEF OutToken, CarriesOn
  <2>3. Token(t, "out", c, d, n)'
    BY <2>2 DEF Token
  <2> QED BY <2>3 DEF HasToken
<1>7. CASE OutToken(t, b, e, i) /\ b = c /\ e = d /\ i = 1
  <2>1. msg.id = t /\ CarriesOn(d, msg)
    BY <1>7, <1>shift DEF Shifted, OutToken
  <2>2. CASE d = Reports
    <3>1. outcome' = [outcome EXCEPT ![t] = Append(@, msg.code)]
      BY <2>1, <2>2 DEF Deliver
    <3>2. outcome \in [Txns -> Seq(Codes)] /\ msg.code \in Codes
      BY <1>2, <2>2 DEF Inv, RestOK, ReportMsgs
    <3> HIDE DEF msg
    <3>3. PICK n : n \in DOMAIN outcome'[t]
      <4>1. outcome[t] \in Seq(Codes) /\ Len(outcome[t]) \in Nat
        BY <3>2, LenProperties
      <4>2. outcome'[t] = Append(outcome[t], msg.code)
        BY <3>1, <3>2
      <4>3. Append(outcome[t], msg.code) \in Seq(Codes)
            /\ Len(Append(outcome[t], msg.code)) = Len(outcome[t]) + 1
        BY <3>2, <4>1, AppendProperties
      <4>4. Len(outcome[t]) + 1 \in DOMAIN outcome'[t]
        BY <4>1, <4>2, <4>3, LenProperties
      <4> QED BY <4>4
    <3>4. Token(t, "end", Reports, Reports, n)'
      BY <3>3 DEF Token
    <3> QED BY <3>4 DEF HasToken
  <2>3. CASE d # Reports
    <3>1. d \in Consumers /\ msg \in Good(d) /\ log' = [log EXCEPT ![d] = Append(@, msg)]
      BY <1>2, <2>3 DEF Deliver
    <3>2. msg.upon # "BAILOUT"
      BY <2>1, <2>3 DEF CarriesOn
    <3> HIDE DEF msg
    <3>3. PICK n : n = Len(log[d]) + 1
      OBVIOUS
    <3>4. Len(log'[d]) = n /\ log'[d][n] = msg
      BY <3>1, <3>3, AppendKept
    <3>5. n \in Nat /\ pos[d] < n
      BY <3>1, <3>3, LogTypes
    <3>6. LogToken(t, d, n)'
      BY <1>1, <2>1, <3>1, <3>2, <3>4, <3>5 DEF LogToken
    <3>7. Token(t, "log", d, d, n)'
      BY <3>6 DEF Token
    <3> QED BY <3>7 DEF HasToken
  <2> QED BY <2>2, <2>3
<1>8. CASE kind = "end" /\ b = Reports /\ e = Reports /\ i \in DOMAIN outcome[t]
  <2>1. i \in DOMAIN outcome'[t]
    <3>1. CASE d # Reports
      BY <1>8, <3>1 DEF Deliver
    <3>2. CASE d = Reports
      <4>1. outcome' = [outcome EXCEPT ![msg.id] = Append(@, msg.code)]
        BY <3>2 DEF Deliver
      <4>2. outcome \in [Txns -> Seq(Codes)] /\ msg.code \in Codes
        BY <1>2, <3>2 DEF Inv, RestOK, ReportMsgs
      <4> HIDE DEF msg
      <4>3. outcome'[t] = outcome[t] \/ outcome'[t] = Append(outcome[t], msg.code)
        BY <4>1, <4>2
      <4>4. outcome[t] \in Seq(Codes)
        BY <4>2
      <4>5. Append(outcome[t], msg.code) \in Seq(Codes)
            /\ Len(Append(outcome[t], msg.code)) = Len(outcome[t]) + 1
        BY <4>2, <4>4, AppendProperties
      <4> QED BY <1>8, <4>3, <4>4, <4>5, LenProperties
    <3> QED BY <3>1, <3>2
  <2>2. Token(t, kind, b, e, i)'
    BY <1>8, <2>1 DEF Token
  <2> QED BY <2>2 DEF HasToken
<1> QED
  BY <1>3, <1>4, <1>5, <1>6, <1>7, <1>8 DEF Token
\* A message whose delivery fails is lost with its transaction; the others stay.
LEMMA DeliveryFailsMoves ==
    ASSUME Inv, NEW c \in Consumers, NEW d \in Destinations, DeliveryFails(c, d), NEW t,
           HasToken(t), t \notin lost'
    PROVE  HasToken(t)'
<1>1. /\ out[c][d] # <<>> /\ out' = [out EXCEPT ![c][d] = Tail(@)]
      /\ UNCHANGED <<pos, log, outcome>> /\ lost' = lost \cup {Head(out[c][d]).id}
  BY DEF DeliveryFails
<1>shift. Shifted(c, d)
  BY <1>1, TailAfter
<1>2. PICK kind, b, e, i : Token(t, kind, b, e, i)
  BY DEF HasToken
<1>3. CASE ~(kind = "out" /\ b = c /\ e = d)
  <2>1. OutToken(t, b, e, i) /\ ~(b = c /\ e = d) => OutToken(t, b, e, i)'
    BY <1>shift DEF Shifted, OutToken, CarriesOn
  <2>2. LogToken(t, b, i) => LogToken(t, b, i)'
    BY <1>1 DEF LogToken
  <2>3. Token(t, kind, b, e, i)'
    BY <1>1, <1>2, <1>3, <2>1, <2>2 DEF Token
  <2> QED BY <2>3 DEF HasToken
<1>4. CASE kind = "out" /\ b = c /\ e = d
  <2>1. OutToken(t, c, d, i)
    BY <1>2, <1>4 DEF Token
  <2>2. i \in DOMAIN out[c][d] /\ i # 1
    BY <1>1, <1>shift, <2>1 DEF Shifted, OutToken
  <2>3. i - 1 \in DOMAIN out'[c][d] /\ out'[c][d][i - 1] = out[c][d][i]
    BY ONLY <1>shift, <2>2 DEF Shifted
  <2>4. PICK n : n \in DOMAIN out'[c][d] /\ out'[c][d][n] = out[c][d][i]
    BY <2>3
  <2>5. OutToken(t, c, d, n)'
    BY <2>1, <2>4 DEF OutToken, CarriesOn
  <2>6. Token(t, "out", c, d, n)'
    BY <2>5 DEF Token
  <2> QED BY <2>6 DEF HasToken
<1> QED
  BY <1>3, <1>4

\* A crash loses the transactions that are in the queues of its process, and
\* reading starts again at an earlier message, if at another one.
LEMMA CrashMoves ==
    ASSUME Inv, NEW c \in Consumers, Crash(c), NEW t, HasToken(t), t \notin lost'
    PROVE  HasToken(t)'
<1>1. /\ out' = [out EXCEPT ![c] = [d \in Destinations |-> <<>>]]
      /\ pos' = [pos EXCEPT ![c] = committed[c]]
      /\ UNCHANGED <<log, outcome>> /\ lost' = lost \cup Undelivered(c)
  BY DEF Crash
<1>2. PICK kind, b, e, i : Token(t, kind, b, e, i)
  BY DEF HasToken
<1>3. ASSUME OutToken(t, b, e, i) PROVE OutToken(t, b, e, i)'
  <2>1. b # c
    <3> SUFFICES ASSUME b = c PROVE FALSE
      OBVIOUS
    <3>1. e \in Destinations /\ t \in {out[c][e][j].id : j \in DOMAIN out[c][e]}
      BY <1>3 DEF OutToken
    <3>2. t \in Undelivered(c)
      BY <3>1 DEF Undelivered
    <3> QED BY <1>1, <3>2
  <2>2. out'[b] = out[b]
    BY <1>1, <1>3, <2>1, QueueTypes DEF OutToken
  <2> QED BY <1>3, <2>2 DEF OutToken, CarriesOn
<1>4. ASSUME LogToken(t, b, i) PROVE LogToken(t, b, i)'
  <2>1. b \in Consumers /\ pos[b] \in Nat /\ pos'[b] \in Nat /\ pos'[b] <= pos[b]
    BY <1>1, <1>4, LogTypes DEF LogToken, Inv, PositionsOK
  <2>2. pos'[b] < i
    BY <1>4, <2>1 DEF LogToken
  <2> QED BY <1>1, <1>4, <2>2 DEF LogToken
<1>5. Token(t, kind, b, e, i)'
  BY <1>1, <1>2, <1>3, <1>4 DEF Token
<1> QED
  BY <1>5 DEF HasToken

\* The token a client's transaction starts with.
LEMMA SubmitMoves ==
    ASSUME Inv, NEW s \in Txns, Submit(s)
    PROVE  /\ UNCHANGED <<out, pos, outcome, lost>> /\ LogKept
           /\ log' \in [Consumers -> Seq(Messages)]
           /\ \E e \in Consumers, m \in Messages :
                 /\ m.id = s /\ m.upon # "BAILOUT"
                 /\ Len(log'[e]) = Len(log[e]) + 1 /\ log'[e][Len(log[e]) + 1] = m
                 /\ \A d \in Consumers : d # e => log'[d] = log[d]
<1> DEFINE steps == [i \in DOMAIN Requests[s] |-> ClientStep(s, Requests[s][i])]
           txn == NewApecsTxn(s, "REPORT", steps)
<1>1. PICK random \in Parts : log' = [log EXCEPT ![Dest(txn, random)] = Append(@, txn)]
  BY DEF Submit
<1>2. TxnOK(txn) /\ CurrentStep(txn).sys = "PROCESS" /\ txn.id = s /\ txn.upon = "REPORT"
  BY SubmittedOK
<1>3. UNCHANGED <<out, pos, outcome, lost>>
  BY DEF Submit
<1> HIDE DEF txn
<1>4. Dest(txn, random) \in Consumers /\ txn \in Good(Dest(txn, random))
  BY <1>2, ProducedGood
<1> DEFINE e == Dest(txn, random)
<1> HIDE DEF e
<1>5. /\ LogKept /\ log' \in [Consumers -> Seq(Messages)]
      /\ \A d \in Consumers : log'[d] = IF d = e THEN Append(log[d], txn) ELSE log[d]
      /\ Len(log'[e]) = Len(log[e]) + 1 /\ log'[e][Len(log[e]) + 1] = txn
  BY <1>1, <1>4, AppendKept DEF e
<1>6. e \in Consumers /\ txn \in Messages
  BY <1>4 DEF e, Good
<1> QED
  BY <1>2, <1>3, <1>5, <1>6

LEMMA SubmitStarts ==
    ASSUME Inv, NEW s \in Txns, Submit(s)
    PROVE  /\ HasToken(s)'
           /\ \A t : HasToken(t) => HasToken(t)'
<1>1. /\ UNCHANGED <<out, pos, outcome>> /\ LogKept
      /\ log' \in [Consumers -> Seq(Messages)]
  BY SubmitMoves
<1>2. PICK e \in Consumers, m \in Messages :
         /\ m.id = s /\ m.upon # "BAILOUT"
         /\ Len(log'[e]) = Len(log[e]) + 1 /\ log'[e][Len(log[e]) + 1] = m
  BY SubmitMoves
<1>3. HasToken(s)'
  <2>1. PICK n : n = Len(log[e]) + 1
    OBVIOUS
  <2>2. n \in Nat /\ pos[e] < n
    BY <2>1, LogTypes
  <2>3. LogToken(s, e, n)'
    BY <1>1, <1>2, <2>1, <2>2 DEF LogToken
  <2>4. Token(s, "log", e, e, n)'
    BY <2>3 DEF Token
  <2> QED BY <2>4 DEF HasToken
<1>4. ASSUME NEW t, HasToken(t) PROVE HasToken(t)'
  <2>1. PICK kind, b, d, i : Token(t, kind, b, d, i)
    BY <1>4 DEF HasToken
  <2>2. ASSUME LogToken(t, b, i) PROVE LogToken(t, b, i)'
    <3>1. b \in Consumers /\ Len(log[b]) \in Nat /\ Len(log'[b]) \in Nat /\ pos[b] \in Nat
      BY <1>1, <2>2, LogTypes, LenProperties DEF LogToken
    <3>2. i \in 1..Len(log[b])
      BY <2>2, <3>1 DEF LogToken
    <3> QED BY <1>1, <2>2, <3>1, <3>2 DEF LogToken, LogKept
  <2>3. OutToken(t, b, d, i) => OutToken(t, b, d, i)'
    BY <1>1 DEF OutToken, CarriesOn
  <2>4. Token(t, kind, b, d, i)'
    BY <1>1, <2>1, <2>2, <2>3 DEF Token
  <2> QED BY <2>4 DEF HasToken
<1> QED
  BY <1>3, <1>4

\* The other steps leave the tokens alone.
LEMMA TokensSame ==
    ASSUME UNCHANGED <<log, out, pos, outcome>>, NEW t, NEW kind, NEW c, NEW d, NEW i
    PROVE  Token(t, kind, c, d, i) <=> Token(t, kind, c, d, i)'
BY DEF Token, LogToken, OutToken, CarriesOn

LEMMA NextTokenInv ==
    ASSUME Inv, TokenInv, [Next]_vars
    PROVE  TokenInv'
<1> SUFFICES ASSUME NEW t \in submitted' \ lost' PROVE HasToken(t)'
  BY DEF TokenInv
<1>1. ASSUME UNCHANGED <<log, out, pos, outcome, submitted, lost>> PROVE HasToken(t)'
  <2>1. PICK kind, b, d, i : Token(t, kind, b, d, i)
    BY <1>1 DEF TokenInv, HasToken
  <2>2. Token(t, kind, b, d, i)'
    BY <1>1, <2>1, TokensSame
  <2> QED BY <2>2 DEF HasToken
<1>2. ASSUME NEW s \in Txns, Submit(s) PROVE HasToken(t)'
  <2>1. submitted' = submitted \cup {s} /\ lost' = lost
    BY <1>2 DEF Submit
  <2> QED BY <1>2, <2>1, SubmitStarts DEF TokenInv
<1>3. ASSUME NEW c \in Consumers, Consume(c) PROVE HasToken(t)'
  <2>1. UNCHANGED <<submitted, lost>>
    BY <1>3, ConsumeEffect DEF Effect, Iteration, outside
  <2> QED BY <1>3, <2>1, ConsumeMoves DEF TokenInv
<1>4. ASSUME NEW c \in Consumers, NEW d \in Destinations, Deliver(c, d) PROVE HasToken(t)'
  <2>1. UNCHANGED <<submitted, lost>> /\ t \in Txns
    BY <1>4 DEF Deliver, Inv, RestOK
  <2> QED BY <1>4, <2>1, DeliverMoves DEF TokenInv
<1>5. ASSUME NEW c \in Consumers, NEW d \in Destinations, DeliveryFails(c, d) PROVE HasToken(t)'
  <2>1. submitted' = submitted /\ lost \subseteq lost'
    BY <1>5 DEF DeliveryFails
  <2> QED BY <1>5, <2>1, DeliveryFailsMoves DEF TokenInv
<1>6. ASSUME NEW c \in Consumers, Crash(c) PROVE HasToken(t)'
  <2>1. submitted' = submitted /\ lost \subseteq lost'
    BY <1>6 DEF Crash
  <2> QED BY <1>6, <2>1, CrashMoves DEF TokenInv
<1>7. ASSUME NEW c \in Consumers, Commit(c) \/ \E s \in Txns : CancelDirective(c, s)
      PROVE  HasToken(t)'
  BY <1>1, <1>7 DEF Commit, CancelDirective, outside
<1> QED
  BY <1>1, <1>2, <1>3, <1>4, <1>5, <1>6, <1>7 DEF Next, vars

\* No transaction disappears from the engine as long as the producers' queues
\* drop none of its messages: it is in a queue, in a topic at or after the offset
\* its consumer would restart from, or reported, after any number of restarts.
THEOREM RestartsLoseNothing == Spec => []NothingVanishes
<1>1. Init => TokenInv
  BY DEF Init, TokenInv
<1>2. Inv /\ TokenInv /\ [Next]_vars => TokenInv'
  BY NextTokenInv
<1>3. ASSUME Inv, TokenInv PROVE NothingVanishes
  <2> SUFFICES ASSUME NEW t \in submitted \ lost PROVE UnderWay(t) \/ outcome[t] # <<>>
    BY DEF NothingVanishes
  <2>1. PICK kind, c, d, i : Token(t, kind, c, d, i)
    BY <1>3 DEF TokenInv, HasToken
  <2>2. CASE LogToken(t, c, i)
    <3>1. /\ c \in Consumers /\ committed[c] \in Nat /\ pos[c] \in Nat /\ committed[c] <= pos[c]
          /\ Len(log[c]) \in Nat
      BY <1>3, <2>2, LogTypes DEF LogToken
    <3>2. i \in (committed[c] + 1)..Len(log[c])
      BY <2>2, <3>1 DEF LogToken
    <3> QED BY <2>2, <3>1, <3>2 DEF LogToken, UnderWay
  <2>3. CASE OutToken(t, c, d, i)
    BY <2>3 DEF OutToken, CarriesOn, UnderWay
  <2>4. CASE i \in DOMAIN outcome[t]
    <3>1. DOMAIN <<>> = {}
      OBVIOUS
    <3> QED BY <2>4, <3>1
  <2> QED BY <2>1, <2>2, <2>3, <2>4 DEF Token
<1>4. Spec => [](Inv /\ TokenInv)
  BY <1>1, <1>2, Invariance, PTL DEF Spec
<1> QED
  BY <1>3, <1>4, PTL-----------------------------------------------------------------------------
(* No token is doubled *)

\* Where the tokens after an iteration come from: they were there, or the message
\* that was read was one.
LEMMA ConsumeOrigin ==
    ASSUME Inv, NEW c \in Consumers, Ready(c), StoreOffsets(c), UNCHANGED <<log, outcome>>,
           NEW new, Emits(c, new), NEW p, p = pos[c] + 1,
           NEW t, NEW kind, NEW b, NEW d, NEW i, Token(t, kind, b, d, i)'
    PROVE  \/ Token(t, kind, b, d, i) /\ ~(kind = "log" /\ b = c /\ i = p)
           \/ /\ kind = "out" /\ b = c /\ d \in Destinations /\ i \in Nat
              /\ i - Len(out[c][d]) \in DOMAIN new[d]
              /\ CarriesOn(d, new[d][i - Len(out[c][d])])
              /\ Token(t, "log", c, c, p)
<1>1. /\ pos[c] \in Nat /\ pos'[c] = pos[c] + 1
      /\ \A e \in Consumers : e # c => pos'[e] = pos[e]
  BY ReadAfter
<1>2. CASE kind = "log" /\ d = b /\ LogToken(t, b, i)'
  <2>1. LogToken(t, b, i) /\ ~(b = c /\ i = p)
    BY <1>1, <1>2 DEF LogToken
  <2> QED BY <1>2, <2>1 DEF Token
<1>3. CASE kind = "out" /\ OutToken(t, b, d, i)'
  <2>1. /\ b \in Consumers /\ d \in Destinations /\ i \in DOMAIN out'[b][d]
        /\ out'[b][d][i].id = t /\ CarriesOn(d, out'[b][d][i])
    BY <1>3 DEF OutToken, CarriesOn
  <2>2. CASE i \in DOMAIN out[b][d]
    <3>1. out'[b][d][i] = out[b][d][i]
      BY <2>1, <2>2, QueueAfter
    <3>2. OutToken(t, b, d, i)
      BY <2>1, <2>2, <3>1 DEF OutToken
    <3> QED BY <1>3, <3>2 DEF Token
  <2>3. CASE i \notin DOMAIN out[b][d]
    <3> DEFINE j == i - Len(out[b][d])
    <3>1. b = c /\ j \in DOMAIN new[d] /\ i \in Nat /\ out'[b][d][i] = new[d][j]
      BY <2>1, <2>3, QueueAfter
    <3>2. new[d][j].id = Msg(c).id
      BY <2>1, <3>1, QueueAfter
    <3>3. Msg(c).id = t /\ CarriesOn(d, new[d][j])
      BY <2>1, <3>1, <3>2
    <3> HIDE DEF j
    <3>4. Msg(c).upon # "BAILOUT"
      BY <2>1, <3>1, <3>3 DEF Emits, NoneCarriesOn
    <3>5. LogToken(t, c, p)
      BY <1>1, <3>3, <3>4, LogTypes DEF LogToken, Msg, Ready
    <3> QED BY <1>3, <2>1, <3>1, <3>3, <3>5 DEF Token, j
  <2> QED BY <2>2, <2>3
<1>4. CASE kind = "end" /\ b = Reports /\ d = Reports /\ i \in DOMAIN outcome'[t]
  BY <1>4 DEF Token
<1> QED
  BY <1>2, <1>3, <1>4 DEF Token

LEMMA ConsumeUnique ==
    ASSUME Inv, NEW c \in Consumers, Consume(c), NEW t, AtMostOne(t)
    PROVE  AtMostOne(t)' /\ (HasToken(t)' => HasToken(t))
<1>1. /\ Ready(c) /\ UNCHANGED <<log, outcome>>
      /\ Handled(c) \/ UNCHANGED <<out, pos>>
  BY ConsumeEffect DEF Effect, Iteration, outside
<1>2. CASE UNCHANGED <<out, pos>>
  BY <1>1, <1>2, TokensSame DEF AtMostOne, HasToken
<1>3. CASE Handled(c)
  <2>1. PICK new : Emits(c, new)
    BY <1>3 DEF Handled
  <2>2. PICK p : p = pos[c] + 1
    OBVIOUS
  <2> DEFINE Old(kind, b, d, i) ==
                 Token(t, kind, b, d, i) /\ ~(kind = "log" /\ b = c /\ i = p)
             New(kind, b, d, i) ==
                 /\ kind = "out" /\ b = c /\ d \in Destinations /\ i \in Nat
                 /\ i - Len(out[c][d]) \in DOMAIN new[d]
                 /\ CarriesOn(d, new[d][i - Len(out[c][d])])
                 /\ Token(t, "log", c, c, p)
  <2>3. ASSUME NEW kind, NEW b, NEW d, NEW i, Token(t, kind, b, d, i)'
        PROVE  Old(kind, b, d, i) \/ New(kind, b, d, i)
    BY <1>1, <1>3, <2>1, <2>2, <2>3, ConsumeOrigin DEF Handled
  <2>4. ASSUME NEW k1, NEW b1, NEW d1, NEW i1, NEW k2, NEW b2, NEW d2, NEW i2,
               New(k1, b1, d1, i1), New(k2, b2, d2, i2)
        PROVE  d1 = d2 /\ i1 = i2
    <3>1. Msg(c).upon # "BAILOUT"
      BY <2>1, <2>4 DEF Emits, NoneCarriesOn
    <3>2. OneCarriesOn(new)
      BY <2>1, <3>1 DEF Emits
    <3>3. d1 = d2 /\ i1 - Len(out[c][d1]) = i2 - Len(out[c][d2])
      BY <2>4, <3>2 DEF OneCarriesOn
    <3>4. Len(out[c][d1]) \in Nat /\ i1 - Len(out[c][d1]) \in Nat /\ i2 - Len(out[c][d1]) \in Nat
      BY <2>1, <2>4, <3>3, QueueAfter
    <3> QED BY <2>4, <3>3, <3>4
  <2>5. ASSUME NEW k1, NEW b1, NEW d1, NEW i1, NEW k2, NEW b2, NEW d2, NEW i2,
               Token(t, k1, b1, d1, i1)', Token(t, k2, b2, d2, i2)'
        PROVE  k1 = k2 /\ b1 = b2 /\ d1 = d2 /\ i1 = i2
    <3>1. Old(k1, b1, d1, i1) \/ New(k1, b1, d1, i1)
      BY <2>3, <2>5
    <3>2. Old(k2, b2, d2, i2) \/ New(k2, b2, d2, i2)
      BY <2>3, <2>5
    <3>3. CASE Old(k1, b1, d1, i1) /\ Old(k2, b2, d2, i2)
      BY <3>3 DEF AtMostOne
    <3>4. ~(Old(k1, b1, d1, i1) /\ New(k2, b2, d2, i2))
      BY DEF AtMostOne
    <3>5. ~(New(k1, b1, d1, i1) /\ Old(k2, b2, d2, i2))
      BY DEF AtMostOne
    <3>6. CASE New(k1, b1, d1, i1) /\ New(k2, b2, d2, i2)
      BY <2>4, <3>6
    <3> HIDE DEF Old, New
    <3> QED BY <3>1, <3>2, <3>3, <3>4, <3>5, <3>6
  <2>6. AtMostOne(t)'
    BY <2>5 DEF AtMostOne
  <2>7. HasToken(t)' => HasToken(t)
    BY <2>3 DEF HasToken
  <2> QED BY <2>6, <2>7
<1> QED
  BY <1>1, <1>2, <1>3
\* Where the tokens after a delivery come from.
LEMMA DeliverOrigin ==
    ASSUME Inv, NEW c \in Consumers, NEW d \in Destinations, Deliver(c, d), NEW t \in Txns,
           NEW kind, NEW b, NEW e, NEW i, Token(t, kind, b, e, i)'
    PROVE  \/ Token(t, kind, b, e, i) /\ ~(kind = "out" /\ b = c /\ e = d)
           \/ /\ kind = "out" /\ b = c /\ e = d /\ i \in Nat \ {0}
              /\ Token(t, "out", c, d, i + 1)
           \/ /\ d # Reports /\ kind = "log" /\ b = d /\ e = d /\ i = Len(log[d]) + 1
              /\ Token(t, "out", c, d, 1)
           \/ /\ d = Reports /\ kind = "end" /\ b = d /\ e = d /\ i = Len(outcome[t]) + 1
              /\ Token(t, "out", c, d, 1)
<1> DEFINE msg == Head(out[c][d])
<1>1. /\ out[c][d] # <<>> /\ out' = [out EXCEPT ![c][d] = Tail(@)]
      /\ pos' = pos
  BY DEF Deliver
<1>2. IF d = Reports THEN msg \in ReportMsgs ELSE d \in Consumers /\ msg \in Good(d)
  BY <1>1, HeadTaken
<1>3. Shifted(c, d)
  BY <1>1, TailAfter
<1>4. ASSUME msg.id = t, CarriesOn(d, msg) PROVE Token(t, "out", c, d, 1)
  BY <1>3, <1>4 DEF Shifted, Token, OutToken
<1>5. CASE kind = "log" /\ e = b /\ LogToken(t, b, i)'
  <2>1. /\ b \in Consumers /\ i \in Nat /\ pos[b] < i /\ i <= Len(log'[b])
        /\ log'[b][i].id = t /\ log'[b][i].upon # "BAILOUT"
    BY <1>1, <1>5 DEF LogToken
  <2>2. CASE log'[b] = log[b]
    BY <1>5, <2>1, <2>2 DEF LogToken, Token
  <2>3. CASE log'[b] # log[b]
    <3>1. d # Reports /\ log' = [log EXCEPT ![d] = Append(@, msg)]
      BY <2>3 DEF Deliver
    <3>2. d \in Consumers /\ msg \in Good(d)
      BY <1>2, <3>1
    <3> HIDE DEF msg
    <3>3. /\ LogKept /\ \A x \in Consumers : log'[x] = IF x = d THEN Append(log[x], msg) ELSE log[x]
          /\ Len(log'[d]) = Len(log[d]) + 1 /\ log'[d][Len(log[d]) + 1] = msg
      BY <3>1, <3>2, AppendKept
    <3>4. b = d /\ Len(log[d]) \in Nat
      BY <2>1, <2>3, <3>2, <3>3, LogTypes
    <3>5. CASE i = Len(log[d]) + 1
      <4>1. msg.id = t /\ CarriesOn(d, msg)
        BY <2>1, <3>3, <3>4, <3>5 DEF CarriesOn
      <4>2. Token(t, "out", c, d, 1)
        BY <1>4, <4>1
      <4> QED BY <1>5, <3>1, <3>4, <3>5, <4>2
    <3>6. CASE i # Len(log[d]) + 1
      <4>1. pos[d] \in Nat
        BY <3>2, LogTypes
      <4>2. i \in 1..Len(log[d])
        BY <2>1, <3>3, <3>4, <3>6, <4>1
      <4>3. log'[d][i] = log[d][i] /\ i <= Len(log[d])
        BY <3>2, <3>3, <4>2 DEF LogKept
      <4>4. LogToken(t, b, i)
        BY <2>1, <3>4, <4>3 DEF LogToken
      <4> QED BY <1>5, <4>4 DEF Token
    <3> QED BY <3>5, <3>6
  <2> QED BY <2>2, <2>3
<1>6. CASE kind = "out" /\ OutToken(t, b, e, i)'
  <2>1. /\ b \in Consumers /\ e \in Destinations /\ i \in DOMAIN out'[b][e]
        /\ out'[b][e][i].id = t /\ CarriesOn(e, out'[b][e][i])
    BY <1>6 DEF OutToken, CarriesOn
  <2>2. CASE ~(b = c /\ e = d)
    BY <1>3, <1>6, <2>1, <2>2 DEF Shifted, Token, OutToken
  <2>3. CASE b = c /\ e = d
    <3>1. i \in Nat \ {0} /\ i + 1 \in DOMAIN out[c][d] /\ out'[c][d][i] = out[c][d][i + 1]
      BY ONLY <1>3, <2>1, <2>3 DEF Shifted
    <3>2. Token(t, "out", c, d, i + 1)
      BY <2>1, <2>3, <3>1 DEF Token, OutToken
    <3> QED BY <1>6, <2>3, <3>1, <3>2
  <2> QED BY <2>2, <2>3
<1>7. CASE kind = "end" /\ b = Reports /\ e = Reports /\ i \in DOMAIN outcome'[t]
  <2>1. CASE outcome'[t] = outcome[t]
    BY <1>7, <2>1 DEF Token
  <2>2. CASE outcome'[t] # outcome[t]
    <3>1. d = Reports /\ outcome' = [outcome EXCEPT ![msg.id] = Append(@, msg.code)]
      BY <2>2 DEF Deliver
    <3>2. outcome \in [Txns -> Seq(Codes)] /\ msg.code \in Codes
      BY <1>2, <3>1 DEF Inv, RestOK, ReportMsgs
    <3>3. msg.id = t /\ CarriesOn(d, msg)
      BY <2>2, <3>1, <3>2 DEF CarriesOn
    <3>4. Token(t, "out", c, d, 1)
      BY <1>4, <3>3
    <3> HIDE DEF msg
    <3>5. outcome'[t] = Append(outcome[t], msg.code) /\ outcome[t] \in Seq(Codes)
      BY <3>1, <3>2, <3>3
    <3>6. /\ Append(outcome[t], msg.code) \in Seq(Codes)
          /\ Len(Append(outcome[t], msg.code)) = Len(outcome[t]) + 1
      BY <3>2, <3>5, AppendProperties
    <3>7. i \in DOMAIN outcome[t] \/ i = Len(outcome[t]) + 1
      BY <1>7, <3>5, <3>6, LenProperties
    <3> QED BY <1>7, <3>1, <3>4, <3>7 DEF Token
  <2> QED BY <2>1, <2>2
<1> QED
  BY <1>5, <1>6, <1>7 DEF Token

LEMMA DeliverUnique ==
    ASSUME Inv, NEW c \in Consumers, NEW d \in Destinations, Deliver(c, d), NEW t \in Txns,
           AtMostOne(t)
    PROVE  AtMostOne(t)' /\ (HasToken(t)' => HasToken(t))
<1> DEFINE Old(kind, b, e, i) ==
               Token(t, kind, b, e, i) /\ ~(kind = "out" /\ b = c /\ e = d)
           Moved(kind, b, e, i) ==
               /\ kind = "out" /\ b = c /\ e = d /\ i \in Nat \ {0}
               /\ Token(t, "out", c, d, i + 1)
           New(kind, b, e, i) ==
               /\ Token(t, "out", c, d, 1)
               /\ \/ d # Reports /\ kind = "log" /\ b = d /\ e = d /\ i = Len(log[d]) + 1
                  \/ d = Reports /\ kind = "end" /\ b = d /\ e = d /\ i = Len(outcome[t]) + 1
<1>1. ASSUME NEW kind, NEW b, NEW e, NEW i, Token(t, kind, b, e, i)'
      PROVE  Old(kind, b, e, i) \/ Moved(kind, b, e, i) \/ New(kind, b, e, i)
  BY <1>1, DeliverOrigin
<1>2. ASSUME NEW k1, NEW b1, NEW e1, NEW i1, NEW k2, NEW b2, NEW e2, NEW i2,
             Token(t, k1, b1, e1, i1)', Token(t, k2, b2, e2, i2)'
      PROVE  k1 = k2 /\ b1 = b2 /\ e1 = e2 /\ i1 = i2
  <2>1. Old(k1, b1, e1, i1) \/ Moved(k1, b1, e1, i1) \/ New(k1, b1, e1, i1)
    BY <1>1, <1>2
  <2>2. Old(k2, b2, e2, i2) \/ Moved(k2, b2, e2, i2) \/ New(k2, b2, e2, i2)
    BY <1>1, <1>2
  <2>3. CASE Old(k1, b1, e1, i1) /\ Old(k2, b2, e2, i2)
    BY <2>3 DEF AtMostOne
  <2>4. /\ ~(Old(k1, b1, e1, i1) /\ (Moved(k2, b2, e2, i2) \/ New(k2, b2, e2, i2)))
        /\ ~(Old(k2, b2, e2, i2) /\ (Moved(k1, b1, e1, i1) \/ New(k1, b1, e1, i1)))
    BY DEF AtMostOne
  <2>5. CASE Moved(k1, b1, e1, i1) /\ Moved(k2, b2, e2, i2)
    <3>1. i1 + 1 = i2 + 1
      BY <2>5 DEF AtMostOne
    <3> QED BY <2>5, <3>1
  <2>6. /\ ~(Moved(k1, b1, e1, i1) /\ New(k2, b2, e2, i2))
        /\ ~(Moved(k2, b2, e2, i2) /\ New(k1, b1, e1, i1))
    <3>1. ASSUME NEW n \in Nat \ {0}, Token(t, "out", c, d, n + 1), Token(t, "out", c, d, 1)
          PROVE  FALSE
      <4>1. n + 1 = 1
        BY <3>1 DEF AtMostOne
      <4> QED BY <4>1
    <3> QED BY <3>1
  <2>7. CASE New(k1, b1, e1, i1) /\ New(k2, b2, e2, i2)
    BY <2>7
  <2> HIDE DEF Old, Moved, New
  <2> QED BY <2>1, <2>2, <2>3, <2>4, <2>5, <2>6, <2>7
<1>3. AtMostOne(t)'
  BY <1>2 DEF AtMostOne
<1>4. HasToken(t)' => HasToken(t)
  BY <1>1 DEF HasToken
<1> QED
  BY <1>3, <1>4
LEMMA DeliveryFailsUnique ==
    ASSUME Inv, NEW c \in Consumers, NEW d \in Destinations, DeliveryFails(c, d), NEW t,
           AtMostOne(t)
    PROVE  AtMostOne(t)' /\ (HasToken(t)' => HasToken(t))
<1> DEFINE Old(kind, b, e, i) ==
               Token(t, kind, b, e, i) /\ ~(kind = "out" /\ b = c /\ e = d)
           Moved(kind, b, e, i) ==
               /\ kind = "out" /\ b = c /\ e = d /\ i \in Nat \ {0}
               /\ Token(t, "out", c, d, i + 1)
<1>1. /\ out[c][d] # <<>> /\ out' = [out EXCEPT ![c][d] = Tail(@)]
      /\ UNCHANGED <<pos, log, outcome>>
  BY DEF DeliveryFails
<1>2. Shifted(c, d)
  BY <1>1, TailAfter
<1>3. ASSUME NEW kind, NEW b, NEW e, NEW i, Token(t, kind, b, e, i)'
      PROVE  Old(kind, b, e, i) \/ Moved(kind, b, e, i)
  <2>1. CASE kind = "out" /\ OutToken(t, b, e, i)'
    <3>1. /\ b \in Consumers /\ e \in Destinations /\ i \in DOMAIN out'[b][e]
          /\ out'[b][e][i].id = t /\ CarriesOn(e, out'[b][e][i])
      BY <2>1 DEF OutToken, CarriesOn
    <3>2. CASE ~(b = c /\ e = d)
      BY <1>2, <2>1, <3>1, <3>2 DEF Shifted, Token, OutToken
    <3>3. CASE b = c /\ e = d
      <4>1. i \in Nat \ {0} /\ i + 1 \in DOMAIN out[c][d] /\ out'[c][d][i] = out[c][d][i + 1]
        BY ONLY <1>2, <3>1, <3>3 DEF Shifted
      <4>2. Token(t, "out", c, d, i + 1)
        BY <3>1, <3>3, <4>1 DEF Token, OutToken
      <4> QED BY <2>1, <3>3, <4>1, <4>2
    <3> QED BY <3>2, <3>3
  <2>2. CASE kind # "out"
    <3>1. Token(t, kind, b, e, i)
      BY <1>1, <1>3, <2>2 DEF Token, LogToken
    <3> QED BY <2>2, <3>1
  <2> QED BY <1>3, <2>1, <2>2 DEF Token
<1>4. ASSUME NEW k1, NEW b1, NEW e1, NEW i1, NEW k2, NEW b2, NEW e2, NEW i2,
             Token(t, k1, b1, e1, i1)', Token(t, k2, b2, e2, i2)'
      PROVE  k1 = k2 /\ b1 = b2 /\ e1 = e2 /\ i1 = i2
  <2>1. Old(k1, b1, e1, i1) \/ Moved(k1, b1, e1, i1)
    BY <1>3, <1>4
  <2>2. Old(k2, b2, e2, i2) \/ Moved(k2, b2, e2, i2)
    BY <1>3, <1>4
  <2>3. CASE Old(k1, b1, e1, i1) /\ Old(k2, b2, e2, i2)
    BY <2>3 DEF AtMostOne
  <2>4. /\ ~(Old(k1, b1, e1, i1) /\ Moved(k2, b2, e2, i2))
        /\ ~(Old(k2, b2, e2, i2) /\ Moved(k1, b1, e1, i1))
    BY DEF AtMostOne
  <2>5. CASE Moved(k1, b1, e1, i1) /\ Moved(k2, b2, e2, i2)
    <3>1. i1 + 1 = i2 + 1
      BY <2>5 DEF AtMostOne
    <3> QED BY <2>5, <3>1
  <2> HIDE DEF Old, Moved
  <2> QED BY <2>1, <2>2, <2>3, <2>4, <2>5
<1>5. AtMostOne(t)'
  BY <1>4 DEF AtMostOne
<1>6. HasToken(t)' => HasToken(t)
  BY <1>3 DEF HasToken
<1> QED
  BY <1>5, <1>6

\* A transaction that is submitted had no token, and gets one.
LEMMA SubmitUnique ==
    ASSUME Inv, NEW s \in Txns, Submit(s), NEW t, AtMostOne(t), t = s => ~HasToken(t)
    PROVE  AtMostOne(t)' /\ (t # s /\ HasToken(t)' => HasToken(t))
<1>1. UNCHANGED <<out, pos, outcome>> /\ LogKept
  BY SubmitMoves
<1>2. PICK x \in Consumers, m \in Messages :
         /\ m.id = s
         /\ Len(log'[x]) = Len(log[x]) + 1 /\ log'[x][Len(log[x]) + 1] = m
         /\ \A y \in Consumers : y # x => log'[y] = log[y]
  BY SubmitMoves
<1> DEFINE New(kind, b, e, i) ==
               t = s /\ kind = "log" /\ b = x /\ e = x /\ i = Len(log[x]) + 1
<1>3. ASSUME NEW kind, NEW b, NEW e, NEW i, Token(t, kind, b, e, i)'
      PROVE  Token(t, kind, b, e, i) \/ New(kind, b, e, i)
  <2>1. CASE kind = "log" /\ e = b /\ LogToken(t, b, i)'
    <3>1. /\ b \in Consumers /\ i \in Nat /\ pos[b] < i /\ i <= Len(log'[b])
          /\ log'[b][i].id = t /\ log'[b][i].upon # "BAILOUT"
      BY <1>1, <2>1 DEF LogToken
    <3>2. pos[b] \in Nat /\ Len(log[b]) \in Nat
      BY <3>1, LogTypes
    <3>3. CASE b = x /\ i = Len(log[x]) + 1
      BY <1>2, <2>1, <3>1, <3>3
    <3>4. CASE ~(b = x /\ i = Len(log[x]) + 1)
      <4>1. i \in 1..Len(log[b])
        BY <1>2, <3>1, <3>2, <3>4
      <4>2. log'[b][i] = log[b][i] /\ i <= Len(log[b])
        BY <1>1, <3>1, <4>1 DEF LogKept
      <4>3. LogToken(t, b, i)
        BY <3>1, <4>2 DEF LogToken
      <4> QED BY <2>1, <4>3 DEF Token
    <3> QED BY <3>3, <3>4
  <2>2. CASE kind # "log"
    BY <1>1, <1>3, <2>2 DEF Token, OutToken, CarriesOn
  <2> QED BY <1>3, <2>1, <2>2 DEF Token
<1>4. CASE t = s
  <2>1. \A kind, b, e, i : Token(t, kind, b, e, i)' => New(kind, b, e, i)
    BY <1>3, <1>4 DEF HasToken
  <2> QED BY <1>4, <2>1 DEF AtMostOne
<1>5. CASE t # s
  <2>1. \A kind, b, e, i : Token(t, kind, b, e, i)' => Token(t, kind, b, e, i)
    BY <1>3, <1>5
  <2>2. AtMostOne(t)'
    BY <2>1 DEF AtMostOne
  <2>3. HasToken(t)' => HasToken(t)
    BY <2>1 DEF HasToken
  <2> QED BY <2>2, <2>3
<1> QED
  BY <1>4, <1>5

LEMMA NextUniqueInv ==
    ASSUME Inv, UniqueInv, [Next]_vars
    PROVE  UniqueInv'
<1> SUFFICES ASSUME crashes' = 0, NEW t \in Txns
             PROVE  AtMostOne(t)' /\ (t \notin submitted' => ~HasToken(t)')
  BY DEF UniqueInv
<1>1. ASSUME crashes = 0, submitted' = submitted,
             AtMostOne(t) => AtMostOne(t)' /\ (HasToken(t)' => HasToken(t))
      PROVE  AtMostOne(t)' /\ (t \notin submitted' => ~HasToken(t)')
  BY <1>1 DEF UniqueInv
<1>2. ASSUME UNCHANGED <<log, out, pos, outcome, submitted, crashes>>
      PROVE  AtMostOne(t)' /\ (t \notin submitted' => ~HasToken(t)')
  <2>1. AtMostOne(t) => AtMostOne(t)'
    BY <1>2, TokensSame DEF AtMostOne
  <2>2. HasToken(t)' => HasToken(t)
    BY <1>2, TokensSame DEF HasToken
  <2> QED BY <1>1, <1>2, <2>1, <2>2
<1>3. ASSUME NEW s \in Txns, Submit(s)
      PROVE  AtMostOne(t)' /\ (t \notin submitted' => ~HasToken(t)')
  <2>1. submitted' = submitted \cup {s} /\ s \notin submitted /\ crashes = 0
    BY <1>3 DEF Submit
  <2>2. AtMostOne(t) /\ (t \notin submitted => ~HasToken(t))
    BY <2>1 DEF UniqueInv
  <2> QED BY <1>3, <2>1, <2>2, SubmitUnique
<1>4. ASSUME NEW c \in Consumers, Consume(c)
      PROVE  AtMostOne(t)' /\ (t \notin submitted' => ~HasToken(t)')
  <2>1. UNCHANGED <<submitted, crashes>>
    BY <1>4, ConsumeEffect DEF Effect, Iteration, outside
  <2> QED BY <1>1, <1>4, <2>1, ConsumeUnique
<1>5. ASSUME NEW c \in Consumers, NEW d \in Destinations, Deliver(c, d) \/ DeliveryFails(c, d)
      PROVE  AtMostOne(t)' /\ (t \notin submitted' => ~HasToken(t)')
  <2>1. UNCHANGED <<submitted, crashes>>
    BY <1>5 DEF Deliver, DeliveryFails
  <2> QED BY <1>1, <1>5, <2>1, DeliverUnique, DeliveryFailsUnique
<1>6. ~\E c \in Consumers : Crash(c)
  <2>1. crashes \in Nat
    BY BoundsAssumption DEF Inv, RestOK
  <2>2. crashes + 1 # 0
    BY <2>1
  <2> QED BY <2>2 DEF Crash
<1>7. ASSUME NEW c \in Consumers, Commit(c) \/ \E s \in Txns : CancelDirective(c, s)
      PROVE  AtMostOne(t)' /\ (t \notin submitted' => ~HasToken(t)')
  BY <1>2, <1>7 DEF Commit, CancelDirective, outside
<1> QED
  BY <1>2, <1>3, <1>4, <1>5, <1>6, <1>7 DEF Next, vars

\* While no consumer restarts, no transaction is reported twice: every way a
\* step can end (a result, a refusal, an error of the database, a cancellation)
\* replaces the message that was read by a single one that carries on or reports.
THEOREM ReportedAtMostOnce == Spec => []ReportedOnce
<1>1. Init => UniqueInv
  <2> SUFFICES ASSUME Init, NEW t \in Txns PROVE ~HasToken(t) /\ AtMostOne(t)
    BY DEF UniqueInv
  <2>1. DOMAIN <<>> = {} /\ Len(<<>>) = 0
    OBVIOUS
  <2>2. ASSUME NEW kind, NEW c, NEW d, NEW i PROVE ~Token(t, kind, c, d, i)
    <3>1. ~LogToken(t, c, i)
      BY <2>1 DEF Init, LogToken
    <3>2. ~OutToken(t, c, d, i)
      BY <2>1 DEF Init, OutToken
    <3>3. DOMAIN outcome[t] = {}
      BY <2>1 DEF Init
    <3> QED BY <3>1, <3>2, <3>3 DEF Token
  <2> QED BY <2>2 DEF HasToken, AtMostOne
<1>2. Inv /\ UniqueInv /\ [Next]_vars => UniqueInv'
  BY NextUniqueInv
<1>3. ASSUME Inv, UniqueInv PROVE ReportedOnce
  <2> SUFFICES ASSUME crashes = 0, NEW t \in Txns, ~(Len(outcome[t]) <= 1) PROVE FALSE
    BY DEF ReportedOnce
  <2>1. outcome[t] \in Seq(Codes)
    BY <1>3 DEF Inv, RestOK
  <2>2. 1 \in DOMAIN outcome[t] /\ 2 \in DOMAIN outcome[t]
    BY <2>1, LenProperties
  <2>3. Token(t, "end", Reports, Reports, 1) /\ Token(t, "end", Reports, Reports, 2)
    BY <2>2 DEF Token
  <2>4. 1 = 2
    BY <1>3, <2>3 DEF UniqueInv, AtMostOne
  <2> QED BY <2>4
<1>4. Spec => [](Inv /\ UniqueInv)
  BY <1>1, <1>2, Invariance, PTL DEF Spec
<1> QED
  BY <1>3, <1>4, PTL-----------------------------------------------------------------------------
(* Storage is not behind the writes that were done *)

\* The write a storage message asks for is in the rows, or a newer one is.
Caught(m, rows) ==
    LET step == CurrentStep(m)
    IN IsStorageWrite(step) /\ step.key # NoKey =>
           step.key \in DOMAIN rows /\ OffsetGTE(rows[step.key].off, step.off)

NewestInv ==
    \A c \in Consumers : \A i \in 1..pos[c] :
        MustBeDone(log[c][i]) =>
            /\ c[1] = "STORAGE" => Caught(log[c][i], db)
            /\ c[1] = "STORAGE_SCND" => Caught(log[c][i], scnd)

LEMMA StorageStep ==
    ASSUME Inv, NEW c \in Consumers, c[1] # "PROCESS", NEW i \in DOMAIN log[c]
    PROVE  /\ CurrentStep(log[c][i]).off \in CmpdOffsets
           /\ CurrentStep(log[c][i]).cmd = "Delete" => DeletesAsked
<1> DEFINE m == log[c][i]
<1>1. TxnOK(m) /\ Resumable(c, m)
  BY OnTopic
<1> HIDE DEF m
<1>2. CurrentStep(m).off # Nil
  BY <1>1 DEF Resumable
<1>3. StepOK(CurrentStep(m), m.id)
  BY <1>1, TxnFields DEF IsTodo
<1>4. Versioned(CurrentStep(m).off, m.id) /\ (CurrentStep(m).cmd = "Delete" => DeletesAsked)
  BY <1>2, <1>3 DEF StepOK
<1> QED
  BY <1>4 DEF Versioned, m

LEMMA CaughtKept ==
    ASSUME NEW m, CurrentStep(m).off \in CmpdOffsets, NEW rows, NEW new, NEW K, NEW I,
           IsMapTo(rows, K, InstanceRecord(I)), IsMapTo(new, K, InstanceRecord(I)),
           \A k \in DOMAIN rows : k \in DOMAIN new /\ OffsetGTE(new[k].off, rows[k].off),
           Caught(m, rows)
    PROVE  Caught(m, new)
<1> DEFINE step == CurrentStep(m)
<1> SUFFICES ASSUME IsStorageWrite(step), step.key # NoKey
             PROVE  step.key \in DOMAIN new /\ OffsetGTE(new[step.key].off, step.off)
  BY DEF Caught
<1>1. step.key \in DOMAIN rows /\ OffsetGTE(rows[step.key].off, step.off)
  BY DEF Caught
<1> HIDE DEF step
<1>2. step.key \in DOMAIN new /\ OffsetGTE(new[step.key].off, rows[step.key].off)
  BY <1>1
<1>3. /\ rows[step.key].off \in CmpdOffsets /\ new[step.key].off \in CmpdOffsets
      /\ step.off \in CmpdOffsets
  BY <1>1, <1>2 DEF IsMapTo, InstanceRecord, step
<1> QED
  BY <1>1, <1>2, <1>3, OffsetOrder

\* A consumer's iteration does the write it reads, and makes no row older.
LEMMA ConsumeNewest ==
    ASSUME Inv, Inv', ~DeletesAsked, NewestInv, NEW c \in Consumers, Consume(c)
    PROVE  NewestInv'
<1>1. /\ Ready(c) /\ log' = log
      /\ Handled(c) \/ UNCHANGED <<out, pos>>
      /\ faults' \in 0..MaxFaults /\ faults <= faults'
  BY ConsumeEffect DEF Effect, Iteration, outside
<1>2. /\ Writes(c, "STORAGE", db, db') /\ WriteDone(c, "STORAGE", db')
      /\ Writes(c, "STORAGE_SCND", scnd, scnd') /\ WriteDone(c, "STORAGE_SCND", scnd')
  BY ConsumeEffect DEF Effect
<1>3. faults \in Nat /\ faults' \in Nat
  BY BoundsAssumption DEF Inv, RestOK
<1>4. /\ IsMapTo(db, Keys, InstanceRecord(Instances)) /\ IsMapTo(db', Keys, InstanceRecord(Instances))
      /\ IsMapTo(scnd, Keys, InstanceRecord(Instances)) /\ IsMapTo(scnd', Keys, InstanceRecord(Instances))
  BY DEF Inv, MapsOK
<1>5. /\ \A k \in DOMAIN db : k \in DOMAIN db' /\ OffsetGTE(db'[k].off, db[k].off)
      /\ \A k \in DOMAIN scnd : k \in DOMAIN scnd' /\ OffsetGTE(scnd'[k].off, scnd[k].off)
  <2>1. /\ \A k \in DOMAIN db \cap DOMAIN db' : OffsetGTE(db'[k].off, db[k].off)
        /\ DOMAIN db \subseteq DOMAIN db'
    BY <1>1, <1>2, NewerRows
  <2>2. /\ \A k \in DOMAIN scnd \cap DOMAIN scnd' : OffsetGTE(scnd'[k].off, scnd[k].off)
        /\ DOMAIN scnd \subseteq DOMAIN scnd'
    BY <1>1, <1>2, NewerRows
  <2> QED BY <2>1, <2>2
<1>6. ASSUME NEW b \in Consumers, NEW i \in 1..pos'[b], MustBeDone(log[b][i])'
      PROVE  /\ b[1] = "STORAGE" => Caught(log[b][i], db')
             /\ b[1] = "STORAGE_SCND" => Caught(log[b][i], scnd')
  <2>1. /\ log[b][i].upon = "BAILOUT" \/ (faults' = 0 /\ Cancels = {})
        /\ MustBeDone(log[b][i])
    BY <1>1, <1>3, <1>6 DEF MustBeDone
  <2>2. i \in DOMAIN log[b] /\ pos[b] \in Nat
    <3>1. Len(log[b]) \in Nat /\ DOMAIN log[b] = 1..Len(log[b]) /\ pos[b] \in Nat
      BY LogTypes
    <3>2. pos'[b] \in Nat /\ pos'[b] <= Len(log[b])
      BY <1>1 DEF Inv, PositionsOK
    <3> QED BY <3>1, <3>2
  <2>3. CASE i \in 1..pos[b]
    <3>1. /\ b[1] = "STORAGE" => Caught(log[b][i], db)
          /\ b[1] = "STORAGE_SCND" => Caught(log[b][i], scnd)
      BY <2>1, <2>3 DEF NewestInv
    <3>2. b[1] # "PROCESS" => CurrentStep(log[b][i]).off \in CmpdOffsets
      BY <2>2, StorageStep
    <3>3. b[1] = "STORAGE" => Caught(log[b][i], db')
      BY <1>4, <1>5, <3>1, <3>2, CaughtKept
    <3>4. b[1] = "STORAGE_SCND" => Caught(log[b][i], scnd')
      BY <1>4, <1>5, <3>1, <3>2, CaughtKept
    <3> QED BY <3>3, <3>4
  <2>4. CASE i \notin 1..pos[b]
    <3>1. Handled(c)
      BY <1>1, <1>6, <2>4
    <3>2. /\ pos[c] \in Nat /\ pos'[c] = pos[c] + 1
          /\ \A e \in Consumers : e # c => pos'[e] = pos[e]
      BY <1>1, <3>1, ReadAfter DEF Handled
    <3>3. b = c /\ i = pos[c] + 1
      BY <1>6, <2>4, <3>2
    <3>4. log[b][i] = Msg(c) /\ pos' # pos
      BY <3>2, <3>3 DEF Msg
    <3>5. b[1] # "PROCESS" => CurrentStep(Msg(c)).cmd # "Delete"
      BY <2>2, <3>4, StorageStep
    <3> QED BY <1>2, <2>1, <3>3, <3>4, <3>5 DEF WriteDone, Caught
  <2> QED BY <2>3, <2>4
<1> QED
  BY <1>1, <1>6 DEF NewestInv

\* The other steps leave the rows alone and read nothing.
LEMMA RestNewest ==
    ASSUME Inv, NewestInv, LogKept, UNCHANGED <<db, scnd>>,
           pos' \in [Consumers -> Nat], \A c \in Consumers : pos'[c] <= pos[c],
           faults' \in Nat, faults <= faults'
    PROVE  NewestInv'
<1>1. faults \in Nat
  BY BoundsAssumption DEF Inv, RestOK
<1>2. ASSUME NEW c \in Consumers, NEW i \in 1..pos'[c], MustBeDone(log[c][i])'
      PROVE  /\ log'[c][i] = log[c][i]
             /\ c[1] = "STORAGE" => Caught(log[c][i], db)
             /\ c[1] = "STORAGE_SCND" => Caught(log[c][i], scnd)
  <2>1. i \in 1..pos[c] /\ i \in 1..Len(log[c])
    <3>1. pos'[c] \in Nat /\ pos[c] \in Nat /\ Len(log[c]) \in Nat /\ pos'[c] <= pos[c]
          /\ pos[c] <= Len(log[c])
      BY LogTypes
    <3> QED BY <3>1
  <2>2. log'[c][i] = log[c][i]
    BY <2>1 DEF LogKept
  <2>3. MustBeDone(log[c][i])
    BY <1>1, <1>2, <2>2 DEF MustBeDone
  <2> QED BY <2>1, <2>2, <2>3 DEF NewestInv
<1> QED
  BY <1>2 DEF NewestInv

LEMMA NextNewestInv ==
    ASSUME Inv, ~DeletesAsked, NewestInv, [Next]_vars
    PROVE  NewestInv'
<1>1. Inv'
  BY NextInv
<1>2. /\ pos' \in [Consumers -> Nat] /\ \A c \in Consumers : pos[c] \in Nat /\ Len(log[c]) \in Nat
      /\ faults \in Nat /\ faults' \in Nat
  BY <1>1, LogTypes, BoundsAssumption DEF Inv, PositionsOK, RestOK
<1>3. log' = log => LogKept
  BY <1>2 DEF LogKept
<1>4. pos' = pos => \A c \in Consumers : pos'[c] <= pos[c]
  BY <1>2
<1>5. ASSUME NEW c \in Consumers, Consume(c) PROVE NewestInv'
  BY <1>1, <1>5, ConsumeNewest
<1>6. ASSUME UNCHANGED <<log, pos, db, scnd, faults>> PROVE NewestInv'
  BY <1>2, <1>3, <1>4, <1>6, RestNewest
<1>7. ASSUME NEW s \in Txns, Submit(s) PROVE NewestInv'
  <2>1. UNCHANGED <<pos, db, scnd, faults>> /\ LogKept
    BY <1>7, SubmitMoves DEF Submit
  <2> QED BY <1>2, <1>4, <2>1, RestNewest
<1>8. ASSUME NEW c \in Consumers, NEW d \in Destinations, Deliver(c, d) PROVE NewestInv'
  <2>1. UNCHANGED <<pos, db, scnd, faults>>
    BY <1>8 DEF Deliver
  <2>2. LogKept
    <3>1. CASE d = Reports
      BY <1>3, <1>8, <3>1 DEF Deliver
    <3>2. CASE d # Reports
      <4> DEFINE msg == Head(out[c][d])
      <4>1. d \in Consumers /\ msg \in Good(d)
        BY <1>8, <3>2, HeadTaken DEF Deliver
      <4>2. log' = [log EXCEPT ![d] = Append(@, msg)]
        BY <1>8, <3>2 DEF Deliver
      <4> HIDE DEF msg
      <4> QED BY <4>1, <4>2, AppendKept
    <3> QED BY <3>1, <3>2
  <2> QED BY <1>2, <1>4, <2>1, <2>2, RestNewest
<1>9. ASSUME NEW c \in Consumers, NEW d \in Destinations, DeliveryFails(c, d) PROVE NewestInv'
  <2>1. UNCHANGED <<log, pos, db, scnd>> /\ faults' = faults + 1
    BY <1>9 DEF DeliveryFails
  <2>2. faults <= faults'
    BY <1>2, <2>1
  <2> QED BY <1>2, <1>3, <1>4, <2>1, <2>2, RestNewest
<1>10. ASSUME NEW c \in Consumers, Crash(c) PROVE NewestInv'
  <2>1. UNCHANGED <<log, db, scnd, faults>> /\ pos' = [pos EXCEPT ![c] = committed[c]]
    BY <1>10 DEF Crash
  <2>2. \A b \in Consumers : pos'[b] <= pos[b]
    BY <2>1 DEF Inv, PositionsOK
  <2> QED BY <1>2, <1>3, <2>1, <2>2, RestNewest
<1>11. ASSUME NEW c \in Consumers, Commit(c) \/ \E s \in Txns : CancelDirective(c, s)
       PROVE  NewestInv'
  BY <1>6, <1>11 DEF Commit, CancelDirective, outside
<1> QED
  BY <1>5, <1>6, <1>7, <1>8, <1>9, <1>10, <1>11 DEF Next, vars

\* Where no client asks for a DELETE, neither storage target is behind a write
\* that its consumers have done, whatever was retried, read again or overtaken.
\* With one it may be: Delete keeps no tombstone, and a row that is gone takes a
\* write of any offset.
THEOREM StorageHasNewest == Spec => [](~DeletesAsked => DbHasNewest)
<1>1. Init => NewestInv
  BY DEF Init, NewestInv
<1>2. Inv /\ (~DeletesAsked => NewestInv) /\ [Next]_vars => (~DeletesAsked => NewestInv)'
  <2>1. DeletesAsked' = DeletesAsked
    BY DEF DeletesAsked
  <2> QED BY <2>1, NextNewestInv
<1>3. ASSUME Inv, NewestInv PROVE DbHasNewest
  <2>1. ASSUME NEW p \in Parts, NEW i \in 1..pos[<<"STORAGE", p>>],
               NEW step, step = CurrentStep(log[<<"STORAGE", p>>][i]),
               IsStorageWrite(step), MustBeDone(log[<<"STORAGE", p>>][i]), step.key \in DOMAIN db
        PROVE  OffsetGTE(db[step.key].off, step.off)
    <3> DEFINE c == <<"STORAGE", p>>
    <3>1. c \in Consumers /\ c[1] = "STORAGE"
      BY DEF Consumers, Systems
    <3>2. step.key # NoKey
      BY <1>3, <2>1, NilAssumption DEF Inv, MapsOK, IsMapTo
    <3>3. Caught(log[c][i], db)
      BY <1>3, <2>1, <3>1 DEF NewestInv
    <3> HIDE DEF c
    <3> QED BY <2>1, <3>2, <3>3 DEF Caught, c
  <2>2. ASSUME NEW p \in Parts, NEW i \in 1..pos[<<"STORAGE_SCND", p>>],
               NEW step, step = CurrentStep(log[<<"STORAGE_SCND", p>>][i]),
               IsStorageWrite(step), MustBeDone(log[<<"STORAGE_SCND", p>>][i]),
               step.key \in DOMAIN scnd
        PROVE  OffsetGTE(scnd[step.key].off, step.off)
    <3> DEFINE c == <<"STORAGE_SCND", p>>
    <3>1. c \in Consumers /\ c[1] = "STORAGE_SCND"
      BY DEF Consumers, Systems
    <3>2. step.key # NoKey
      BY <1>3, <2>2, NilAssumption DEF Inv, MapsOK, IsMapTo
    <3>3. Caught(log[c][i], scnd)
      BY <1>3, <2>2, <3>1 DEF NewestInv
    <3> HIDE DEF c
    <3> QED BY <2>2, <3>2, <3>3 DEF Caught, c
  <2> QED BY <2>1, <2>2 DEF DbHasNewest
<1>4. Spec => [](Inv /\ (~DeletesAsked => NewestInv))
  BY <1>1, <1>2, Invariance, PTL DEF Spec
<1> QED
  BY <1>3, <1>4, PTL
=============================================================================
