------------------------- MODULE ThreadMessagesProofs -------------------------
(***************************************************************************)
(* Theorems about the messages of a thread, for every set of requests,     *)
(* every interleaving of them and every setting of the memory policy: the  *)
(* reply of a run is of its own turn, and what a history has lost are      *)
(* intermediate steps of one turn that its own compaction removed.         *)
(***************************************************************************)
EXTENDS SupervisorThreadProofs, WellFoundedInduction

(***************************************************************************)
(* Natural numbers and ids.                                                *)
(***************************************************************************)

\* Every set of natural numbers has a least one.
LEMMA LeastNatural ==
  ASSUME NEW S, S \subseteq Nat, S # {}
  PROVE  \E m \in S : \A k \in S : m <= k
<1> DEFINE R == OpToRel(<, Nat)
<1>1. IsWellFoundedOn(R, Nat)
  BY NatLessThanWellFounded
<1>2. \A x, y \in Nat : x < y => <<x, y>> \in R
  BY DEF OpToRel
<1> HIDE DEF R
<1>3. PICK m \in S : \A k \in S : <<k, m>> \notin R
  BY <1>1, WFMin
<1>4. ASSUME NEW k \in S PROVE m <= k
  <2>1. k \in Nat /\ m \in Nat
    OBVIOUS
  <2>2. ~(k < m)
    BY <1>2, <1>3, <2>1
  <2>3. QED
    BY <2>1, <2>2
<1>5. QED
  BY <1>4

\* A history as it has to be for ids to be compared: they grow along it, and a
\* summary is written from older messages.
WellFormed(messages) ==
  /\ \A i, j \in 1..Len(messages) : i < j => messages[i].id < messages[j].id
  /\ \A i \in 1..Len(messages) : \A x \in messages[i].of : x < messages[i].id

\* Histories are as long as a number says, of messages with ids.
LEMMA MessageType ==
  ASSUME NEW messages \in Seq(Message)
  PROVE  /\ Len(messages) \in Nat
         /\ LastId(messages) \in Nat
         /\ \A i \in 1..Len(messages) :
              /\ messages[i] \in Message
              /\ messages[i].id \in Nat
              /\ messages[i].kind \in MessageKinds
              /\ messages[i].turn \in Requests
              /\ messages[i].of \subseteq Nat
         /\ Len(messages) > 0 => LastId(messages) = messages[Len(messages)].id
         /\ Len(messages) = 0 => LastId(messages) = 0
<1>1. Len(messages) \in Nat
  BY LenProperties
<1>2. \A i \in 1..Len(messages) : messages[i] \in Message
  BY ElementOfSeq
<1>3. messages = <<>> <=> Len(messages) = 0
  BY EmptySeq
<1>4. QED
  BY <1>1, <1>2, <1>3, LastIdType DEF Message, LastId

\* No message is younger than the last one.
LEMMA LastIdIsLast ==
  ASSUME NEW messages \in Seq(Message), WellFormed(messages)
  PROVE  \A i \in 1..Len(messages) : messages[i].id <= LastId(messages)
<1> SUFFICES ASSUME NEW i \in 1..Len(messages)
             PROVE  messages[i].id <= LastId(messages)
  OBVIOUS
<1>1. Len(messages) \in Nat /\ messages[i].id \in Nat
      /\ LastId(messages) = messages[Len(messages)].id
  BY MessageType
<1>2. CASE i = Len(messages)
  BY <1>1, <1>2
<1>3. CASE i < Len(messages)
  <2>1. Len(messages) \in 1..Len(messages) /\ LastId(messages) \in Nat
    BY <1>1, MessageType
  <2>2. messages[i].id < messages[Len(messages)].id
    BY <1>3, <2>1 DEF WellFormed
  <2>3. QED
    BY <1>1, <2>1, <2>2
<1>4. QED
  BY <1>1, <1>2, <1>3

(***************************************************************************)
(* The ways a history grows: messages are added, its beginning is replaced *)
(* by a summary, the supervisor's history is merged into the master's.     *)
(***************************************************************************)

\* New messages come last, with the next ids.
LEMMA ExtendedShape ==
  ASSUME NEW messages \in Seq(Message), NEW kinds \in Seq(MessageKinds),
         NEW turn \in Requests
  PROVE  LET longer == Extended(messages, kinds, turn)
         IN  /\ Len(longer) = Len(messages) + Len(kinds)
             /\ \A i \in 1..Len(messages) : longer[i] = messages[i]
             /\ \A i \in 1..Len(kinds) :
                  LET new == longer[Len(messages) + i]
                  IN  /\ new.id = LastId(messages) + i
                      /\ new.kind = kinds[i]
                      /\ new.turn = turn
                      /\ new.of = {}
             /\ LastId(longer) = LastId(messages) + Len(kinds)
<1> DEFINE last == LastId(messages)
           n == Len(kinds)
           msg(i) == [id |-> last + i, kind |-> kinds[i], turn |-> turn, of |-> {}]
           new == [i \in 1..n |-> msg(i)]
           longer == Extended(messages, kinds, turn)
<1>1. last \in Nat /\ n \in Nat /\ Len(messages) \in Nat
  BY LastIdType, LenProperties
<1>2. \A i \in 1..n : kinds[i] \in MessageKinds
  BY ElementOfSeq
<1> HIDE DEF last, n
<1>3. \A i \in 1..n : msg(i) \in Message
  BY <1>1, <1>2 DEF Message
<1>4. new \in Seq(Message)
  BY <1>1, <1>3, SeqDef
<1>5. \A i \in 1..n : new[i] = msg(i)
  OBVIOUS
<1>6. Len(new) = n
  <2>1. DOMAIN new = 1..n
    OBVIOUS
  <2> HIDE DEF new
  <2>2. DOMAIN new = 1..Len(new) /\ Len(new) \in Nat
    BY <1>4, LenProperties
  <2>3. QED
    BY <1>1, <2>1, <2>2
<1> HIDE DEF new
<1>7. longer = messages \o new
  BY DEF Extended, new, n, last
<1> HIDE DEF longer
<1>8. /\ longer \in Seq(Message)
      /\ Len(longer) = Len(messages) + n
      /\ \A i \in 1..(Len(messages) + n) :
           longer[i] = IF i <= Len(messages) THEN messages[i] ELSE new[i - Len(messages)]
  BY <1>4, <1>6, <1>7, ConcatProperties
<1>9. \A i \in 1..Len(messages) : longer[i] = messages[i]
  BY <1>1, <1>8
<1>10. ASSUME NEW i \in 1..n
       PROVE  /\ longer[Len(messages) + i].id = last + i
              /\ longer[Len(messages) + i].kind = kinds[i]
              /\ longer[Len(messages) + i].turn = turn
              /\ longer[Len(messages) + i].of = {}
  <2>1. Len(messages) + i \in 1..(Len(messages) + n) /\ ~(Len(messages) + i <= Len(messages))
        /\ (Len(messages) + i) - Len(messages) = i
    BY <1>1
  <2>2. longer[Len(messages) + i] = msg(i)
    BY <1>5, <1>8, <2>1
  <2>3. QED
    BY <2>2
<1>11. LastId(longer) = last + n
  <2>1. CASE n = 0
    <3>1. new = <<>>
      BY <1>4, <1>6, <2>1, EmptySeq
    <3>2. longer = messages
      BY <1>7, <3>1, ConcatEmptySeq
    <3>3. QED
      BY <1>1, <2>1, <3>2 DEF last
  <2>2. CASE n > 0
    <3>1. Len(longer) > 0 /\ n \in 1..n
      BY <1>1, <1>8, <2>2
    <3>2. LastId(longer) = longer[Len(longer)].id
      BY <1>8, <3>1, MessageType
    <3>3. longer[Len(messages) + n].id = last + n
      BY <1>10, <3>1
    <3>4. QED
      BY <1>8, <3>2, <3>3
  <2>3. QED
    BY <1>1, <2>1, <2>2
<1>12. QED
  BY <1>8, <1>9, <1>10, <1>11 DEF longer, last, n

\* New messages get the ids that follow.
LEMMA ExtendedIsWhole ==
  ASSUME NEW messages \in Seq(Message), WellFormed(messages),
         NEW kinds \in Seq(MessageKinds), NEW turn \in Requests
  PROVE  WellFormed(Extended(messages, kinds, turn))
<1> DEFINE longer == Extended(messages, kinds, turn)
           m == Len(messages)
           n == Len(kinds)
           last == LastId(messages)
<1>1. /\ Len(longer) = m + n
      /\ \A i \in 1..m : longer[i] = messages[i]
      /\ \A i \in 1..n : longer[m + i].id = last + i /\ longer[m + i].of = {}
      /\ LastId(longer) = last + n
  BY ExtendedShape
<1>2. /\ m \in Nat /\ n \in Nat /\ last \in Nat
      /\ \A i \in 1..m : messages[i].id \in Nat /\ messages[i].id <= last
  BY MessageType, LastIdIsLast, LenProperties
<1> HIDE DEF longer, m, n, last
<1>3. \A i \in 1..(m + n) : i \in 1..m \/ \E k \in 1..n : i = m + k
  <2> SUFFICES ASSUME NEW i \in 1..(m + n), i \notin 1..m
               PROVE  \E k \in 1..n : i = m + k
    OBVIOUS
  <2>1. i - m \in 1..n /\ i = m + (i - m)
    BY <1>2
  <2>2. QED
    BY <2>1
<1>4. ASSUME NEW i \in 1..(m + n), NEW j \in 1..(m + n), i < j
      PROVE  longer[i].id < longer[j].id
  <2>1. CASE j \in 1..m
    <3>1. i \in 1..m
      BY <1>2, <1>4, <2>1
    <3>2. messages[i].id < messages[j].id
      BY <1>4, <2>1, <3>1 DEF WellFormed, m
    <3>3. QED
      BY <1>1, <2>1, <3>1, <3>2
  <2>2. ASSUME NEW k \in 1..n, j = m + k PROVE longer[i].id < longer[j].id
    <3>1. longer[j].id = last + k
      BY <1>1, <2>2
    <3>2. CASE i \in 1..m
      <4>1. longer[i].id \in Nat /\ longer[i].id <= last
        BY <1>1, <1>2, <3>2
      <4>2. QED
        BY <1>2, <3>1, <4>1
    <3>3. ASSUME NEW l \in 1..n, i = m + l PROVE longer[i].id < longer[j].id
      <4>1. longer[i].id = last + l
        BY <1>1, <3>3
      <4>2. l < k
        BY <1>2, <1>4, <2>2, <3>3
      <4>3. QED
        BY <1>2, <3>1, <4>1, <4>2
    <3>4. QED
      BY <1>3, <3>2, <3>3
  <2>3. QED
    BY <1>3, <2>1, <2>2
<1>5. ASSUME NEW i \in 1..(m + n), NEW x \in longer[i].of
      PROVE  x < longer[i].id
  <2>1. i \in 1..m
    BY <1>1, <1>3, <1>5
  <2>2. QED
    BY <1>1, <1>5, <2>1 DEF WellFormed, m
<1>6. WellFormed(longer)
  BY <1>1, <1>4, <1>5 DEF WellFormed
<1>7. QED
  BY <1>6 DEF longer

\* A cut removes a beginning, and the summary comes last.
LEMMA CompactedShape ==
  ASSUME NEW messages \in Seq(Message), NEW turn \in Requests, NEW room \in Nat,
         SummaryCutIndex(Len(messages), Keep) # 0
  PROVE  LET cut == SummaryCutIndex(Len(messages), Keep)
             left == Len(messages) - cut
             short == Compacted(messages, turn, room)
         IN  /\ cut \in 1..Len(messages)
             /\ short \in Seq(Message)
             /\ Len(short) = left + 1
             /\ \A i \in 1..left : short[i] = messages[cut + i]
             /\ short[left + 1] = Summary(messages, Payload(cut, room), turn)
<1> DEFINE n == Len(messages)
           cut == SummaryCutIndex(n, Keep)
           payload == Payload(cut, room)
           summary == Summary(messages, payload, turn)
           kept == SubSeq(messages, cut + 1, n)
<1>1. n \in Nat
  OBVIOUS
<1>2. cut \in 1..n
  BY <1>1, CutWithinHistory, SettingsAssumption
<1>3. Compacted(messages, turn, room) = Append(kept, summary)
  BY <1>2 DEF Compacted
<1> HIDE DEF cut
<1>4. /\ kept \in Seq(Message)
      /\ Len(kept) = n - cut
      /\ \A i \in 1..(n - cut) : kept[i] = messages[cut + i]
  <2>1. \A i \in (cut + 1)..n : messages[i] \in Message
    BY <1>2, ElementOfSeq
  <2>2. /\ kept \in Seq(Message)
        /\ Len(kept) = IF cut + 1 <= n THEN n - (cut + 1) + 1 ELSE 0
        /\ \A i \in 1..(n - (cut + 1) + 1) : kept[i] = messages[(cut + 1) + i - 1]
    BY <1>1, <1>2, <2>1, SubSeqProperties
  <2>3. n - (cut + 1) + 1 = n - cut
    BY <1>1, <1>2
  <2>4. Len(kept) = n - cut
    BY <1>1, <1>2, <2>2
  <2>5. \A i \in 1..(n - cut) : kept[i] = messages[cut + i]
    <3>1. \A i \in 1..(n - cut) : (cut + 1) + i - 1 = cut + i
      BY <1>1, <1>2
    <3>2. QED
      BY <2>2, <2>3, <3>1
  <2>6. QED
    BY <2>2, <2>4, <2>5
<1>5. summary \in Message
  <2>1. ASSUME NEW i \in payload PROVE messages[i].id \in Nat /\ messages[i].of \subseteq Nat
    <3>1. i \in 1..n
      BY <1>1, <1>2 DEF Payload
    <3>2. QED
      BY <3>1, MessageType
  <2> HIDE DEF payload
  <2>2. {messages[i].id : i \in payload} \cup UNION {messages[i].of : i \in payload}
          \subseteq Nat
    BY <2>1
  <2>3. LastId(messages) + 1 \in Nat
    BY LastIdType
  <2>4. QED
    BY <2>2, <2>3 DEF Summary, Message, MessageKinds
<1> HIDE DEF kept, summary
<1>6. /\ Append(kept, summary) \in Seq(Message)
      /\ Len(Append(kept, summary)) = (n - cut) + 1
      /\ \A i \in 1..(n - cut) : Append(kept, summary)[i] = kept[i]
      /\ Append(kept, summary)[(n - cut) + 1] = summary
  BY <1>4, <1>5, AppendProperties
<1>7. QED
  BY <1>2, <1>3, <1>4, <1>6 DEF cut, payload, summary

\* A compaction puts a summary in the place of what it removes.
LEMMA CompactedIsWhole ==
  ASSUME NEW messages \in Seq(Message), WellFormed(messages), NEW turn \in Requests,
         NEW room \in Nat
  PROVE  WellFormed(Compacted(messages, turn, room))
<1> DEFINE short == Compacted(messages, turn, room)
           n == Len(messages)
           last == LastId(messages)
           cut == SummaryCutIndex(n, Keep)
           left == n - cut
           payload == Payload(cut, room)
           summary == Summary(messages, payload, turn)
<1>1. CASE cut = 0
  BY <1>1 DEF Compacted
<1>2. CASE cut # 0
  <2>1. /\ cut \in 1..n
        /\ short \in Seq(Message)
        /\ Len(short) = left + 1
        /\ \A i \in 1..left : short[i] = messages[cut + i]
        /\ short[left + 1] = summary
    BY <1>2, CompactedShape
  <2>2. /\ n \in Nat /\ last \in Nat
        /\ \A i \in 1..n : messages[i].id \in Nat /\ messages[i].id <= last
    BY MessageType, LastIdIsLast
  <2>3. /\ summary.id = last + 1
        /\ summary.of = {messages[i].id : i \in payload} \cup UNION {messages[i].of : i \in payload}
        /\ payload \subseteq 1..cut
    BY DEF Summary, Payload
  <2> HIDE DEF short, n, last, cut, payload, summary
  <2>4. left \in Nat /\ \A i \in 1..left : cut + i \in 1..n
    BY <2>1, <2>2
  <2>5. \A i \in 1..(left + 1) : i \in 1..left \/ i = left + 1
    BY <2>4
  <2>6. ASSUME NEW i \in 1..(left + 1), NEW j \in 1..(left + 1), i < j
        PROVE  short[i].id < short[j].id
    <3>1. i \in 1..left
      BY <2>4, <2>6
    <3>2. cut + i \in 1..n /\ short[i] = messages[cut + i]
      BY <2>1, <2>4, <3>1
    <3>3. CASE j = left + 1
      <4>1. messages[cut + i].id \in Nat /\ messages[cut + i].id <= last
        BY <2>2, <3>2
      <4>2. QED
        BY <2>1, <2>2, <2>3, <3>2, <3>3, <4>1
    <3>4. CASE j \in 1..left
      <4>1. cut + j \in 1..n /\ short[j] = messages[cut + j] /\ cut + i < cut + j
        BY <2>1, <2>4, <2>6, <3>4
      <4>2. QED
        BY <3>2, <4>1 DEF WellFormed, n
    <3>5. QED
      BY <2>5, <3>3, <3>4
  <2>7. ASSUME NEW i \in 1..(left + 1), NEW x \in short[i].of
        PROVE  x < short[i].id
    <3>1. CASE i \in 1..left
      BY <2>1, <2>4, <2>7, <3>1 DEF WellFormed, n
    <3>2. CASE i = left + 1
      <4>1. PICK k \in payload : x = messages[k].id \/ x \in messages[k].of
        BY <2>1, <2>3, <2>7, <3>2
      <4>2. k \in 1..n
        BY <2>1, <2>2, <2>3
      <4>3. messages[k].id \in Nat /\ messages[k].id <= last
        BY <2>2, <4>2
      <4>4. x = messages[k].id \/ x < messages[k].id
        BY <4>1, <4>2 DEF WellFormed, n
      <4>5. x \in Nat
        <5>1. messages[k].of \subseteq Nat
          BY <4>2, MessageType DEF n
        <5>2. QED
          BY <4>1, <4>3, <5>1
      <4>6. x < last + 1
        BY <2>2, <4>3, <4>4, <4>5
      <4>7. QED
        BY <2>1, <2>3, <3>2, <4>6
    <3>3. QED
      BY <2>5, <3>1, <3>2
  <2>8. WellFormed(short)
    BY <2>1, <2>6, <2>7 DEF WellFormed
  <2>9. QED
    BY <2>8 DEF short
<1>3. QED
  BY <1>1, <1>2

\* What the master has is a beginning of what its supervisor ends with, by id:
\* the merge adds exactly the younger messages.
LEMMA AddMessagesShape ==
  ASSUME NEW left \in Seq(Message), NEW right \in Seq(Message), WellFormed(right)
  PROVE  \E k \in 0..Len(right) :
           LET merged == AddMessages(left, right)
               m == Len(left)
               more == Len(right) - k
           IN  /\ \A i \in 1..Len(right) : right[i].id <= LastId(left) <=> i <= k
               /\ merged \in Seq(Message)
               /\ Len(merged) = m + more
               /\ \A i \in 1..m : merged[i] = left[i]
               /\ \A i \in 1..more : merged[m + i] = right[k + i]
               /\ LastId(merged) = IF more = 0 THEN LastId(left) ELSE LastId(right)
<1> DEFINE n == Len(right)
           m == Len(left)
           last == LastId(left)
           known == {i \in 1..n : right[i].id <= last}
           S == {i \in 1..(n + 1) : i = n + 1 \/ right[i].id > last}
<1>1. /\ n \in Nat /\ m \in Nat /\ last \in Nat
      /\ \A i \in 1..n : right[i].id \in Nat
  BY MessageType
<1>2. DOMAIN right = 1..n
  OBVIOUS
<1>3. PICK f \in S : \A i \in S : f <= i
  <2>1. n + 1 \in S /\ S \subseteq Nat
    BY <1>1
  <2> HIDE DEF S
  <2>2. QED
    BY <2>1, LeastNatural
<1> DEFINE k == f - 1
<1>4. f \in 1..(n + 1) /\ k \in 0..n /\ f = k + 1
  BY <1>1, <1>3
<1>5. \A i \in 1..n : right[i].id <= last <=> i <= k
  <2> SUFFICES ASSUME NEW i \in 1..n PROVE right[i].id <= last <=> i <= k
    OBVIOUS
  <2>1. CASE i <= k
    <3>1. i \notin S
      BY <1>1, <1>3, <1>4, <2>1
    <3>2. QED
      BY <1>1, <2>1, <3>1
  <2>2. CASE ~(i <= k)
    <3>1. f \in 1..n /\ right[f].id > last /\ (i = f \/ f < i)
      BY <1>1, <1>3, <1>4, <2>2
    <3>2. f < i => right[f].id < right[i].id
      BY <3>1 DEF WellFormed
    <3>3. right[f].id \in Nat /\ right[i].id \in Nat
      BY <1>1, <3>1
    <3>4. QED
      BY <1>1, <2>2, <3>1, <3>2, <3>3
  <2>3. QED
    BY <2>1, <2>2
<1> HIDE DEF n, m, last, k
<1>6. known = 1..k
  BY <1>1, <1>4, <1>5
<1>7. Cardinality(known) = k
  <2>1. Cardinality(1..k) = IF 1 > k THEN 0 ELSE k - 1 + 1
    BY <1>4, FS_Interval
  <2> HIDE DEF known
  <2>2. Cardinality(known) = Cardinality(1..k)
    BY <1>6
  <2>3. k \in Nat /\ (1 > k => k = 0) /\ k - 1 + 1 = k
    BY <1>1, <1>4
  <2>4. QED
    BY <2>1, <2>2, <2>3
<1> DEFINE tail == SubSeq(right, k + 1, n)
           more == n - k
           merged == AddMessages(left, right)
<1>8. merged = left \o tail
  BY <1>2, <1>7 DEF AddMessages, n, last
<1>9. /\ tail \in Seq(Message)
      /\ Len(tail) = more
      /\ \A i \in 1..more : tail[i] = right[k + i]
  <2>1. \A i \in (k + 1)..n : right[i] \in Message
    BY <1>4, ElementOfSeq DEF n
  <2>2. /\ tail \in Seq(Message)
        /\ Len(tail) = IF k + 1 <= n THEN n - (k + 1) + 1 ELSE 0
        /\ \A i \in 1..(n - (k + 1) + 1) : tail[i] = right[(k + 1) + i - 1]
    BY <1>1, <1>4, <2>1, SubSeqProperties
  <2>3. n - (k + 1) + 1 = more /\ (k + 1 <= n \/ more = 0)
    BY <1>1, <1>4
  <2>4. \A i \in 1..more : (k + 1) + i - 1 = k + i
    BY <1>4
  <2>5. QED
    BY <2>2, <2>3, <2>4
<1>10. more \in Nat
  BY <1>1, <1>4
<1> HIDE DEF tail, merged, more
<1>11. /\ merged \in Seq(Message)
       /\ Len(merged) = m + more
       /\ \A i \in 1..(m + more) :
            merged[i] = IF i <= m THEN left[i] ELSE tail[i - m]
  <2>1. /\ left \o tail \in Seq(Message)
        /\ Len(left \o tail) = Len(left) + Len(tail)
        /\ \A i \in 1..(Len(left) + Len(tail)) :
             (left \o tail)[i] = IF i <= Len(left) THEN left[i] ELSE tail[i - Len(left)]
    BY <1>9, ConcatProperties
  <2>2. QED
    BY <1>8, <1>9, <2>1 DEF m
<1>12. \A i \in 1..m : merged[i] = left[i]
  BY <1>1, <1>10, <1>11
<1>13. ASSUME NEW i \in 1..more PROVE merged[m + i] = right[k + i]
  <2>1. m + i \in 1..(m + more) /\ ~(m + i <= m) /\ (m + i) - m = i
    BY <1>1, <1>10
  <2>2. QED
    BY <1>9, <1>11, <2>1
<1>14. LastId(merged) = IF more = 0 THEN last ELSE LastId(right)
  <2>1. CASE more = 0
    <3>1. tail = <<>>
      BY <1>9, <2>1, EmptySeq
    <3>2. merged = left
      BY <1>8, <3>1, ConcatEmptySeq
    <3>3. QED
      BY <2>1, <3>2 DEF last
  <2>2. CASE more # 0
    <3>1. more \in 1..more /\ Len(merged) > 0 /\ n > 0 /\ k + more = n
      BY <1>1, <1>4, <1>10, <1>11, <2>2 DEF more
    <3>2. LastId(merged) = merged[Len(merged)].id
      BY <1>11, <3>1, MessageType
    <3>3. LastId(right) = right[n].id
      BY <3>1, MessageType DEF n
    <3>4. merged[Len(merged)] = right[n]
      BY <1>11, <1>13, <3>1
    <3>5. QED
      BY <2>2, <3>2, <3>3, <3>4
  <2>3. QED
    BY <2>1, <2>2
<1>15. QED
  BY <1>4, <1>5, <1>11, <1>12, <1>13, <1>14 DEF merged, more, n, m, last

\* What one history has lost, the other may bring, whole.
LEMMA AddMessagesIsWhole ==
  ASSUME NEW left \in Seq(Message), NEW right \in Seq(Message),
         WellFormed(left), WellFormed(right)
  PROVE  WellFormed(AddMessages(left, right))
<1> DEFINE merged == AddMessages(left, right)
           n == Len(right)
           m == Len(left)
           last == LastId(left)
<1>1. PICK k \in 0..n :
        /\ \A i \in 1..n : right[i].id <= last <=> i <= k
        /\ merged \in Seq(Message)
        /\ Len(merged) = m + (n - k)
        /\ \A i \in 1..m : merged[i] = left[i]
        /\ \A i \in 1..(n - k) : merged[m + i] = right[k + i]
        /\ LastId(merged) = IF n - k = 0 THEN last ELSE LastId(right)
  BY AddMessagesShape
<1>2. /\ n \in Nat /\ m \in Nat /\ last \in Nat /\ LastId(right) \in Nat
      /\ \A i \in 1..n : right[i].id \in Nat /\ right[i].of \subseteq Nat
      /\ \A i \in 1..m : left[i].id \in Nat /\ left[i].id <= last
  BY MessageType, LastIdIsLast
<1> HIDE DEF merged, n, m, last
<1> DEFINE more == n - k
<1>3. more \in Nat /\ \A i \in 1..more : k + i \in 1..n /\ right[k + i].id > last
  <2>1. more \in Nat
    BY <1>2
  <2>2. ASSUME NEW i \in 1..more PROVE k + i \in 1..n /\ right[k + i].id > last
    <3>1. k + i \in 1..n /\ ~(k + i <= k)
      BY <1>2
    <3>2. ~(right[k + i].id <= last) /\ right[k + i].id \in Nat
      BY <1>1, <1>2, <3>1
    <3>3. QED
      BY <1>2, <3>1, <3>2
  <2>3. QED
    BY <2>1, <2>2
<1>4. \A i \in 1..(m + more) : i \in 1..m \/ \E j \in 1..more : i = m + j
  <2> SUFFICES ASSUME NEW i \in 1..(m + more), i \notin 1..m
               PROVE  \E j \in 1..more : i = m + j
    OBVIOUS
  <2>1. i - m \in 1..more /\ i = m + (i - m)
    BY <1>2, <1>3
  <2>2. QED
    BY <2>1
<1>5. ASSUME NEW i \in 1..(m + more), NEW j \in 1..(m + more), i < j
      PROVE  merged[i].id < merged[j].id
  <2>1. CASE j \in 1..m
    <3>1. i \in 1..m
      BY <1>2, <1>5, <2>1
    <3>2. QED
      BY <1>1, <1>5, <2>1, <3>1 DEF WellFormed, m
  <2>2. ASSUME NEW b \in 1..more, j = m + b PROVE merged[i].id < merged[j].id
    <3>1. merged[j] = right[k + b] /\ k + b \in 1..n /\ right[k + b].id > last
      BY <1>1, <1>3, <2>2
    <3>2. CASE i \in 1..m
      <4>1. merged[i].id \in Nat /\ merged[i].id <= last /\ right[k + b].id \in Nat
        BY <1>1, <1>2, <3>1, <3>2
      <4>2. right[k + b].id > last /\ merged[j].id = right[k + b].id
        BY <3>1
      <4>3. \A x, y, z \in Nat : x <= y /\ z > y => x < z
        OBVIOUS
      <4>4. QED
        BY <1>2, <4>1, <4>2, <4>3
    <3>3. ASSUME NEW a \in 1..more, i = m + a PROVE merged[i].id < merged[j].id
      <4>1. merged[i] = right[k + a] /\ k + a \in 1..n /\ k + a < k + b
        BY <1>1, <1>2, <1>3, <1>5, <2>2, <3>3
      <4>2. QED
        BY <3>1, <4>1 DEF WellFormed, n
    <3>4. QED
      BY <1>4, <3>2, <3>3
  <2>3. QED
    BY <1>4, <2>1, <2>2
<1>6. ASSUME NEW i \in 1..(m + more), NEW x \in merged[i].of
      PROVE  x < merged[i].id
  <2>1. CASE i \in 1..m
    BY <1>1, <1>6, <2>1 DEF WellFormed, m
  <2>2. ASSUME NEW b \in 1..more, i = m + b PROVE x < merged[i].id
    <3>1. merged[i] = right[k + b] /\ k + b \in 1..n
      BY <1>1, <1>3, <2>2
    <3>2. QED
      BY <1>6, <3>1 DEF WellFormed, n
  <2>3. QED
    BY <1>4, <2>1, <2>2
<1>7. WellFormed(merged)
  BY <1>1, <1>5, <1>6 DEF WellFormed
<1>8. QED
  BY <1>7 DEF merged

(***************************************************************************)
(* The invariant.  Every history is well formed, the saved ones of the     *)
(* supervisor and the runs' own copies too, and a run that has come to the *)
(* memory manager or to the end of the supervisor graph has a reply that   *)
(* is younger than what the master has seen, so that the merge adds it.    *)
(***************************************************************************)

HistoriesAreWhole ==
  /\ \A c \in 1..Len(ckpts) : /\ WellFormed(ckpts[c].values.messages)
                              /\ WellFormed(ckpts[c].sub.values.messages)
  /\ \A r \in Requests : WellFormed(vals[r].messages)

ReplyKinds == {"ai", "call"}

\* Place i has the last reply of the history, and it is of the state's own turn.
ReplyAt(v, i) ==
  /\ i \in 1..Len(v.messages)
  /\ v.messages[i].kind \in ReplyKinds
  /\ v.messages[i].turn = v.turn
  /\ \A j \in (i + 1)..Len(v.messages) : v.messages[j].kind \notin ReplyKinds

Replied(v) == v.next_agent = "end" \/ \E i \in 1..Len(v.messages) : ReplyAt(v, i)

\* It is younger than the messages up to the id start, and a cut leaves it.
RepliedSince(v, start, cut) ==
  \E i \in 1..Len(v.messages) : i > cut /\ v.messages[i].id > start /\ ReplyAt(v, i)

GraphNodes == SupervisorNodes \cup {"end"}

\* What holds of a run that has come to a node of the supervisor graph from a
\* checkpoint whose history ends with the id start.
Stands(node, v, start) ==
  /\ node \in GraphNodes
  /\ LastId(v.messages) >= start
  /\ node = "memory_manager" =>
       RepliedSince(v, start, SummaryCutIndex(Len(v.messages), Keep))
  /\ node = "end" => v.next_agent = "end" \/ RepliedSince(v, start, 0)

StartOf(c) == LastId(ckpts[c].values.messages)

CheckpointsReply ==
  \A c \in 1..Len(ckpts) :
    IF ckpts[c].next = "supervisor"
    THEN Stands(ckpts[c].sub.at, ckpts[c].sub.values, StartOf(c))
    ELSE Replied(ckpts[c].values)

RunsReply ==
  \A r \in Requests : pc[r] = "running" =>
    IF at[r] \in GraphNodes
    THEN ckpts[base[r]].next = "supervisor" /\ Stands(at[r], vals[r], StartOf(base[r]))
    ELSE Replied(vals[r])

AnswersReply ==
  \A r \in Requests :
    (pc[r] \in {"ended", "done"} /\ at[r] = "finished") => Replied(vals[r])

\* A round of tools leaves fewer results than a compaction keeps messages.
RoundsFit == \A n \in ToolResults : n < Keep

MsgInv ==
  /\ HistoriesAreWhole
  /\ RoundsFit => CheckpointsReply /\ RunsReply /\ AnswersReply

-----------------------------------------------------------------------------
(* How the steps write checkpoints, with everything they leave alone. *)

\* Saving a node's result changes one checkpoint, and there only its progress.
LEMMA SaveStep ==
  ASSUME IInv, NEW r \in Requests, pc[r] = "running",
         NEW node \in Nodes, NEW v \in Values, GoOn(r, node, v)
  PROVE  /\ Len(ckpts') = Len(ckpts)
         /\ \A c \in 1..Len(ckpts) :
              /\ ckpts'[c].next = ckpts[c].next
              /\ ckpts'[c].values = ckpts[c].values
              /\ ckpts'[c].asked = ckpts[c].asked
              /\ ckpts'[c].sub = IF c = base[r] THEN [at |-> node, values |-> v]
                                 ELSE ckpts[c].sub
<1> DEFINE b == base[r]
           w == [at |-> node, values |-> v]
           e == [ckpts[b] EXCEPT !.sub = w]
<1>1. b \in 1..Len(ckpts) /\ ckpts \in Seq(Checkpoint)
  BY DEF IInv, BaseInv, TypeOK
<1>2. ckpts' = [ckpts EXCEPT ![b] = e]
  BY DEF GoOn
<1>3. ckpts[b] \in Checkpoint /\ w \in Saved
  BY <1>1, ElementOfSeq DEF Saved
<1> HIDE DEF w
<1>4. /\ e \in Checkpoint /\ e.sub = w /\ e.next = ckpts[b].next
      /\ e.values = ckpts[b].values /\ e.asked = ckpts[b].asked
  BY <1>3 DEF Checkpoint, Saved
<1> HIDE DEF e, b
<1>5. /\ Len(ckpts') = Len(ckpts)
      /\ \A c \in 1..Len(ckpts) : ckpts'[c] = IF c = b THEN e ELSE ckpts[c]
  BY <1>1, <1>2, <1>4, ExceptSeq
<1>6. QED
  BY <1>4, <1>5 DEF w, b

\* Asking for the review changes one flag.
LEMMA MarkStep ==
  ASSUME IInv, NEW r \in Requests, AskHuman(r)
  PROVE  /\ Len(ckpts') = Len(ckpts)
         /\ \A c \in 1..Len(ckpts) :
              /\ ckpts'[c].next = ckpts[c].next
              /\ ckpts'[c].values = ckpts[c].values
              /\ ckpts'[c].sub = ckpts[c].sub
              /\ ckpts'[c].asked = IF c = base[r] THEN TRUE ELSE ckpts[c].asked
<1> DEFINE b == base[r]
           e == [ckpts[b] EXCEPT !.asked = TRUE]
<1>1. b \in 1..Len(ckpts) /\ ckpts \in Seq(Checkpoint)
  BY DEF IInv, BaseInv, TypeOK, AskHuman, Step
<1>2. ckpts' = [ckpts EXCEPT ![b] = e]
  BY DEF AskHuman
<1>3. ckpts[b] \in Checkpoint
  BY <1>1, ElementOfSeq
<1>4. /\ e \in Checkpoint /\ e.sub = ckpts[b].sub /\ e.next = ckpts[b].next
      /\ e.values = ckpts[b].values /\ e.asked = TRUE
  BY <1>3 DEF Checkpoint
<1> HIDE DEF e, b
<1>5. /\ Len(ckpts') = Len(ckpts)
      /\ \A c \in 1..Len(ckpts) : ckpts'[c] = IF c = b THEN e ELSE ckpts[c]
  BY <1>1, <1>2, <1>4, ExceptSeq
<1>6. QED
  BY <1>4, <1>5 DEF b

\* A new checkpoint is the last one, and the others are as they were.
LEMMA AppendStep ==
  ASSUME ckpts \in Seq(Checkpoint), NEW e \in Checkpoint, ckpts' = Append(ckpts, e)
  PROVE  /\ Len(ckpts) \in Nat
         /\ Len(ckpts') = Len(ckpts) + 1
         /\ \A c \in 1..Len(ckpts) : ckpts'[c] = ckpts[c]
         /\ ckpts'[Len(ckpts) + 1] = e
BY AppendProperties

\* The histories of a state of the thread are sequences of messages.
LEMMA HistoryType ==
  ASSUME IInv
  PROVE  /\ ckpts \in Seq(Checkpoint)
         /\ Len(ckpts) \in Nat
         /\ \A r \in Requests : vals[r] \in Values /\ vals[r].messages \in Seq(Message)
         /\ \A c \in 1..Len(ckpts) :
              /\ ckpts[c] \in Checkpoint
              /\ ckpts[c].values \in Values
              /\ ckpts[c].sub.values \in Values
              /\ ckpts[c].values.messages \in Seq(Message)
              /\ ckpts[c].sub.values.messages \in Seq(Message)
<1>1. ckpts \in Seq(Checkpoint) /\ Len(ckpts) \in Nat
  BY DEF IInv, TypeOK
<1>2. \A v \in Values : v.messages \in Seq(Message)
  BY DEF Values
<1>3. \A c \in 1..Len(ckpts) : ckpts[c] \in Checkpoint
  BY <1>1, ElementOfSeq
<1>4. \A e \in Checkpoint : e.values \in Values /\ e.sub.values \in Values
  BY DEF Checkpoint
<1>5. \A r \in Requests : vals[r] \in Values
  BY DEF IInv, TypeOK
<1>6. QED
  BY <1>1, <1>2, <1>3, <1>4, <1>5

-----------------------------------------------------------------------------
(* What keeps the invariant: a step that writes no history, a node that    *)
(* saves a history that fits, a new checkpoint that fits.                  *)

\* A step that saves the same values and stands where it stood keeps the invariant.
LEMMA QuietKeepsMsgs ==
  ASSUME IInv, MsgInv,
         Len(ckpts') = Len(ckpts),
         \A c \in 1..Len(ckpts) : /\ ckpts'[c].next = ckpts[c].next
                                  /\ ckpts'[c].values = ckpts[c].values
                                  /\ ckpts'[c].sub = ckpts[c].sub,
         UNCHANGED <<at, base>>,
         \A q \in Requests : WellFormed(vals'[q].messages),
         \A q \in Requests : pc'[q] = "running" => pc[q] = "running" /\ vals'[q] = vals[q],
         \A q \in Requests : pc'[q] \in {"ended", "done"} /\ at[q] = "finished" =>
                               pc[q] \in {"ended", "done"} /\ vals'[q] = vals[q]
  PROVE  MsgInv'
<1>1. HistoriesAreWhole'
  BY DEF MsgInv, HistoriesAreWhole
<1>2. ASSUME RoundsFit PROVE CheckpointsReply'
  BY <1>2 DEF MsgInv, CheckpointsReply, StartOf
<1>3. ASSUME RoundsFit PROVE RunsReply'
  <2> SUFFICES ASSUME NEW q \in Requests, pc'[q] = "running"
               PROVE  IF at[q] \in GraphNodes
                      THEN /\ ckpts'[base[q]].next = "supervisor"
                           /\ Stands(at[q], vals'[q], LastId(ckpts'[base[q]].values.messages))
                      ELSE Replied(vals'[q])
    BY DEF RunsReply, StartOf
  <2>1. pc[q] = "running" /\ vals'[q] = vals[q] /\ base[q] \in 1..Len(ckpts)
    BY DEF IInv, BaseInv
  <2>2. QED
    BY <1>3, <2>1 DEF MsgInv, RunsReply, StartOf
<1>4. ASSUME RoundsFit PROVE AnswersReply'
  BY <1>4 DEF MsgInv, AnswersReply
<1>5. QED
  BY <1>1, <1>2, <1>3, <1>4 DEF MsgInv, RoundsFit

\* A node keeps the invariant if the values it goes on with do.
LEMMA GoOnKeepsMsgs ==
  ASSUME IInv, MsgInv, NEW r \in Requests, pc[r] = "running", at[r] \in GraphNodes,
         NEW node \in GraphNodes, NEW v \in Values, GoOn(r, node, v),
         WellFormed(v.messages),
         RoundsFit => Stands(node, v, StartOf(base[r]))
  PROVE  MsgInv'
<1>0. node \in Nodes
  BY DEF GraphNodes, Nodes
<1>1. /\ at'[r] = node /\ vals'[r] = v
      /\ \A q \in Requests \ {r} : at'[q] = at[q] /\ vals'[q] = vals[q]
      /\ UNCHANGED <<base, pc>>
  BY <1>0, GoOnType DEF GoOn, requestVars
<1>2. /\ Len(ckpts') = Len(ckpts)
      /\ \A c \in 1..Len(ckpts) :
           /\ ckpts'[c].next = ckpts[c].next
           /\ ckpts'[c].values = ckpts[c].values
           /\ ckpts'[c].sub = IF c = base[r] THEN [at |-> node, values |-> v]
                              ELSE ckpts[c].sub
  BY <1>0, SaveStep
<1>3. HistoriesAreWhole'
  BY <1>1, <1>2 DEF MsgInv, HistoriesAreWhole
<1>4. base[r] \in 1..Len(ckpts) /\ (RoundsFit => ckpts[base[r]].next = "supervisor")
  BY DEF IInv, BaseInv, MsgInv, RunsReply
<1>5. ASSUME RoundsFit PROVE CheckpointsReply'
  <2> SUFFICES ASSUME NEW c \in 1..Len(ckpts)
               PROVE  IF ckpts[c].next = "supervisor"
                      THEN Stands(ckpts'[c].sub.at, ckpts'[c].sub.values, StartOf(c))
                      ELSE Replied(ckpts[c].values)
    BY <1>2 DEF CheckpointsReply, StartOf
  <2>1. CASE c = base[r]
    <3>1. ckpts'[c].sub.at = node /\ ckpts'[c].sub.values = v
      BY <1>2, <2>1
    <3>2. QED
      BY <1>4, <1>5, <2>1, <3>1
  <2>2. CASE c # base[r]
    BY <1>2, <1>5, <2>2 DEF MsgInv, CheckpointsReply
  <2>3. QED
    BY <2>1, <2>2
<1>6. ASSUME RoundsFit PROVE RunsReply'
  <2> SUFFICES ASSUME NEW q \in Requests, pc[q] = "running"
               PROVE  IF at'[q] \in GraphNodes
                      THEN /\ ckpts'[base[q]].next = "supervisor"
                           /\ Stands(at'[q], vals'[q], LastId(ckpts'[base[q]].values.messages))
                      ELSE Replied(vals'[q])
    BY <1>1 DEF RunsReply, StartOf
  <2>1. base[q] \in 1..Len(ckpts)
    BY DEF IInv, BaseInv
  <2>2. CASE q = r
    BY <1>1, <1>2, <1>4, <1>6, <2>1, <2>2 DEF StartOf
  <2>3. CASE q # r
    BY <1>1, <1>2, <1>6, <2>1, <2>3 DEF MsgInv, RunsReply, StartOf
  <2>4. QED
    BY <2>2, <2>3
<1>7. ASSUME RoundsFit PROVE AnswersReply'
  BY <1>1, <1>7 DEF MsgInv, AnswersReply
<1>8. QED
  BY <1>3, <1>5, <1>6, <1>7 DEF MsgInv, RoundsFit

\* So does a step that begins a new checkpoint.
LEMMA AppendKeepsMsgs ==
  ASSUME IInv, MsgInv, NEW r \in Requests,
         NEW next \in {"supervisor", "error_handler", "finished"},
         NEW node \in Nodes, NEW v \in Values,
         ckpts' = Append(ckpts, [next |-> next, values |-> v,
                                 sub |-> [at |-> node, values |-> v], asked |-> FALSE]),
         base' = [base EXCEPT ![r] = Len(ckpts) + 1],
         at' = [at EXCEPT ![r] = node],
         vals' = [vals EXCEPT ![r] = v],
         \A q \in Requests \ {r} : pc'[q] = pc[q],
         WellFormed(v.messages),
         RoundsFit => IF next = "supervisor"
                      THEN Stands(node, v, LastId(v.messages))
                      ELSE node \notin GraphNodes /\ Replied(v),
         pc'[r] # "running" => next # "supervisor"
  PROVE  MsgInv'
<1> DEFINE e == [next |-> next, values |-> v,
                 sub |-> [at |-> node, values |-> v], asked |-> FALSE]
           n == Len(ckpts)
<1>1. /\ e \in Checkpoint /\ e.next = next /\ e.values = v
      /\ e.sub.at = node /\ e.sub.values = v
  BY DEF Checkpoint
<1> HIDE DEF e
<1>2. /\ n \in Nat
      /\ Len(ckpts') = n + 1
      /\ \A c \in 1..n : ckpts'[c] = ckpts[c]
      /\ ckpts'[n + 1] = e
  BY <1>1, HistoryType, AppendStep DEF e
<1> HIDE DEF n
<1>3. \A c \in 1..(n + 1) : c \in 1..n \/ c = n + 1
  BY <1>2
<1>4. /\ at'[r] = node /\ vals'[r] = v /\ base'[r] = n + 1
      /\ \A q \in Requests \ {r} : at'[q] = at[q] /\ vals'[q] = vals[q] /\ base'[q] = base[q]
  BY DEF IInv, TypeOK, n
<1>5. HistoriesAreWhole'
  <2>1. ASSUME NEW c \in 1..(n + 1)
        PROVE  WellFormed(ckpts'[c].values.messages) /\ WellFormed(ckpts'[c].sub.values.messages)
    <3>1. CASE c \in 1..n
      BY <1>2, <3>1 DEF MsgInv, HistoriesAreWhole, n
    <3>2. CASE c = n + 1
      BY <1>1, <1>2, <3>2
    <3>3. QED
      BY <1>3, <3>1, <3>2
  <2>2. QED
    BY <1>2, <1>4, <2>1 DEF MsgInv, HistoriesAreWhole
<1>6. ASSUME RoundsFit PROVE CheckpointsReply'
  <2> SUFFICES ASSUME NEW c \in 1..(n + 1)
               PROVE  IF ckpts'[c].next = "supervisor"
                      THEN Stands(ckpts'[c].sub.at, ckpts'[c].sub.values,
                                  LastId(ckpts'[c].values.messages))
                      ELSE Replied(ckpts'[c].values)
    BY <1>2 DEF CheckpointsReply, StartOf
  <2>1. CASE c \in 1..n
    BY <1>2, <1>6, <2>1 DEF MsgInv, CheckpointsReply, StartOf, n
  <2>2. CASE c = n + 1
    BY <1>1, <1>2, <1>6, <2>2
  <2>3. QED
    BY <1>3, <2>1, <2>2
<1>7. ASSUME RoundsFit PROVE RunsReply'
  <2> SUFFICES ASSUME NEW q \in Requests, pc'[q] = "running"
               PROVE  IF at'[q] \in GraphNodes
                      THEN /\ ckpts'[base'[q]].next = "supervisor"
                           /\ Stands(at'[q], vals'[q], LastId(ckpts'[base'[q]].values.messages))
                      ELSE Replied(vals'[q])
    BY DEF RunsReply, StartOf
  <2>1. CASE q = r
    <3>1. ckpts'[base'[q]].next = next /\ ckpts'[base'[q]].values = v
      BY <1>1, <1>2, <1>4, <2>1
    <3>2. next = "supervisor" => node \in GraphNodes
      BY <1>7 DEF Stands
    <3>3. QED
      BY <1>4, <1>7, <2>1, <3>1, <3>2
  <2>2. CASE q # r
    <3>1. pc[q] = "running" /\ base[q] \in 1..n
      BY <2>2 DEF IInv, BaseInv, n
    <3>2. QED
      BY <1>2, <1>4, <1>7, <2>2, <3>1 DEF MsgInv, RunsReply, StartOf
  <2>3. QED
    BY <2>1, <2>2
<1>8. ASSUME RoundsFit PROVE AnswersReply'
  <2> SUFFICES ASSUME NEW q \in Requests, pc'[q] \in {"ended", "done"}
               PROVE  at'[q] = "finished" => Replied(vals'[q])
    BY DEF AnswersReply
  <2>1. CASE q = r
    BY <1>4, <1>8, <2>1
  <2>2. CASE q # r
    BY <1>4, <1>8, <2>2 DEF MsgInv, AnswersReply
  <2>3. QED
    BY <2>1, <2>2
<1>9. QED
  BY <1>5, <1>6, <1>7, <1>8 DEF MsgInv, RoundsFit

-----------------------------------------------------------------------------
(* The nodes of the supervisor graph. *)

\* An agent's new messages hold a reply, and few enough results after it.
LEMMA OutputsReply ==
  ASSUME RoundsFit, NEW new, new \in AgentOutputs \/ new = <<"ai">>
  PROVE  /\ new \in Seq(MessageKinds)
         /\ \E j \in 1..Len(new) :
              /\ new[j] \in ReplyKinds
              /\ \A i \in (j + 1)..Len(new) : new[i] \notin ReplyKinds
              /\ Keep < 1 \/ Len(new) - j < Keep
<1> DEFINE some(k, n) == [i \in 1..n |-> k]
           round(n) == <<"call">> \o some("tool", n)
<1>1. \A k \in MessageKinds, n \in Nat :
        /\ some(k, n) \in Seq(MessageKinds)
        /\ Len(some(k, n)) = n
        /\ \A i \in 1..n : some(k, n)[i] = k
  <2> SUFFICES ASSUME NEW k \in MessageKinds, NEW n \in Nat
               PROVE  /\ some(k, n) \in Seq(MessageKinds)
                      /\ Len(some(k, n)) = n
                      /\ \A i \in 1..n : some(k, n)[i] = k
    OBVIOUS
  <2>1. some(k, n) \in Seq(MessageKinds) /\ DOMAIN some(k, n) = 1..n
    BY SeqDef
  <2>2. \A i \in 1..n : some(k, n)[i] = k
    OBVIOUS
  <2> DEFINE s == some(k, n)
  <2> HIDE DEF s
  <2>3. Len(s) \in Nat /\ DOMAIN s = 1..Len(s)
    BY <2>1, LenProperties DEF s
  <2>4. Len(s) = n
    BY <2>1, <2>3 DEF s
  <2>5. QED
    BY <2>1, <2>2, <2>4 DEF s
<1>2. "ai" \in MessageKinds /\ "tool" \in MessageKinds /\ "call" \in MessageKinds
  BY DEF MessageKinds
<1>3. Keep \in Int /\ \A n \in ToolResults : n \in Nat /\ n < Keep
  BY SettingsAssumption DEF RoundsFit
<1> HIDE DEF some
<1>4. CASE new = <<"ai">>
  <2>1. new \in Seq(MessageKinds) /\ Len(new) = 1 /\ new[1] = "ai"
    BY <1>2, <1>4
  <2>2. QED
    BY <1>3, <2>1 DEF ReplyKinds
<1>5. CASE new = some("ai", 2)
  <2>1. 2 \in Nat /\ 2 \in 1..2
    OBVIOUS
  <2>2. /\ some("ai", 2) \in Seq(MessageKinds)
        /\ Len(some("ai", 2)) = 2
        /\ \A i \in 1..2 : some("ai", 2)[i] = "ai"
    BY <1>1, <1>2, <2>1
  <2>3. new \in Seq(MessageKinds) /\ Len(new) = 2 /\ new[2] = "ai"
    BY <1>5, <2>1, <2>2
  <2>4. QED
    BY <1>3, <2>3 DEF ReplyKinds
<1>6. ASSUME NEW n \in ToolResults, NEW m \in 0..2, new = round(n) \o some("ai", m)
      PROVE  /\ new \in Seq(MessageKinds)
             /\ \E j \in 1..Len(new) :
                  /\ new[j] \in ReplyKinds
                  /\ \A i \in (j + 1)..Len(new) : new[i] \notin ReplyKinds
                  /\ Keep < 1 \/ Len(new) - j < Keep
  <2> DEFINE call == <<"call">>
             tools == some("tool", n)
             ais == some("ai", m)
             head == call \o tools
  <2>0. n \in Nat /\ m \in Nat /\ m \in 0..2 /\ n < Keep
    BY <1>3
  <2>1. /\ n \in Nat /\ m \in Nat /\ m \in 0..2 /\ n < Keep
        /\ tools \in Seq(MessageKinds) /\ Len(tools) = n /\ \A i \in 1..n : tools[i] = "tool"
        /\ ais \in Seq(MessageKinds) /\ Len(ais) = m /\ \A i \in 1..m : ais[i] = "ai"
    <3>1. /\ tools \in Seq(MessageKinds) /\ Len(tools) = n
          /\ \A i \in 1..n : tools[i] = "tool"
      BY <1>1, <1>2, <2>0
    <3>2. /\ ais \in Seq(MessageKinds) /\ Len(ais) = m
          /\ \A i \in 1..m : ais[i] = "ai"
      BY <1>1, <1>2, <2>0
    <3> HIDE DEF tools, ais
    <3>3. QED
      BY <2>0, <3>1, <3>2
  <2>2. call \in Seq(MessageKinds) /\ Len(call) = 1 /\ call[1] = "call"
    BY <1>2
  <2> HIDE DEF call, tools, ais
  <2>3. /\ head \in Seq(MessageKinds)
        /\ Len(head) = 1 + n
        /\ \A i \in 1..(1 + n) : head[i] = IF i <= 1 THEN call[i] ELSE tools[i - 1]
    <3>1. /\ call \o tools \in Seq(MessageKinds)
          /\ Len(call \o tools) = Len(call) + Len(tools)
          /\ \A i \in 1..(Len(call) + Len(tools)) :
               (call \o tools)[i] = IF i <= Len(call) THEN call[i] ELSE tools[i - Len(call)]
      <4>1. call \in Seq(MessageKinds) /\ tools \in Seq(MessageKinds)
        BY <2>1, <2>2
      <4>2. QED
        BY <4>1, ConcatProperties
    <3>2. QED
      BY <2>1, <2>2, <3>1
  <2> HIDE DEF head
  <2>4. new = head \o ais
    BY <1>6 DEF head, call, tools, ais
  <2>5. /\ new \in Seq(MessageKinds)
        /\ Len(new) = (1 + n) + m
        /\ \A i \in 1..((1 + n) + m) :
             new[i] = IF i <= 1 + n THEN head[i] ELSE ais[i - (1 + n)]
    BY <2>1, <2>3, <2>4, ConcatProperties
  <2>6. CASE m = 0
    <3>1. 1 \in 1..Len(new) /\ new[1] = "call" /\ Len(new) - 1 < Keep
      BY <1>3, <2>1, <2>2, <2>3, <2>5, <2>6
    <3>2. ASSUME NEW i \in 2..Len(new) PROVE new[i] = "tool"
      <4>1. i \in 1..((1 + n) + m) /\ i \in 1..(1 + n) /\ i <= 1 + n /\ ~(i <= 1)
            /\ i - 1 \in 1..n
        BY <2>1, <2>5, <2>6
      <4>2. new[i] = head[i]
        BY <2>5, <4>1
      <4>3. head[i] = tools[i - 1]
        BY <2>3, <4>1
      <4>4. QED
        BY <2>1, <4>1, <4>2, <4>3
    <3>3. QED
      BY <2>5, <3>1, <3>2 DEF ReplyKinds
  <2>7. CASE m # 0
    <3> DEFINE z == (1 + n) + m
    <3>1. z \in 1..z /\ ~(z <= 1 + n) /\ z - (1 + n) = m /\ m \in 1..m
      BY <2>1, <2>7
    <3>2. new[z] = "ai"
      BY <2>1, <2>5, <3>1
    <3>3. (z + 1)..z = {}
      BY <2>1
    <3>4. z - z < Keep
      BY <1>3, <2>1
    <3> HIDE DEF z
    <3>5. Len(new) = z
      BY <2>5 DEF z
    <3>6. QED
      BY <2>5, <3>1, <3>2, <3>3, <3>4, <3>5 DEF ReplyKinds
  <2>8. QED
    BY <2>6, <2>7
<1>7. AgentOutputs = {some("ai", 2)} \cup
                     {round(n) \o some("ai", m) : n \in ToolResults, m \in 0..2}
  BY DEF AgentOutputs, round, some
<1>8. CASE new \in AgentOutputs /\ new # some("ai", 2)
  <2>1. PICK n \in ToolResults, m \in 0..2 : new = round(n) \o some("ai", m)
    BY <1>7, <1>8, SMTT(60)
  <2>2. QED
    BY <1>6, <2>1
<1>9. QED
  BY <1>4, <1>5, <1>8

\* What is said last is a reply, younger than everything before, and the cut of
\* the compaction that follows falls before it.
LEMMA SaysReplies ==
  ASSUME NEW v \in Values, NEW new \in Seq(MessageKinds),
         NEW j \in 1..Len(new), new[j] \in ReplyKinds,
         \A i \in (j + 1)..Len(new) : new[i] \notin ReplyKinds
  PROVE  LET w == Says(v, new)
         IN  /\ LastId(w.messages) >= LastId(v.messages)
             /\ RepliedSince(w, LastId(v.messages), 0)
             /\ (Keep < 1 \/ Len(new) - j < Keep) =>
                  RepliedSince(w, LastId(v.messages),
                               SummaryCutIndex(Len(w.messages), Keep))
<1> DEFINE w == Says(v, new)
           m == Len(v.messages)
           n == Len(new)
           last == LastId(v.messages)
           p == m + j
           total == m + n
<1>1. v.messages \in Seq(Message) /\ v.turn \in Requests
  BY DEF Values
<1>2. w.messages = Extended(v.messages, new, v.turn) /\ w.turn = v.turn
  BY SaysType DEF Says, Values
<1>3. /\ Len(w.messages) = m + n
      /\ \A i \in 1..n : /\ w.messages[m + i].id = last + i
                         /\ w.messages[m + i].kind = new[i]
                         /\ w.messages[m + i].turn = v.turn
      /\ LastId(w.messages) = last + n
  <2> DEFINE messages == v.messages
             turn == v.turn
             longer == Extended(messages, new, turn)
  <2>1. messages \in Seq(Message) /\ turn \in Requests
    BY <1>1
  <2>2. w.messages = longer
    BY <1>2
  <2> HIDE DEF messages, turn, w
  <2>3. /\ Len(longer) = Len(messages) + Len(new)
        /\ \A i \in 1..Len(new) :
             /\ longer[Len(messages) + i].id = LastId(messages) + i
             /\ longer[Len(messages) + i].kind = new[i]
             /\ longer[Len(messages) + i].turn = turn
        /\ LastId(longer) = LastId(messages) + Len(new)
    BY <2>1, ExtendedShape
  <2>4. QED
    BY <2>2, <2>3 DEF messages, turn
<1>4. m \in Nat /\ n \in Nat /\ last \in Nat /\ j \in 1..n
  BY <1>1, LenProperties, LastIdType
<1> HIDE DEF w, m, n, last
<1>5. p \in 1..total /\ p \in Nat /\ p > 0
  BY <1>4
<1>6. ReplyAt(w, p)
  <2>1. ASSUME NEW i \in (p + 1)..total PROVE w.messages[i].kind \notin ReplyKinds
    <3>1. i - m \in (j + 1)..n /\ i - m \in 1..n /\ m + (i - m) = i
      BY <1>4
    <3>2. w.messages[i].kind = new[i - m]
      BY <1>3, <3>1
    <3>3. new[i - m] \notin ReplyKinds
      BY <3>1 DEF n
    <3>4. QED
      BY <3>2, <3>3
  <2>2. w.messages[p].kind = new[j] /\ w.messages[p].turn = v.turn
    BY <1>3, <1>4
  <2>3. QED
    BY <1>2, <1>3, <1>5, <2>1, <2>2 DEF ReplyAt, w
<1>7. w.messages[p].id > last
  BY <1>3, <1>4
<1>8. RepliedSince(w, last, 0)
  BY <1>3, <1>5, <1>6, <1>7 DEF RepliedSince
<1>9. ASSUME Keep < 1 \/ n - j < Keep
      PROVE  RepliedSince(w, last, SummaryCutIndex(total, Keep))
  <2>1. total \in Nat /\ Keep \in Int
    BY <1>4, SettingsAssumption
  <2>2. p > SummaryCutIndex(total, Keep)
    <3>1. CASE Keep < 1
      BY <1>5, <3>1 DEF SummaryCutIndex
    <3>2. CASE ~(Keep < 1)
      <4>1. Max({0, total - Keep}) \in {0, total - Keep}
        <5>1. 0 \in Int /\ total - Keep \in Int
          BY <2>1
        <5>2. QED
          BY <5>1, MaxOfTwo
      <4>2. p > total - Keep
        BY <1>4, <1>9, <2>1, <3>2
      <4>3. QED
        BY <1>5, <3>2, <4>1, <4>2 DEF SummaryCutIndex
    <3>3. QED
      BY <3>1, <3>2
  <2>3. QED
    BY <1>3, <1>5, <1>6, <1>7, <2>2 DEF RepliedSince
<1>10. last + n >= last
  BY <1>4
<1>11. QED
  BY <1>3, <1>8, <1>9, <1>10 DEF w, last, n

\* A reply since a later message is one since an earlier one.
LEMMA RepliedEarlier ==
  ASSUME NEW v \in Values, NEW start \in Nat, NEW later \in Nat, later >= start,
         NEW cut \in Int, RepliedSince(v, later, cut)
  PROVE  RepliedSince(v, start, cut)
<1>1. PICK i \in 1..Len(v.messages) : i > cut /\ v.messages[i].id > later /\ ReplyAt(v, i)
  BY DEF RepliedSince
<1>2. v.messages[i].id \in Nat
  BY <1>1, MessageType DEF Values
<1>3. v.messages[i].id > start
  BY <1>1, <1>2
<1>4. QED
  BY <1>1, <1>3 DEF RepliedSince

\* A reply since start stays one when the messages before are compacted.
LEMMA CompactedReplies ==
  ASSUME NEW v \in Values, WellFormed(v.messages), NEW start \in Nat,
         NEW room \in Nat, LastId(v.messages) >= start,
         RepliedSince(v, start, SummaryCutIndex(Len(v.messages), Keep))
  PROVE  LET w == [v EXCEPT !.messages = Compacted(@, v.turn, room)]
         IN  LastId(w.messages) >= start /\ RepliedSince(w, start, 0)
<1> DEFINE n == Len(v.messages)
           cut == SummaryCutIndex(n, Keep)
           left == n - cut
           w == [v EXCEPT !.messages = Compacted(@, v.turn, room)]
<1>1. v.messages \in Seq(Message) /\ v.turn \in Requests
  BY DEF Values
<1>2. w.messages = Compacted(v.messages, v.turn, room) /\ w.turn = v.turn
  BY DEF Values
<1>3. n \in Nat /\ cut \in 0..n
  <2>1. n \in Nat
    BY <1>1, LenProperties
  <2> HIDE DEF n
  <2>2. QED
    BY <2>1, CutWithinHistory, SettingsAssumption
<1>4. PICK i \in 1..n : i > cut /\ v.messages[i].id > start /\ ReplyAt(v, i)
  BY DEF RepliedSince
<1> HIDE DEF w
<1>5. CASE cut = 0
  <2>1. w.messages = v.messages
    BY <1>2, <1>5 DEF Compacted
  <2>2. ReplyAt(w, i) /\ i > 0
    BY <1>2, <1>3, <1>4, <2>1 DEF ReplyAt
  <2>3. QED
    BY <1>4, <2>1, <2>2 DEF RepliedSince, w
<1>6. CASE cut # 0
  <2> DEFINE summary == Summary(v.messages, Payload(cut, room), v.turn)
  <2>1. /\ w.messages \in Seq(Message)
        /\ Len(w.messages) = left + 1
        /\ \A k \in 1..left : w.messages[k] = v.messages[cut + k]
        /\ w.messages[left + 1] = summary
    BY <1>1, <1>2, <1>6, CompactedShape
  <2>2. summary.kind = "summary" /\ summary.id = LastId(v.messages) + 1
    BY DEF Summary
  <2> HIDE DEF summary, n, cut
  <2>3. left \in Nat /\ i - cut \in 1..left /\ i - cut \in 1..(left + 1) /\ i - cut > 0
        /\ cut + (i - cut) = i
    BY <1>3, <1>4
  <2>4. w.messages[i - cut] = v.messages[i]
    BY <2>1, <2>3
  <2>5. ReplyAt(w, i - cut)
    <3>1. ASSUME NEW k \in ((i - cut) + 1)..(left + 1)
          PROVE  w.messages[k].kind \notin ReplyKinds
      <4>1. CASE k = left + 1
        BY <2>1, <2>2, <4>1 DEF ReplyKinds
      <4>2. CASE k # left + 1
        <5>1. k \in 1..left /\ cut + k \in (i + 1)..n
          BY <1>3, <1>4, <2>3, <4>2
        <5>2. w.messages[k] = v.messages[cut + k]
          BY <2>1, <5>1
        <5>3. QED
          BY <1>4, <5>1, <5>2 DEF ReplyAt, n
      <4>3. QED
        BY <4>1, <4>2
    <3>2. QED
      BY <1>2, <1>4, <2>1, <2>3, <2>4, <3>1 DEF ReplyAt
  <2>6. RepliedSince(w, start, 0)
    BY <1>4, <2>1, <2>3, <2>4, <2>5 DEF RepliedSince
  <2>7. LastId(w.messages) >= start
    <3>1. LastId(v.messages) \in Nat /\ left + 1 > 0
      BY <1>1, <2>3, LastIdType
    <3>2. LastId(w.messages) = LastId(v.messages) + 1
      BY <2>1, <2>2, <3>1, MessageType
    <3>3. QED
      BY <3>1, <3>2
  <2>8. QED
    BY <2>6, <2>7 DEF w
<1>7. QED
  BY <1>5, <1>6

\* The merge adds a reply since the messages the master has.
LEMMA MergedReplies ==
  ASSUME NEW left \in Seq(Message), NEW v \in Values, WellFormed(v.messages),
         RepliedSince(v, LastId(left), 0)
  PROVE  Replied([v EXCEPT !.messages = AddMessages(left, @)])
<1> DEFINE n == Len(v.messages)
           m == Len(left)
           last == LastId(left)
           w == [v EXCEPT !.messages = AddMessages(left, @)]
<1>1. v.messages \in Seq(Message)
  BY DEF Values
<1>2. w.messages = AddMessages(left, v.messages) /\ w.turn = v.turn
  BY DEF Values
<1>3. PICK i \in 1..n : v.messages[i].id > last /\ ReplyAt(v, i)
  BY DEF RepliedSince
<1> HIDE DEF w
<1>4. PICK k \in 0..n :
        /\ \A j \in 1..n : v.messages[j].id <= last <=> j <= k
        /\ Len(w.messages) = m + (n - k)
        /\ \A j \in 1..(n - k) : w.messages[m + j] = v.messages[k + j]
  <2> DEFINE right == v.messages
             merged == AddMessages(left, right)
  <2>1. right \in Seq(Message) /\ WellFormed(right)
    BY <1>1
  <2> HIDE DEF right
  <2>2. PICK k \in 0..Len(right) :
          /\ \A j \in 1..Len(right) : right[j].id <= last <=> j <= k
          /\ Len(merged) = m + (Len(right) - k)
          /\ \A j \in 1..(Len(right) - k) : merged[m + j] = right[k + j]
    BY <2>1, AddMessagesShape
  <2> HIDE DEF merged
  <2>3. w.messages = merged
    BY <1>2 DEF merged, right
  <2>4. QED
    BY <2>2, <2>3 DEF right
<1>5. n \in Nat /\ m \in Nat /\ last \in Nat /\ v.messages[i].id \in Nat
  BY <1>1, MessageType
<1> HIDE DEF n, m, last
<1> DEFINE p == m + (i - k)
<1>6. /\ i - k \in 1..(n - k) /\ k + (i - k) = i
      /\ p \in 1..(m + (n - k))
  <2>1. ~(i <= k)
    BY <1>3, <1>4, <1>5
  <2>2. QED
    BY <1>5, <2>1
<1>7. w.messages[p] = v.messages[i]
  BY <1>4, <1>6
<1>8. ASSUME NEW j \in (p + 1)..(m + (n - k)) PROVE w.messages[j].kind \notin ReplyKinds
  <2>1. j - m \in 1..(n - k) /\ m + (j - m) = j /\ k + (j - m) \in (i + 1)..n
    BY <1>5, <1>6
  <2>2. w.messages[j] = v.messages[k + (j - m)]
    BY <1>4, <2>1
  <2>3. QED
    BY <1>3, <2>1, <2>2 DEF ReplyAt, n
<1>9. ReplyAt(w, p)
  BY <1>2, <1>3, <1>4, <1>6, <1>7, <1>8 DEF ReplyAt
<1>10. QED
  BY <1>4, <1>6, <1>9 DEF Replied, w

-----------------------------------------------------------------------------
(* The initial state and the steps. *)

\* A fresh message on a history that is whole.
LEMMA InitialIsWhole ==
  ASSUME NEW messages \in Seq(Message), WellFormed(messages), NEW r \in Requests
  PROVE  WellFormed(InitialState(messages, r).messages)
<1>1. <<"human">> \in Seq(MessageKinds)
  BY DEF MessageKinds
<1>2. WellFormed(Extended(messages, <<"human">>, r))
  BY <1>1, ExtendedIsWhole
<1>3. QED
  BY <1>2 DEF InitialState

\* The history of a new thread is well formed.
LEMMA EmptyIsWhole == <<>> \in Seq(Message) /\ WellFormed(<<>>)
BY EmptySeq DEF WellFormed, LastId

\* No message is there at first.
LEMMA InitMsgs == Init => MsgInv
<1> SUFFICES ASSUME Init PROVE MsgInv
  OBVIOUS
<1>1. Len(ckpts) = 0
  BY EmptySeq DEF Init
<1>2. \A r \in Requests : WellFormed(vals[r].messages)
  BY EmptyIsWhole, InitialIsWhole DEF Init
<1>3. HistoriesAreWhole
  BY <1>1, <1>2 DEF HistoriesAreWhole
<1>4. CheckpointsReply /\ RunsReply /\ AnswersReply
  BY <1>1 DEF Init, CheckpointsReply, RunsReply, AnswersReply
<1>5. QED
  BY <1>3, <1>4 DEF MsgInv

\* A new message of the user follows what the thread has.
LEMMA ChatKeepsMsgs ==
  ASSUME IInv, MsgInv, NEW r \in Requests, ChatLoad(r) \/ ChatBegin(r)
  PROVE  MsgInv'
<1>1. CASE ChatLoad(r)
  <2> DEFINE seen == IF ckpts = <<>> THEN <<>> ELSE Latest.values.messages
  <2>1. seen \in Seq(Message) /\ WellFormed(seen)
    <3>1. CASE ckpts = <<>>
      BY <3>1, EmptyIsWhole
    <3>2. CASE ckpts # <<>>
      <4>1. Len(ckpts) \in 1..Len(ckpts) /\ Latest.values.messages \in Seq(Message)
        BY <3>2, LatestType, HistoryType
      <4>2. QED
        BY <3>2, <4>1 DEF Latest, MsgInv, HistoriesAreWhole
    <3>3. QED
      BY <3>1, <3>2
  <2> HIDE DEF seen
  <2>2. WellFormed(InitialState(seen, r).messages)
    BY <2>1, InitialIsWhole
  <2>3. /\ vals' = [vals EXCEPT ![r] = InitialState(seen, r)]
        /\ pc' = [pc EXCEPT ![r] = "loaded"]
        /\ UNCHANGED <<ckpts, at, base>>
    BY <1>1 DEF ChatLoad, seen
  <2>4. \A q \in Requests : pc'[q] # "loaded" => pc'[q] = pc[q] /\ vals'[q] = vals[q]
    BY <2>3 DEF IInv, TypeOK
  <2>5. \A q \in Requests : WellFormed(vals'[q].messages)
    BY <2>2, <2>3 DEF IInv, TypeOK, MsgInv, HistoriesAreWhole
  <2>6. QED
    BY <2>3, <2>4, <2>5, QuietKeepsMsgs
<1>2. CASE ChatBegin(r)
  <2>1. /\ ckpts' = Append(ckpts, [next |-> "supervisor", values |-> vals[r],
                                   sub |-> [at |-> "delegate", values |-> vals[r]],
                                   asked |-> FALSE])
        /\ base' = [base EXCEPT ![r] = Len(ckpts) + 1]
        /\ at' = [at EXCEPT ![r] = "delegate"]
        /\ pc' = [pc EXCEPT ![r] = "running"]
        /\ vals' = vals
    BY <1>2 DEF ChatBegin
  <2>2. vals' = [vals EXCEPT ![r] = vals[r]]
    BY <2>1 DEF IInv, TypeOK
  <2>3. vals[r] \in Values /\ WellFormed(vals[r].messages)
    BY HistoryType DEF MsgInv, HistoriesAreWhole
  <2>4. Stands("delegate", vals[r], LastId(vals[r].messages))
    <3>1. LastId(vals[r].messages) \in Nat
      BY HistoryType, LastIdType
    <3>2. QED
      BY <3>1 DEF Stands, GraphNodes, SupervisorNodes
  <2>5. "delegate" \in Nodes
    BY DEF Nodes, SupervisorNodes
  <2>6. \A q \in Requests \ {r} : pc'[q] = pc[q]
    BY <2>1 DEF IInv, TypeOK
  <2>7. pc'[r] = "running"
    BY <2>1 DEF IInv, TypeOK
  <2>8. QED
    BY <2>1, <2>2, <2>3, <2>4, <2>5, <2>6, <2>7, AppendKeepsMsgs
<1>3. QED
  BY <1>1, <1>2

\* A resume goes on from what is saved: its values are those of the checkpoint.
LEMMA ResumeKeepsMsgs ==
  ASSUME IInv, MsgInv, NEW r \in Requests, ResumeCheck(r) \/ ResumeBegin(r)
  PROVE  MsgInv'
<1>1. CASE ResumeCheck(r)
  <2>1. /\ pc' = [pc EXCEPT ![r] = IF Paused THEN "checked" ELSE "conflict"]
        /\ UNCHANGED <<ckpts, at, base, vals>>
    BY <1>1 DEF ResumeCheck
  <2>2. \A q \in Requests : pc'[q] \notin {"checked", "conflict"} => pc'[q] = pc[q]
    BY <2>1 DEF IInv, TypeOK
  <2>3. QED
    BY <2>1, <2>2, QuietKeepsMsgs DEF MsgInv, HistoriesAreWhole
<1>2. CASE ResumeBegin(r)
  <2> DEFINE from == IF Latest.next = "supervisor" THEN Latest.sub
                     ELSE [at |-> Latest.next, values |-> Latest.values]
             n == Len(ckpts)
  <2>1. /\ pc[r] = "checked"
        /\ base' = [base EXCEPT ![r] = n]
        /\ at' = [at EXCEPT ![r] = from.at]
        /\ vals' = [vals EXCEPT ![r] = from.values]
        /\ pc' = [pc EXCEPT ![r] = IF from.at = "finished" THEN "ended" ELSE "running"]
        /\ UNCHANGED ckpts
    BY <1>2 DEF ResumeBegin
  <2>2. ckpts # <<>>
    BY <2>1 DEF IInv, ResumeInv
  <2>3. n \in 1..n /\ Latest = ckpts[n] /\ Latest \in Checkpoint
    BY <2>2, LatestType, HistoryType DEF Latest
  <2>4. WellFormed(from.values.messages)
    BY <2>3 DEF MsgInv, HistoriesAreWhole
  <2>5. RoundsFit => IF Latest.next = "supervisor"
                     THEN Stands(from.at, from.values, StartOf(n))
                     ELSE /\ from.at \in {"error_handler", "finished"}
                          /\ Replied(from.values)
    <3>1. CASE Latest.next = "supervisor"
      BY <2>3, <3>1 DEF MsgInv, CheckpointsReply
    <3>2. CASE Latest.next # "supervisor"
      <4>1. Latest.next \in {"error_handler", "finished"}
        BY <2>3, <3>2 DEF Checkpoint
      <4>2. RoundsFit => Replied(Latest.values)
        BY <2>3, <3>2 DEF MsgInv, CheckpointsReply
      <4>3. QED
        BY <3>2, <4>1, <4>2
    <3>3. QED
      BY <3>1, <3>2
  <2> HIDE DEF from, n
  <2>6. /\ at'[r] = from.at /\ vals'[r] = from.values /\ base'[r] = n
        /\ pc'[r] = IF from.at = "finished" THEN "ended" ELSE "running"
        /\ \A q \in Requests \ {r} : /\ at'[q] = at[q] /\ vals'[q] = vals[q]
                                     /\ base'[q] = base[q] /\ pc'[q] = pc[q]
    BY <2>1 DEF IInv, TypeOK
  <2>7. HistoriesAreWhole'
    BY <2>1, <2>4, <2>6 DEF MsgInv, HistoriesAreWhole
  <2>8. ASSUME RoundsFit PROVE CheckpointsReply'
    BY <2>1, <2>8 DEF MsgInv, CheckpointsReply, StartOf
  <2>9. from.at \in {"error_handler", "finished"} => from.at \notin GraphNodes
    BY DEF GraphNodes, SupervisorNodes
  <2>10. ASSUME RoundsFit PROVE RunsReply'
    <3> SUFFICES ASSUME NEW q \in Requests, pc'[q] = "running"
                 PROVE  IF at'[q] \in GraphNodes
                        THEN /\ ckpts[base'[q]].next = "supervisor"
                             /\ Stands(at'[q], vals'[q], LastId(ckpts[base'[q]].values.messages))
                        ELSE Replied(vals'[q])
      BY <2>1 DEF RunsReply, StartOf
    <3>1. CASE q = r
      <4>1. CASE Latest.next = "supervisor"
        <5>1. Stands(from.at, from.values, StartOf(n)) /\ ckpts[n].next = "supervisor"
          BY <2>3, <2>5, <2>10, <4>1
        <5>2. from.at \in GraphNodes
          BY <5>1 DEF Stands
        <5>3. QED
          BY <2>6, <3>1, <5>1, <5>2 DEF StartOf
      <4>2. CASE Latest.next # "supervisor"
        BY <2>5, <2>6, <2>9, <2>10, <3>1, <4>2
      <4>3. QED
        BY <4>1, <4>2
    <3>2. CASE q # r
      BY <2>6, <2>10, <3>2 DEF MsgInv, RunsReply, StartOf
    <3>3. QED
      BY <3>1, <3>2
  <2>11. ASSUME RoundsFit PROVE AnswersReply'
    <3> SUFFICES ASSUME NEW q \in Requests, pc'[q] \in {"ended", "done"}, at'[q] = "finished"
                 PROVE  Replied(vals'[q])
      BY DEF AnswersReply
    <3>1. CASE q = r
      <4>1. from.at = "finished" /\ from.at \notin GraphNodes
        BY <2>6, <2>9, <3>1
      <4>2. Latest.next # "supervisor"
        BY <2>5, <2>11, <4>1 DEF Stands
      <4>3. QED
        BY <2>5, <2>6, <2>11, <3>1, <4>2
    <3>2. CASE q # r
      BY <2>6, <2>11, <3>2 DEF MsgInv, AnswersReply
    <3>3. QED
      BY <3>1, <3>2
  <2>12. QED
    BY <2>7, <2>8, <2>10, <2>11 DEF MsgInv, RoundsFit
<1>3. QED
  BY <1>1, <1>2

\* The delegator ends the run without a word only by naming "end".
LEMMA DelegateKeepsMsgs ==
  ASSUME IInv, MsgInv, NEW r \in Requests, Delegate(r)
  PROVE  MsgInv'
<1>1. PICK raw \in RawAgents, asksLocalTime \in LocalTime :
        LET v == [vals[r] EXCEPT
                    !.next_agent = Delegation(raw, asksLocalTime, IncludeWorkspace)]
        IN  GoOn(r, RouteToHumanReview(FALSE, v.next_agent), v)
  BY DEF Delegate
<1> DEFINE agent == Delegation(raw, asksLocalTime, IncludeWorkspace)
           v == [vals[r] EXCEPT !.next_agent = agent]
           node == RouteToHumanReview(FALSE, agent)
<1>2. vals[r] \in Values /\ agent \in Agents
  BY DelegationType, HistoryType
<1> HIDE DEF agent
<1>3. v \in Values /\ v.next_agent = agent /\ v.messages = vals[r].messages
  BY <1>2 DEF Values
<1>4. /\ node \in GraphNodes
      /\ node # "memory_manager"
      /\ node = "end" => agent = "end"
  BY <1>2 DEF RouteToHumanReview, NormalizeAgent, LegacyNextAgent, Agents, NoAgent,
              GraphNodes, SupervisorNodes
<1>5. GoOn(r, node, v)
  BY <1>1, <1>3 DEF agent
<1>6. pc[r] = "running" /\ at[r] \in GraphNodes
  BY DEF Delegate, Step, GraphNodes, SupervisorNodes
<1>7. RoundsFit => LastId(vals[r].messages) >= StartOf(base[r])
  BY <1>6 DEF MsgInv, RunsReply, Stands
<1>8. WellFormed(v.messages)
  BY <1>3 DEF MsgInv, HistoriesAreWhole
<1> HIDE DEF v, node
<1>9. RoundsFit => Stands(node, v, StartOf(base[r]))
  BY <1>3, <1>4, <1>7 DEF Stands
<1>10. QED
  BY <1>3, <1>4, <1>5, <1>6, <1>8, <1>9, GoOnKeepsMsgs

\* An approval opens a way with an agent on it; a rejection is told.
LEMMA HumanReviewKeepsMsgs ==
  ASSUME IInv, MsgInv, NEW r \in Requests, HumanReview(r)
  PROVE  MsgInv'
<1> DEFINE answer == resume[r]
           v == AfterReview(vals[r], answer)
           node == RouteAfterHumanReview(v.human_feedback, v.next_agent)
           start == StartOf(base[r])
<1>1. pc[r] = "running" /\ at[r] = "human_review" /\ answer # NoAction /\ GoOn(r, node, v)
  BY DEF HumanReview, Step
<1>2. vals[r] \in Values /\ answer \in Actions /\ vals[r].messages \in Seq(Message)
      /\ vals[r].next_agent \in Agents \cup {NoAgent} /\ vals[r].turn \in Requests
  BY <1>1 DEF IInv, TypeOK, Values
<1>3. v \in Values /\ v.turn = vals[r].turn /\ v.human_feedback = answer
      /\ v.next_agent = vals[r].next_agent
  BY <1>2, AfterReviewType
<1>4. at[r] \in GraphNodes /\ WellFormed(vals[r].messages)
  BY <1>1 DEF GraphNodes, SupervisorNodes, MsgInv, HistoriesAreWhole
<1>5. LastId(vals[r].messages) \in Nat /\ start \in Nat
  BY <1>1, <1>2, HistoryType, LastIdType DEF StartOf, IInv, BaseInv
<1>6. RoundsFit => LastId(vals[r].messages) >= start
  BY <1>1, <1>4 DEF MsgInv, RunsReply, Stands
<1> HIDE DEF start
<1>7. CASE answer = "approved"
  <2>1. v.messages = vals[r].messages
    BY <1>2, <1>7 DEF AfterReview, Values
  <2>2. /\ node \in GraphNodes
        /\ node # "memory_manager"
        /\ node = "end" => v.next_agent = "end"
    BY <1>2, <1>3, <1>7 DEF RouteAfterHumanReview, NormalizeAgent, LegacyNextAgent, Agents,
                            NoAgent, GraphNodes, SupervisorNodes
  <2> HIDE DEF v, node
  <2>3. RoundsFit => Stands(node, v, start)
    BY <1>6, <2>1, <2>2 DEF Stands
  <2>4. QED
    BY <1>1, <1>3, <1>4, <2>1, <2>2, <2>3, GoOnKeepsMsgs DEF start
<1>8. CASE answer # "approved"
  <2> DEFINE told == [vals[r] EXCEPT !.human_feedback = answer]
             new == <<"ai">>
  <2>1. told \in Values /\ told.messages = vals[r].messages
    BY <1>2 DEF Values
  <2>2. new \in Seq(MessageKinds) /\ 1 \in 1..Len(new) /\ new[1] \in ReplyKinds
        /\ Len(new) = 1
    BY DEF MessageKinds, ReplyKinds
  <2> HIDE DEF told, new
  <2>3. v = Says(told, new)
    BY <1>8 DEF AfterReview, told, new
  <2>4. /\ LastId(v.messages) >= LastId(told.messages)
        /\ RepliedSince(v, LastId(told.messages), 0)
    BY <2>1, <2>2, <2>3, SaysReplies
  <2>5. WellFormed(v.messages)
    <3>1. told.turn \in Requests /\ told.messages \in Seq(Message)
      BY <2>1 DEF Values
    <3>2. WellFormed(Extended(told.messages, new, told.turn))
      BY <1>4, <2>1, <2>2, <3>1, ExtendedIsWhole
    <3>3. v.messages = Extended(told.messages, new, told.turn)
      BY <2>1, <2>3 DEF Says, Values
    <3>4. QED
      BY <3>2, <3>3
  <2>6. node = "end" /\ node \in GraphNodes /\ node # "memory_manager"
    BY <1>3, <1>8 DEF RouteAfterHumanReview, GraphNodes
  <2> HIDE DEF v, node
  <2>7. ASSUME RoundsFit PROVE Stands(node, v, start)
    <3>1. LastId(v.messages) \in Nat
      BY <1>3, LastIdType DEF Values
    <3>2. LastId(v.messages) >= start
      BY <1>5, <1>6, <2>1, <2>4, <2>7, <3>1
    <3>3. RepliedSince(v, start, 0)
      BY <1>3, <1>5, <1>6, <2>1, <2>4, <2>7, RepliedEarlier
    <3>4. QED
      BY <2>6, <3>2, <3>3 DEF Stands
  <2>8. QED
    BY <1>1, <1>3, <1>4, <2>5, <2>6, <2>7, GoOnKeepsMsgs DEF start
<1>9. QED
  BY <1>7, <1>8

\* An agent leaves a reply that the compaction after it keeps.
LEMMA AgentsKeepMsgs ==
  ASSUME IInv, MsgInv, NEW r \in Requests, Researcher(r) \/ WorkspaceReply(r) \/ Chat(r)
  PROVE  MsgInv'
<1>1. PICK new : /\ new \in AgentOutputs \/ new = <<"ai">>
                 /\ GoOn(r, RoutePostReply(Says(vals[r], new)), Says(vals[r], new))
  BY DEF Researcher, WorkspaceReply, Chat
<1> DEFINE v == Says(vals[r], new)
           node == RoutePostReply(v)
           start == StartOf(base[r])
<1>2. pc[r] = "running" /\ at[r] \in GraphNodes
  BY DEF Researcher, WorkspaceReply, Chat, Step, GraphNodes, SupervisorNodes
<1>3. new \in Seq(MessageKinds)
  <2>1. <<"ai">> \in Seq(MessageKinds)
    BY DEF MessageKinds
  <2>2. QED
    BY <1>1, <2>1, OutputsType
<1>4. vals[r] \in Values /\ vals[r].messages \in Seq(Message) /\ vals[r].turn \in Requests
  BY HistoryType DEF Values
<1>5. v \in Values
  BY <1>3, <1>4, SaysType
<1>6. WellFormed(v.messages)
  <2>1. WellFormed(Extended(vals[r].messages, new, vals[r].turn))
    BY <1>3, <1>4, ExtendedIsWhole DEF MsgInv, HistoriesAreWhole
  <2>2. v.messages = Extended(vals[r].messages, new, vals[r].turn)
    BY <1>4 DEF Says, Values
  <2>3. QED
    BY <2>1, <2>2
<1>7. node \in {"memory_manager", "end"} /\ node \in GraphNodes
  BY PostReplyRoutes DEF GraphNodes, SupervisorNodes
<1>8. start \in Nat /\ LastId(vals[r].messages) \in Nat /\ LastId(v.messages) \in Nat
  BY <1>2, <1>4, <1>5, HistoryType, LastIdType DEF StartOf, IInv, BaseInv, Values
<1>9. RoundsFit => LastId(vals[r].messages) >= start
  BY <1>2 DEF MsgInv, RunsReply, Stands
<1>10. ASSUME RoundsFit PROVE Stands(node, v, start)
  <2> DEFINE cut == SummaryCutIndex(Len(v.messages), Keep)
  <2>1. PICK j \in 1..Len(new) : /\ new[j] \in ReplyKinds
                                 /\ \A i \in (j + 1)..Len(new) : new[i] \notin ReplyKinds
                                 /\ Keep < 1 \/ Len(new) - j < Keep
    BY <1>1, <1>10, OutputsReply
  <2>2. /\ LastId(v.messages) >= LastId(vals[r].messages)
        /\ RepliedSince(v, LastId(vals[r].messages), 0)
        /\ RepliedSince(v, LastId(vals[r].messages), cut)
    BY <1>3, <1>4, <2>1, SaysReplies
  <2>3. cut \in Int
    <3> DEFINE total == Len(v.messages)
    <3>1. total \in Nat
      BY <1>5, LenProperties DEF Values
    <3> HIDE DEF total
    <3>2. SummaryCutIndex(total, Keep) \in 0..total
      BY <3>1, CutWithinHistory, SettingsAssumption
    <3>3. QED
      BY <3>1, <3>2 DEF total
  <2> HIDE DEF v, node, start, cut
  <2>4. RepliedSince(v, start, 0) /\ RepliedSince(v, start, cut)
    BY <1>5, <1>8, <1>9, <1>10, <2>2, <2>3, RepliedEarlier
  <2>5. LastId(v.messages) >= start
    BY <1>8, <1>9, <1>10, <2>2
  <2>6. QED
    BY <1>7, <2>4, <2>5 DEF Stands, cut
<1>11. GoOn(r, node, v)
  BY <1>1
<1> HIDE DEF v, node
<1>12. QED
  BY <1>2, <1>5, <1>6, <1>7, <1>10, <1>11, GoOnKeepsMsgs

\* The memory manager keeps histories well formed, and the reply in them.
LEMMA MemoryManagerKeepsMsgs ==
  ASSUME IInv, MsgInv, NEW r \in Requests, MemoryManager(r)
  PROVE  MsgInv'
<1>0. PICK room \in Rooms :
        GoOn(r, "end", [vals[r] EXCEPT !.messages = Compacted(@, vals[r].turn, room)])
  BY DEF MemoryManager
<1> DEFINE v == [vals[r] EXCEPT !.messages = Compacted(@, vals[r].turn, room)]
           start == StartOf(base[r])
<1>1. GoOn(r, "end", v) /\ pc[r] = "running" /\ at[r] = "memory_manager"
      /\ at[r] \in GraphNodes /\ room \in Nat
  BY <1>0, SettingsAssumption DEF MemoryManager, Step, GraphNodes, SupervisorNodes
<1>2. vals[r] \in Values /\ vals[r].messages \in Seq(Message) /\ vals[r].turn \in Requests
      /\ WellFormed(vals[r].messages)
  BY HistoryType DEF Values, MsgInv, HistoriesAreWhole
<1>3. v \in Values /\ v.messages = Compacted(vals[r].messages, vals[r].turn, room)
  BY <1>1, <1>2, CompactedType DEF Values
<1>4. WellFormed(v.messages)
  BY <1>1, <1>2, <1>3, CompactedIsWhole
<1>5. start \in Nat
  BY <1>1, HistoryType, LastIdType DEF StartOf, IInv, BaseInv
<1>6. ASSUME RoundsFit PROVE Stands("end", v, start)
  <2>1. /\ LastId(vals[r].messages) >= start
        /\ RepliedSince(vals[r], start, SummaryCutIndex(Len(vals[r].messages), Keep))
    BY <1>1, <1>6 DEF MsgInv, RunsReply, Stands
  <2>2. LastId(v.messages) >= start /\ RepliedSince(v, start, 0)
    BY <1>1, <1>2, <1>5, <2>1, CompactedReplies
  <2>3. QED
    BY <2>2 DEF Stands, GraphNodes
<1>7. "end" \in GraphNodes
  BY DEF GraphNodes
<1> HIDE DEF v
<1>8. QED
  BY <1>1, <1>3, <1>4, <1>6, <1>7, GoOnKeepsMsgs

\* The master's own steps: the merge, and the values carried on unchanged.
LEMMA MasterKeepsMsgs ==
  ASSUME IInv, MsgInv, NEW r \in Requests, SupervisorEnd(r) \/ ErrorHandler(r)
  PROVE  MsgInv'
<1>1. pc[r] = "running"
  BY DEF SupervisorEnd, ErrorHandler, Step
<1>2. /\ vals[r] \in Values /\ vals[r].messages \in Seq(Message)
      /\ WellFormed(vals[r].messages)
      /\ ckpts[base[r]].values.messages \in Seq(Message)
      /\ WellFormed(ckpts[base[r]].values.messages)
  BY <1>1, HistoryType DEF IInv, BaseInv, MsgInv, HistoriesAreWhole
<1>3. "error_handler" \in Nodes /\ "finished" \in Nodes
      /\ "error_handler" \notin GraphNodes /\ "finished" \notin GraphNodes
  BY DEF Nodes, GraphNodes, SupervisorNodes
<1>4. CASE SupervisorEnd(r)
  <2> DEFINE left == ckpts[base[r]].values.messages
             v == [vals[r] EXCEPT !.messages = AddMessages(left, @)]
  <2>1. Commit(r, "error_handler", v) /\ UNCHANGED pc /\ at[r] = "end"
    BY <1>4 DEF SupervisorEnd, Step
  <2>2. v \in Values /\ v.messages = AddMessages(left, vals[r].messages)
        /\ v.next_agent = vals[r].next_agent
    BY <1>2, AddMessagesType DEF Values
  <2>3. WellFormed(v.messages)
    BY <1>2, <2>2, AddMessagesIsWhole
  <2>4. ASSUME RoundsFit PROVE Replied(v)
    <3>1. "end" \in GraphNodes
      BY DEF GraphNodes
    <3>2. vals[r].next_agent = "end" \/ RepliedSince(vals[r], LastId(left), 0)
      BY <1>1, <2>1, <2>4, <3>1 DEF MsgInv, RunsReply, Stands, StartOf
    <3>3. CASE vals[r].next_agent = "end"
      BY <2>2, <3>3 DEF Replied
    <3>4. CASE RepliedSince(vals[r], LastId(left), 0)
      BY <1>2, <3>4, MergedReplies
    <3>5. QED
      BY <3>2, <3>3, <3>4
  <2> HIDE DEF v, left
  <2>5. QED
    BY <1>1, <1>3, <2>1, <2>2, <2>3, <2>4, AppendKeepsMsgs DEF Commit
<1>5. CASE ErrorHandler(r)
  <2>1. /\ Commit(r, "finished", vals[r])
        /\ pc' = [pc EXCEPT ![r] = "ended"]
        /\ at[r] = "error_handler"
    BY <1>5 DEF ErrorHandler, Step
  <2>2. \A q \in Requests \ {r} : pc'[q] = pc[q]
    BY <2>1 DEF IInv, TypeOK
  <2>3. RoundsFit => Replied(vals[r])
    BY <1>1, <1>3, <2>1 DEF MsgInv, RunsReply
  <2>4. QED
    BY <1>2, <1>3, <2>1, <2>2, <2>3, AppendKeepsMsgs DEF Commit
<1>6. QED
  BY <1>4, <1>5

\* Steps that write no history.
LEMMA OthersKeepMsgs ==
  ASSUME IInv, MsgInv,
         (\E r \in Requests : \/ AskHuman(r) \/ WorkspaceTools(r) \/ Respond(r)
                              \/ Fail(r) \/ Disconnect(r)) \/ Crash
  PROVE  MsgInv'
<1>1. CASE \E r \in Requests : AskHuman(r)
  <2>1. PICK r \in Requests : AskHuman(r)
    BY <1>1
  <2>2. /\ Len(ckpts') = Len(ckpts)
        /\ \A c \in 1..Len(ckpts) : /\ ckpts'[c].next = ckpts[c].next
                                    /\ ckpts'[c].values = ckpts[c].values
                                    /\ ckpts'[c].sub = ckpts[c].sub
    BY <2>1, MarkStep
  <2>3. /\ pc' = [pc EXCEPT ![r] = "ended"]
        /\ at[r] = "human_review"
        /\ UNCHANGED <<at, base, vals>>
    BY <2>1 DEF AskHuman, Step, requestVars
  <2>4. \A q \in Requests : q # r => pc'[q] = pc[q]
    BY <2>3 DEF IInv, TypeOK
  <2>5. pc'[r] = "ended"
    BY <2>3 DEF IInv, TypeOK
  <2>6. \A q \in Requests : pc'[q] = "running" => pc[q] = "running"
    BY <2>4, <2>5
  <2>7. \A q \in Requests : pc'[q] \in {"ended", "done"} /\ at[q] = "finished" =>
                              pc[q] \in {"ended", "done"}
    BY <2>3, <2>4
  <2>8. QED
    BY <2>2, <2>3, <2>6, <2>7, QuietKeepsMsgs DEF MsgInv, HistoriesAreWhole
<1>2. ASSUME UNCHANGED <<ckpts, at, base, vals>>,
             \A q \in Requests : pc'[q] = "running" => pc[q] = "running",
             \A q \in Requests : pc'[q] \in {"ended", "done"} => pc[q] \in {"ended", "done"}
      PROVE  MsgInv'
  BY <1>2, QuietKeepsMsgs DEF MsgInv, HistoriesAreWhole
<1>3. CASE \E r \in Requests : WorkspaceTools(r)
  BY <1>2, <1>3 DEF WorkspaceTools, requestVars
<1>4. CASE \E r \in Requests : Respond(r) \/ Fail(r) \/ Disconnect(r)
  BY <1>2, <1>4 DEF Respond, Fail, Disconnect, requestVars, IInv, TypeOK
<1>5. CASE Crash
  BY <1>2, <1>5 DEF Crash, requestVars
<1>6. QED
  BY <1>1, <1>3, <1>4, <1>5

\* Every step keeps the invariant.
LEMMA NextMsgs == IInv /\ MsgInv /\ [Next]_vars => MsgInv'
<1> SUFFICES ASSUME IInv, MsgInv, [Next]_vars PROVE MsgInv'
  OBVIOUS
<1>1. CASE UNCHANGED vars
  BY <1>1, QuietKeepsMsgs DEF vars, MsgInv, HistoriesAreWhole
<1>2. ASSUME NEW r \in Requests,
             ChatLoad(r) \/ ResumeCheck(r) \/ RunStep(r) \/ WorkspaceTools(r)
      PROVE  MsgInv'
  <2>1. CASE ChatLoad(r) \/ ChatBegin(r)
    BY <2>1, ChatKeepsMsgs
  <2>2. CASE ResumeCheck(r) \/ ResumeBegin(r)
    BY <2>2, ResumeKeepsMsgs
  <2>3. CASE Delegate(r)
    BY <2>3, DelegateKeepsMsgs
  <2>4. CASE HumanReview(r)
    BY <2>4, HumanReviewKeepsMsgs
  <2>5. CASE Researcher(r) \/ WorkspaceReply(r) \/ Chat(r)
    BY <2>5, AgentsKeepMsgs
  <2>6. CASE MemoryManager(r)
    BY <2>6, MemoryManagerKeepsMsgs
  <2>7. CASE SupervisorEnd(r) \/ ErrorHandler(r)
    BY <2>7, MasterKeepsMsgs
  <2>8. CASE AskHuman(r) \/ WorkspaceTools(r) \/ Respond(r)
    BY <2>8, OthersKeepMsgs
  <2>9. QED
    BY <1>2, <2>1, <2>2, <2>3, <2>4, <2>5, <2>6, <2>7, <2>8 DEF RunStep
<1>3. CASE (\E r \in Requests : Fail(r) \/ Disconnect(r)) \/ Crash
  BY <1>3, OthersKeepMsgs
<1>4. QED
  BY <1>1, <1>2, <1>3 DEF Next

\* The invariant holds of every reachable state.
LEMMA MsgInvariance == Spec => []MsgInv
<1>1. QED
  BY InitMsgs, NextMsgs, Invariance, PTL DEF Spec

-----------------------------------------------------------------------------
(***************************************************************************)
(* What a history no longer has.  Places are compared by the ids, which    *)
(* grow at least as fast; a pass adds ids without a gap, its compaction is *)
(* its last step, and the merge keeps all that the master has.             *)
(***************************************************************************)

There(messages, n) == \E i \in 1..Len(messages) : messages[i].id = n

\* The message n was removed by the compaction that wrote a summary of the turn.
Removed(messages, turn, n) ==
  \E s \in 1..Len(messages) :
    /\ messages[s].kind = "summary"
    /\ messages[s].turn = turn
    /\ Keep >= 1
    /\ n + Keep < messages[s].id
    /\ n \in messages[s].of \/ \A m \in messages[s].of : m < n

\* It was added after the question of the same turn.
Lost(messages, n) ==
  \E q \in 1..Len(messages) : /\ messages[q].kind = "human"
                              /\ messages[q].id < n
                              /\ Removed(messages, messages[q].turn, n)

Accounted(messages) ==
  \A n \in 1..LastId(messages) : There(messages, n) \/ Lost(messages, n)

\* Between two places there are at least as many ids.
LEMMA IdsSpread ==
  ASSUME NEW messages \in Seq(Message), WellFormed(messages), NEW i \in 1..Len(messages)
  PROVE  \A j \in i..Len(messages) : messages[j].id - messages[i].id >= j - i
<1> DEFINE n == Len(messages)
           near == {j \in i..n : messages[j].id - messages[i].id < j - i}
<1>1. n \in Nat /\ \A j \in 1..n : messages[j].id \in Nat
  BY MessageType
<1>2. near = {}
  <2> SUFFICES ASSUME near # {} PROVE FALSE
    OBVIOUS
  <2>1. near \subseteq Nat
    BY <1>1
  <2>2. PICK j \in near : \A k \in near : j <= k
    <3> HIDE DEF near
    <3>1. QED
      BY <2>1, LeastNatural
  <2>3. j \in i..n /\ j \in 1..n /\ messages[j].id - messages[i].id < j - i
    BY <1>1, <2>2
  <2>4. j # i
    BY <1>1, <2>3
  <2>5. j - 1 \in i..n /\ j - 1 \in 1..n /\ j - 1 < j
    BY <1>1, <2>3, <2>4
  <2>6. messages[j - 1].id - messages[i].id >= (j - 1) - i
    <3>1. j - 1 \notin near
      BY <1>1, <2>2, <2>3, <2>5
    <3>2. ~(messages[j - 1].id - messages[i].id < (j - 1) - i)
      BY <2>5, <3>1
    <3>3. messages[j - 1].id \in Nat /\ messages[i].id \in Nat
      BY <1>1, <2>5
    <3>4. QED
      BY <1>1, <2>3, <3>2, <3>3
  <2>7. messages[j - 1].id < messages[j].id
    BY <2>3, <2>5 DEF WellFormed
  <2>8. messages[j].id \in Nat /\ messages[j - 1].id \in Nat /\ messages[i].id \in Nat
    BY <1>1, <2>3, <2>5
  <2>9. QED
    BY <1>1, <2>3, <2>6, <2>7, <2>8
<1>3. ASSUME NEW j \in i..n PROVE messages[j].id - messages[i].id >= j - i
  <2>1. j \notin near /\ j \in 1..n
    BY <1>1, <1>2
  <2>2. ~(messages[j].id - messages[i].id < j - i)
    BY <2>1
  <2>3. messages[j].id \in Nat /\ messages[i].id \in Nat
    BY <1>1, <2>1
  <2>4. QED
    BY <1>1, <2>2, <2>3
<1>4. QED
  BY <1>3

\* A history that begins with another has what that one has, and has lost it if
\* it has lost it.
LEMMA LongerHas ==
  ASSUME NEW messages \in Seq(Message), NEW longer \in Seq(Message),
         Len(messages) <= Len(longer),
         \A i \in 1..Len(messages) : longer[i] = messages[i]
  PROVE  /\ \A n : There(messages, n) => There(longer, n)
         /\ \A n : Lost(messages, n) => Lost(longer, n)
<1>1. \A i \in 1..Len(messages) : i \in 1..Len(longer)
  BY LenProperties
<1>2. ASSUME NEW n, There(messages, n) PROVE There(longer, n)
  BY <1>1, <1>2 DEF There
<1>3. ASSUME NEW n, NEW turn, Removed(messages, turn, n) PROVE Removed(longer, turn, n)
  <2>1. PICK s \in 1..Len(messages) :
          /\ messages[s].kind = "summary" /\ messages[s].turn = turn
          /\ Keep >= 1 /\ n + Keep < messages[s].id
          /\ n \in messages[s].of \/ \A m \in messages[s].of : m < n
    BY <1>3 DEF Removed
  <2>2. s \in 1..Len(longer) /\ longer[s] = messages[s]
    BY <1>1
  <2>3. QED
    BY <2>1, <2>2 DEF Removed
<1>4. ASSUME NEW n, Lost(messages, n) PROVE Lost(longer, n)
  <2>1. PICK q \in 1..Len(messages) : /\ messages[q].kind = "human"
                                      /\ messages[q].id < n
                                      /\ Removed(messages, messages[q].turn, n)
    BY <1>4 DEF Lost
  <2>2. q \in 1..Len(longer) /\ longer[q] = messages[q]
    BY <1>1
  <2>3. QED
    BY <1>3, <2>1, <2>2 DEF Lost
<1>5. QED
  BY <1>2, <1>4

\* New messages leave no gap.
LEMMA ExtendedHas ==
  ASSUME NEW messages \in Seq(Message), NEW kinds \in Seq(MessageKinds),
         NEW turn \in Requests
  PROVE  LET longer == Extended(messages, kinds, turn)
         IN  /\ \A n : There(messages, n) => There(longer, n)
             /\ \A n : Lost(messages, n) => Lost(longer, n)
             /\ \A n \in (LastId(messages) + 1)..LastId(longer) : There(longer, n)
<1> DEFINE longer == Extended(messages, kinds, turn)
           last == LastId(messages)
           m == Len(messages)
           k == Len(kinds)
<1>1. longer \in Seq(Message)
  BY ExtendedType
<1>2. /\ Len(longer) = m + k
      /\ \A i \in 1..m : longer[i] = messages[i]
      /\ \A i \in 1..k : longer[m + i].id = last + i
      /\ LastId(longer) = last + k
  BY ExtendedShape
<1>3. m \in Nat /\ k \in Nat /\ last \in Nat
  BY MessageType, LenProperties
<1> HIDE DEF longer, last, k
<1>4. m <= Len(longer)
  BY <1>2, <1>3
<1>5. /\ \A n : There(messages, n) => There(longer, n)
      /\ \A n : Lost(messages, n) => Lost(longer, n)
  BY <1>1, <1>2, <1>4, LongerHas
<1>6. ASSUME NEW n \in (last + 1)..LastId(longer) PROVE There(longer, n)
  <2>1. n - last \in 1..k /\ m + (n - last) \in 1..(m + k) /\ last + (n - last) = n
    BY <1>2, <1>3
  <2>2. longer[m + (n - last)].id = n
    BY <1>2, <2>1
  <2>3. QED
    BY <1>2, <2>1, <2>2 DEF There
<1>7. QED
  BY <1>5, <1>6 DEF longer, last

\* What a compaction removes has a summary that was written from it, or only from
\* older messages.
LEMMA CompactedRemoves ==
  ASSUME NEW messages \in Seq(Message), WellFormed(messages), NEW turn \in Requests,
         NEW room \in Nat, NEW start \in Nat,
         \A n \in (start + 1)..LastId(messages) : There(messages, n)
  PROVE  LET short == Compacted(messages, turn, room)
         IN  \A n \in (start + 1)..LastId(short) :
               There(short, n) \/ Removed(short, turn, n)
<1> DEFINE short == Compacted(messages, turn, room)
           total == Len(messages)
           last == LastId(messages)
           cut == SummaryCutIndex(total, Keep)
           left == total - cut
           payload == Payload(cut, room)
           summary == Summary(messages, payload, turn)
<1>1. CASE cut = 0
  BY <1>1 DEF Compacted
<1>2. CASE cut # 0
  <2>1. /\ cut \in 1..total
        /\ short \in Seq(Message)
        /\ Len(short) = left + 1
        /\ \A i \in 1..left : short[i] = messages[cut + i]
        /\ short[left + 1] = summary
    BY <1>2, CompactedShape
  <2>2. /\ total \in Nat /\ last \in Nat
        /\ \A i \in 1..total : messages[i].id \in Nat /\ messages[i].of \subseteq Nat
    BY MessageType
  <2>3. /\ summary.id = last + 1 /\ summary.kind = "summary" /\ summary.turn = turn
        /\ summary.of = {messages[i].id : i \in payload} \cup UNION {messages[i].of : i \in payload}
        /\ payload = {i \in 1..cut : i <= room}
    BY DEF Summary, Payload
  <2>4. Keep \in Nat /\ Keep >= 1 /\ cut = total - Keep
    <3>1. Keep \in Int /\ ~(Keep < 1)
      BY <1>2, SettingsAssumption DEF SummaryCutIndex
    <3>2. Max({0, total - Keep}) \in {0, total - Keep}
      <4>1. 0 \in Int /\ total - Keep \in Int
        BY <2>2, <3>1
      <4>2. QED
        BY <4>1, MaxOfTwo
    <3>3. cut = Max({0, total - Keep})
      BY <3>1 DEF SummaryCutIndex
    <3>4. QED
      BY <1>2, <3>1, <3>2, <3>3
  <2>5. total > 0 /\ last = messages[total].id
    <3>1. total > 0
      BY <2>1, <2>2
    <3>2. QED
      BY <3>1, MessageType
  <2> HIDE DEF short, total, last, cut, payload, summary
  <2>6. left \in Nat /\ left + 1 > 0 /\ left + 1 \in 1..(left + 1)
    BY <2>1, <2>2
  <2>7. LastId(short) = last + 1
    <3>1. Len(short) > 0
      BY <2>1, <2>6
    <3>2. LastId(short) = short[Len(short)].id
      BY <2>1, <3>1, MessageType
    <3>3. QED
      BY <2>1, <2>3, <3>2
  <2>8. ASSUME NEW n \in (start + 1)..(last + 1)
        PROVE  There(short, n) \/ Removed(short, turn, n)
    <3>1. CASE n = last + 1
      <4>1. short[left + 1].id = n
        BY <2>1, <2>3, <3>1
      <4>2. QED
        BY <2>1, <2>6, <4>1 DEF There
    <3>2. CASE n # last + 1
      <4>1. n \in (start + 1)..last
        BY <2>2, <3>2
      <4>2. PICK k \in 1..total : messages[k].id = n
        BY <4>1 DEF There, total, last
      <4>3. CASE k > cut
        <5>1. k - cut \in 1..left /\ cut + (k - cut) = k /\ k - cut \in 1..(left + 1)
          BY <2>1, <2>2, <4>3
        <5>2. short[k - cut] = messages[k]
          BY <2>1, <5>1
        <5>3. QED
          BY <2>1, <4>2, <5>1, <5>2 DEF There
      <4>4. CASE ~(k > cut)
        <5>1. k \in 1..cut
          BY <2>1, <2>2, <4>4
        <5>2. n + Keep < last + 1
          <6>1. total \in k..total
            BY <2>2
          <6>2. messages[total].id - messages[k].id >= total - k
            BY <6>1, IdsSpread DEF total
          <6>3. last - n >= total - k
            BY <2>5, <4>2, <6>2
          <6>4. QED
            BY <2>2, <2>4, <5>1, <6>3
        <5>3. n \in summary.of \/ \A m \in summary.of : m < n
          <6>1. CASE k \in payload
            BY <2>3, <4>2, <6>1
          <6>2. CASE k \notin payload
            <7>1. ASSUME NEW i \in payload PROVE i \in 1..total /\ messages[i].id < n
              <8>1. i \in 1..total /\ i < k
                BY <2>1, <2>2, <2>3, <5>1, <6>2
              <8>2. messages[i].id < messages[k].id
                BY <8>1 DEF WellFormed, total
              <8>3. QED
                BY <4>2, <8>1, <8>2
            <7>2. ASSUME NEW i \in payload, NEW m \in messages[i].of PROVE m < n
              <8>1. m < messages[i].id
                BY <7>1, <7>2 DEF WellFormed, total
              <8>2. m \in Nat /\ messages[i].id \in Nat
                BY <2>2, <7>1, <7>2
              <8>3. QED
                BY <7>1, <8>1, <8>2
            <7>3. QED
              BY <2>3, <7>1, <7>2
          <6>3. QED
            BY <6>1, <6>2
        <5>4. Removed(short, turn, n)
          BY <2>1, <2>3, <2>4, <2>6, <5>2, <5>3 DEF Removed
        <5>5. QED
          BY <5>4
      <4>5. QED
        BY <4>3, <4>4
    <3>3. QED
      BY <3>1, <3>2
  <2>9. QED
    BY <2>7, <2>8 DEF short
<1>3. QED
  BY <1>1, <1>2

\* The merge accounts for what the pass has lost since the question.
LEMMA MergedAccounts ==
  ASSUME NEW left \in Seq(Message), Accounted(left),
         NEW right \in Seq(Message), WellFormed(right), NEW turn \in Requests,
         Len(left) > 0, left[Len(left)].kind = "human", left[Len(left)].turn = turn,
         \A n \in (LastId(left) + 1)..LastId(right) :
           There(right, n) \/ Removed(right, turn, n)
  PROVE  Accounted(AddMessages(left, right))
<1> DEFINE merged == AddMessages(left, right)
           n == Len(right)
           m == Len(left)
           last == LastId(left)
<1>1. PICK k \in 0..n :
        /\ \A i \in 1..n : right[i].id <= last <=> i <= k
        /\ merged \in Seq(Message)
        /\ Len(merged) = m + (n - k)
        /\ \A i \in 1..m : merged[i] = left[i]
        /\ \A i \in 1..(n - k) : merged[m + i] = right[k + i]
        /\ LastId(merged) = IF n - k = 0 THEN last ELSE LastId(right)
  BY AddMessagesShape
<1>2. /\ n \in Nat /\ m \in Nat /\ last \in Nat /\ LastId(right) \in Nat
      /\ \A i \in 1..n : right[i].id \in Nat
      /\ last = left[m].id
  BY MessageType
<1> HIDE DEF merged, n, last
<1>3. m <= Len(merged)
  BY <1>1, <1>2
<1>4. /\ \A x : There(left, x) => There(merged, x)
      /\ \A x : Lost(left, x) => Lost(merged, x)
  BY <1>1, <1>3, LongerHas
\* What the right has that is younger than the left is in the merge.
<1>5. ASSUME NEW i \in 1..n, right[i].id > last
      PROVE  \E j \in 1..Len(merged) : merged[j] = right[i]
  <2>1. ~(right[i].id <= last)
    BY <1>2, <1>5
  <2>2. ~(i <= k)
    BY <1>1, <2>1
  <2>3. i - k \in 1..(n - k) /\ k + (i - k) = i /\ m + (i - k) \in 1..(m + (n - k))
    BY <1>2, <2>2
  <2>4. QED
    BY <1>1, <2>3
<1>6. ASSUME NEW x \in 1..LastId(merged) PROVE There(merged, x) \/ Lost(merged, x)
  <2>1. CASE x \in 1..last
    BY <1>4, <2>1 DEF Accounted, last
  <2>2. CASE x \notin 1..last
    <3>1. x \in (last + 1)..LastId(right) /\ x > last /\ x \in Nat
      BY <1>1, <1>2, <2>2
    <3>2. CASE There(right, x)
      <4>1. PICK i \in 1..n : right[i].id = x
        BY <3>2 DEF There, n
      <4>2. PICK j \in 1..Len(merged) : merged[j] = right[i]
        BY <1>5, <3>1, <4>1
      <4>3. QED
        BY <4>1, <4>2 DEF There
    <3>3. CASE Removed(right, turn, x)
      <4>1. PICK s \in 1..n :
              /\ right[s].kind = "summary" /\ right[s].turn = turn
              /\ Keep >= 1 /\ x + Keep < right[s].id
              /\ x \in right[s].of \/ \A y \in right[s].of : y < x
        BY <3>3 DEF Removed, n
      <4>2. right[s].id > last
        BY <1>2, <3>1, <4>1, SettingsAssumption
      <4>3. PICK j \in 1..Len(merged) : merged[j] = right[s]
        BY <1>5, <4>2
      <4>4. Removed(merged, turn, x)
        BY <4>1, <4>3 DEF Removed
      <4>5. m \in 1..Len(merged) /\ merged[m] = left[m]
        BY <1>1, <1>2, <1>3
      <4>6. merged[m].kind = "human" /\ merged[m].turn = turn /\ merged[m].id < x
        BY <1>2, <3>1, <4>5
      <4>7. QED
        BY <4>4, <4>5, <4>6 DEF Lost
    <3>4. QED
      BY <3>1, <3>2, <3>3 DEF last
  <2>3. QED
    BY <2>1, <2>2
<1>7. QED
  BY <1>6 DEF Accounted, merged

-----------------------------------------------------------------------------
(***************************************************************************)
(* Their invariant.  A master's history accounts for every id; what a run  *)
(* of the supervisor graph has, and has saved, accounts for the ids since  *)
(* the question its checkpoint ends with, and lacks none before the        *)
(* memory manager has run.                                                 *)
(***************************************************************************)

Asked(v) ==
  LET n == Len(v.messages)
  IN  n > 0 /\ v.messages[n].kind = "human" /\ v.messages[n].turn = v.turn

\* v is the state at node of a pass that began with w.
Passed(node, v, w) ==
  /\ node \in GraphNodes
  /\ v.turn = w.turn
  /\ \A n \in (LastId(w.messages) + 1)..LastId(v.messages) :
       There(v.messages, n) \/ (node = "end" /\ Removed(v.messages, v.turn, n))

CheckpointsAccount ==
  \A c \in 1..Len(ckpts) :
    /\ Accounted(ckpts[c].values.messages)
    /\ ckpts[c].next = "supervisor" =>
         /\ Asked(ckpts[c].values)
         /\ Passed(ckpts[c].sub.at, ckpts[c].sub.values, ckpts[c].values)

RunsAccount ==
  \A r \in Requests :
    /\ pc[r] = "loaded" => Asked(vals[r]) /\ Accounted(vals[r].messages)
    /\ pc[r] = "running" =>
         IF at[r] \in GraphNodes
         THEN /\ ckpts[base[r]].next = "supervisor"
              /\ Passed(at[r], vals[r], ckpts[base[r]].values)
         ELSE Accounted(vals[r].messages)

LostInv == CheckpointsAccount /\ RunsAccount

\* Nothing is lost at first.
LEMMA InitLost == Init => LostInv
<1> SUFFICES ASSUME Init PROVE LostInv
  OBVIOUS
<1>1. Len(ckpts) = 0
  BY EmptySeq DEF Init
<1>2. QED
  BY <1>1 DEF Init, LostInv, CheckpointsAccount, RunsAccount

\* A step that saves the same values and stands where it stood keeps the invariant.
LEMMA QuietKeepsLost ==
  ASSUME IInv, LostInv,
         Len(ckpts') = Len(ckpts),
         \A c \in 1..Len(ckpts) : /\ ckpts'[c].next = ckpts[c].next
                                  /\ ckpts'[c].values = ckpts[c].values
                                  /\ ckpts'[c].sub = ckpts[c].sub,
         UNCHANGED <<at, base>>,
         \A q \in Requests : pc'[q] = "running" => pc[q] = "running" /\ vals'[q] = vals[q],
         \A q \in Requests : pc'[q] = "loaded" =>
           \/ pc[q] = "loaded" /\ vals'[q] = vals[q]
           \/ Asked(vals'[q]) /\ Accounted(vals'[q].messages)
  PROVE  LostInv'
<1>1. CheckpointsAccount'
  BY DEF LostInv, CheckpointsAccount
<1>2. RunsAccount'
  <2> SUFFICES ASSUME NEW q \in Requests
               PROVE  /\ pc'[q] = "loaded" => Asked(vals'[q]) /\ Accounted(vals'[q].messages)
                      /\ pc'[q] = "running" =>
                           IF at[q] \in GraphNodes
                           THEN /\ ckpts'[base[q]].next = "supervisor"
                                /\ Passed(at[q], vals'[q], ckpts'[base[q]].values)
                           ELSE Accounted(vals'[q].messages)
    BY DEF RunsAccount
  <2>1. pc'[q] = "loaded" => Asked(vals'[q]) /\ Accounted(vals'[q].messages)
    BY DEF LostInv, RunsAccount
  <2>2. ASSUME pc'[q] = "running"
        PROVE  IF at[q] \in GraphNodes
               THEN /\ ckpts'[base[q]].next = "supervisor"
                    /\ Passed(at[q], vals'[q], ckpts'[base[q]].values)
               ELSE Accounted(vals'[q].messages)
    <3>1. pc[q] = "running" /\ vals'[q] = vals[q] /\ base[q] \in 1..Len(ckpts)
      BY <2>2 DEF IInv, BaseInv
    <3>2. QED
      BY <3>1 DEF LostInv, RunsAccount
  <2>3. QED
    BY <2>1, <2>2
<1>3. QED
  BY <1>1, <1>2 DEF LostInv

\* A node keeps the invariant if the values it goes on with do.
LEMMA GoOnKeepsLost ==
  ASSUME IInv, LostInv, NEW r \in Requests, pc[r] = "running", at[r] \in GraphNodes,
         NEW node \in GraphNodes, NEW v \in Values, GoOn(r, node, v),
         Passed(node, v, ckpts[base[r]].values)
  PROVE  LostInv'
<1>0. node \in Nodes
  BY DEF GraphNodes, Nodes
<1>1. /\ at'[r] = node /\ vals'[r] = v
      /\ \A q \in Requests \ {r} : at'[q] = at[q] /\ vals'[q] = vals[q]
      /\ UNCHANGED <<base, pc>>
  BY <1>0, GoOnType DEF GoOn, requestVars
<1>2. /\ Len(ckpts') = Len(ckpts)
      /\ \A c \in 1..Len(ckpts) :
           /\ ckpts'[c].next = ckpts[c].next
           /\ ckpts'[c].values = ckpts[c].values
           /\ ckpts'[c].sub = IF c = base[r] THEN [at |-> node, values |-> v]
                              ELSE ckpts[c].sub
  BY <1>0, SaveStep
<1>3. base[r] \in 1..Len(ckpts) /\ ckpts[base[r]].next = "supervisor"
  BY DEF IInv, BaseInv, LostInv, RunsAccount
<1>4. CheckpointsAccount'
  <2> SUFFICES ASSUME NEW c \in 1..Len(ckpts)
               PROVE  /\ Accounted(ckpts[c].values.messages)
                      /\ ckpts[c].next = "supervisor" =>
                           /\ Asked(ckpts[c].values)
                           /\ Passed(ckpts'[c].sub.at, ckpts'[c].sub.values, ckpts[c].values)
    BY <1>2 DEF CheckpointsAccount
  <2>1. CASE c = base[r]
    <3>1. ckpts'[c].sub.at = node /\ ckpts'[c].sub.values = v
      BY <1>2, <2>1
    <3>2. QED
      BY <1>3, <2>1, <3>1 DEF LostInv, CheckpointsAccount
  <2>2. CASE c # base[r]
    BY <1>2, <2>2 DEF LostInv, CheckpointsAccount
  <2>3. QED
    BY <2>1, <2>2
<1>5. RunsAccount'
  <2> SUFFICES ASSUME NEW q \in Requests
               PROVE  /\ pc[q] = "loaded" => Asked(vals'[q]) /\ Accounted(vals'[q].messages)
                      /\ pc[q] = "running" =>
                           IF at'[q] \in GraphNodes
                           THEN /\ ckpts'[base[q]].next = "supervisor"
                                /\ Passed(at'[q], vals'[q], ckpts'[base[q]].values)
                           ELSE Accounted(vals'[q].messages)
    BY <1>1 DEF RunsAccount
  <2>1. CASE q = r
    BY <1>1, <1>2, <1>3, <2>1
  <2>2. CASE q # r
    <3>1. pc[q] = "running" => base[q] \in 1..Len(ckpts)
      BY DEF IInv, BaseInv
    <3>2. QED
      BY <1>1, <1>2, <2>2, <3>1 DEF LostInv, RunsAccount
  <2>3. QED
    BY <2>1, <2>2
<1>6. QED
  BY <1>4, <1>5 DEF LostInv

\* So does a step that begins a new checkpoint.
LEMMA AppendKeepsLost ==
  ASSUME IInv, LostInv, NEW r \in Requests,
         NEW next \in {"supervisor", "error_handler", "finished"},
         NEW node \in Nodes, NEW v \in Values,
         ckpts' = Append(ckpts, [next |-> next, values |-> v,
                                 sub |-> [at |-> node, values |-> v], asked |-> FALSE]),
         base' = [base EXCEPT ![r] = Len(ckpts) + 1],
         at' = [at EXCEPT ![r] = node],
         vals' = [vals EXCEPT ![r] = v],
         \A q \in Requests \ {r} : pc'[q] = pc[q],
         pc'[r] # "loaded",
         Accounted(v.messages),
         IF next = "supervisor" THEN Asked(v) /\ node \in GraphNodes
         ELSE node \notin GraphNodes
  PROVE  LostInv'
<1> DEFINE e == [next |-> next, values |-> v,
                 sub |-> [at |-> node, values |-> v], asked |-> FALSE]
           n == Len(ckpts)
<1>1. /\ e \in Checkpoint /\ e.next = next /\ e.values = v
      /\ e.sub.at = node /\ e.sub.values = v
  BY DEF Checkpoint
<1> HIDE DEF e
<1>2. /\ n \in Nat
      /\ Len(ckpts') = n + 1
      /\ \A c \in 1..n : ckpts'[c] = ckpts[c]
      /\ ckpts'[n + 1] = e
  BY <1>1, HistoryType, AppendStep DEF e
<1> HIDE DEF n
<1>3. \A c \in 1..(n + 1) : c \in 1..n \/ c = n + 1
  BY <1>2
<1>4. /\ at'[r] = node /\ vals'[r] = v /\ base'[r] = n + 1
      /\ \A q \in Requests \ {r} : at'[q] = at[q] /\ vals'[q] = vals[q] /\ base'[q] = base[q]
  BY DEF IInv, TypeOK, n
<1>5. next = "supervisor" => Passed(node, v, v)
  <2>1. LastId(v.messages) \in Nat
    BY LastIdType DEF Values
  <2>2. (LastId(v.messages) + 1)..LastId(v.messages) = {}
    BY <2>1
  <2>3. QED
    BY <2>2 DEF Passed
<1>6. CheckpointsAccount'
  <2> SUFFICES ASSUME NEW c \in 1..(n + 1)
               PROVE  /\ Accounted(ckpts'[c].values.messages)
                      /\ ckpts'[c].next = "supervisor" =>
                           /\ Asked(ckpts'[c].values)
                           /\ Passed(ckpts'[c].sub.at, ckpts'[c].sub.values,
                                     ckpts'[c].values)
    BY <1>2 DEF CheckpointsAccount
  <2>1. CASE c \in 1..n
    BY <1>2, <2>1 DEF LostInv, CheckpointsAccount, n
  <2>2. CASE c = n + 1
    BY <1>1, <1>2, <1>5, <2>2
  <2>3. QED
    BY <1>3, <2>1, <2>2
<1>7. RunsAccount'
  <2> SUFFICES ASSUME NEW q \in Requests
               PROVE  /\ pc'[q] = "loaded" => Asked(vals'[q]) /\ Accounted(vals'[q].messages)
                      /\ pc'[q] = "running" =>
                           IF at'[q] \in GraphNodes
                           THEN /\ ckpts'[base'[q]].next = "supervisor"
                                /\ Passed(at'[q], vals'[q], ckpts'[base'[q]].values)
                           ELSE Accounted(vals'[q].messages)
    BY DEF RunsAccount
  <2>1. CASE q = r
    <3>1. ckpts'[base'[q]].next = next /\ ckpts'[base'[q]].values = v
      BY <1>1, <1>2, <1>4, <2>1
    <3>2. QED
      BY <1>4, <1>5, <2>1, <3>1
  <2>2. CASE q # r
    <3>1. pc[q] = "running" => base[q] \in 1..n
      BY DEF IInv, BaseInv, n
    <3>2. QED
      BY <1>2, <1>4, <2>2, <3>1 DEF LostInv, RunsAccount
  <2>3. QED
    BY <2>1, <2>2
<1>8. QED
  BY <1>6, <1>7 DEF LostInv

\* A question on a history that accounts for its ids.
LEMMA InitialAsks ==
  ASSUME NEW messages \in Seq(Message), Accounted(messages), NEW r \in Requests
  PROVE  /\ Asked(InitialState(messages, r))
         /\ Accounted(InitialState(messages, r).messages)
<1> DEFINE new == <<"human">>
           longer == Extended(messages, new, r)
           last == LastId(messages)
<1>1. new \in Seq(MessageKinds) /\ Len(new) = 1 /\ new[1] = "human"
  BY DEF MessageKinds
<1>2. InitialState(messages, r).messages = longer /\ InitialState(messages, r).turn = r
  BY DEF InitialState
<1> HIDE DEF new
<1>3. /\ Len(longer) = Len(messages) + 1
      /\ longer[Len(messages) + 1].kind = "human"
      /\ longer[Len(messages) + 1].turn = r
  <2>1. /\ Len(longer) = Len(messages) + Len(new)
        /\ \A i \in 1..Len(new) : /\ longer[Len(messages) + i].kind = new[i]
                                  /\ longer[Len(messages) + i].turn = r
    BY <1>1, ExtendedShape
  <2> HIDE DEF longer
  <2>2. QED
    BY <1>1, <2>1
<1>4. /\ \A n : There(messages, n) => There(longer, n)
      /\ \A n : Lost(messages, n) => Lost(longer, n)
      /\ \A n \in (last + 1)..LastId(longer) : There(longer, n)
  BY <1>1, ExtendedHas
<1>5. last \in Nat /\ Len(messages) \in Nat
  BY MessageType
<1> HIDE DEF longer, last
<1>6. Accounted(longer)
  <2> SUFFICES ASSUME NEW n \in 1..LastId(longer) PROVE There(longer, n) \/ Lost(longer, n)
    BY DEF Accounted
  <2>1. CASE n \in 1..last
    BY <1>4, <2>1 DEF Accounted, last
  <2>2. CASE n \notin 1..last
    <3>1. n \in (last + 1)..LastId(longer)
      BY <1>5, <2>2
    <3>2. QED
      BY <1>4, <3>1
  <2>3. QED
    BY <2>1, <2>2
<1>7. Asked(InitialState(messages, r))
  BY <1>2, <1>3, <1>5 DEF Asked
<1>8. QED
  BY <1>2, <1>6, <1>7

\* The history of a new thread lacks nothing.
LEMMA EmptyAccounts == Accounted(<<>>)
BY DEF Accounted, LastId

\* A new message of the user follows what the thread has.
LEMMA ChatKeepsLost ==
  ASSUME IInv, LostInv, NEW r \in Requests, ChatLoad(r) \/ ChatBegin(r)
  PROVE  LostInv'
<1>1. CASE ChatLoad(r)
  <2> DEFINE seen == IF ckpts = <<>> THEN <<>> ELSE Latest.values.messages
  <2>1. seen \in Seq(Message) /\ Accounted(seen)
    <3>1. CASE ckpts = <<>>
      BY <3>1, EmptyAccounts, EmptyIsWhole
    <3>2. CASE ckpts # <<>>
      <4>1. Len(ckpts) \in 1..Len(ckpts) /\ Latest.values.messages \in Seq(Message)
        BY <3>2, LatestType, HistoryType
      <4>2. QED
        BY <3>2, <4>1 DEF Latest, LostInv, CheckpointsAccount
    <3>3. QED
      BY <3>1, <3>2
  <2> HIDE DEF seen
  <2>2. Asked(InitialState(seen, r)) /\ Accounted(InitialState(seen, r).messages)
    BY <2>1, InitialAsks
  <2>3. /\ vals' = [vals EXCEPT ![r] = InitialState(seen, r)]
        /\ pc' = [pc EXCEPT ![r] = "loaded"]
        /\ UNCHANGED <<ckpts, at, base>>
    BY <1>1 DEF ChatLoad, seen
  <2>4. /\ vals'[r] = InitialState(seen, r) /\ pc'[r] = "loaded"
        /\ \A q \in Requests \ {r} : vals'[q] = vals[q] /\ pc'[q] = pc[q]
    BY <2>3 DEF IInv, TypeOK
  <2>5. \A q \in Requests : pc'[q] = "running" => pc[q] = "running" /\ vals'[q] = vals[q]
    BY <2>4
  <2>6. \A q \in Requests : pc'[q] = "loaded" =>
          \/ pc[q] = "loaded" /\ vals'[q] = vals[q]
          \/ Asked(vals'[q]) /\ Accounted(vals'[q].messages)
    BY <2>2, <2>4
  <2>7. QED
    BY <2>3, <2>5, <2>6, QuietKeepsLost
<1>2. CASE ChatBegin(r)
  <2>1. /\ ckpts' = Append(ckpts, [next |-> "supervisor", values |-> vals[r],
                                   sub |-> [at |-> "delegate", values |-> vals[r]],
                                   asked |-> FALSE])
        /\ base' = [base EXCEPT ![r] = Len(ckpts) + 1]
        /\ at' = [at EXCEPT ![r] = "delegate"]
        /\ pc' = [pc EXCEPT ![r] = "running"]
        /\ vals' = vals
        /\ pc[r] = "loaded"
    BY <1>2 DEF ChatBegin
  <2>2. vals' = [vals EXCEPT ![r] = vals[r]]
    BY <2>1 DEF IInv, TypeOK
  <2>3. vals[r] \in Values /\ Asked(vals[r]) /\ Accounted(vals[r].messages)
    BY <2>1, HistoryType DEF LostInv, RunsAccount
  <2>4. "delegate" \in Nodes /\ "delegate" \in GraphNodes
    BY DEF Nodes, GraphNodes, SupervisorNodes
  <2>5. \A q \in Requests \ {r} : pc'[q] = pc[q]
    BY <2>1 DEF IInv, TypeOK
  <2>6. pc'[r] # "loaded"
    BY <2>1 DEF IInv, TypeOK
  <2>7. QED
    BY <2>1, <2>2, <2>3, <2>4, <2>5, <2>6, AppendKeepsLost
<1>3. QED
  BY <1>1, <1>2

\* A resume goes on from what is saved.
LEMMA ResumeKeepsLost ==
  ASSUME IInv, LostInv, NEW r \in Requests, ResumeCheck(r) \/ ResumeBegin(r)
  PROVE  LostInv'
<1>1. CASE ResumeCheck(r)
  <2>1. /\ pc' = [pc EXCEPT ![r] = IF Paused THEN "checked" ELSE "conflict"]
        /\ UNCHANGED <<ckpts, at, base, vals>>
    BY <1>1 DEF ResumeCheck
  <2>2. \A q \in Requests : pc'[q] \notin {"checked", "conflict"} => pc'[q] = pc[q]
    BY <2>1 DEF IInv, TypeOK
  <2>3. QED
    BY <2>1, <2>2, QuietKeepsLost
<1>2. CASE ResumeBegin(r)
  <2> DEFINE from == IF Latest.next = "supervisor" THEN Latest.sub
                     ELSE [at |-> Latest.next, values |-> Latest.values]
             n == Len(ckpts)
  <2>1. /\ pc[r] = "checked"
        /\ base' = [base EXCEPT ![r] = n]
        /\ at' = [at EXCEPT ![r] = from.at]
        /\ vals' = [vals EXCEPT ![r] = from.values]
        /\ pc' = [pc EXCEPT ![r] = IF from.at = "finished" THEN "ended" ELSE "running"]
        /\ UNCHANGED ckpts
    BY <1>2 DEF ResumeBegin
  <2>2. ckpts # <<>>
    BY <2>1 DEF IInv, ResumeInv
  <2>3. n \in 1..n /\ Latest = ckpts[n] /\ Latest \in Checkpoint
    BY <2>2, LatestType, HistoryType DEF Latest
  <2>4. IF Latest.next = "supervisor"
        THEN from.at \in GraphNodes /\ Passed(from.at, from.values, ckpts[n].values)
        ELSE from.at \notin GraphNodes /\ Accounted(from.values.messages)
    <3>1. CASE Latest.next = "supervisor"
      BY <2>3, <3>1 DEF LostInv, CheckpointsAccount, Passed
    <3>2. CASE Latest.next # "supervisor"
      <4>1. Latest.next \in {"error_handler", "finished"}
        BY <2>3, <3>2 DEF Checkpoint
      <4>2. Latest.next \notin GraphNodes
        BY <4>1 DEF GraphNodes, SupervisorNodes
      <4>3. QED
        BY <2>3, <3>2, <4>2 DEF LostInv, CheckpointsAccount
    <3>3. QED
      BY <3>1, <3>2
  <2> HIDE DEF from, n
  <2>5. /\ at'[r] = from.at /\ vals'[r] = from.values /\ base'[r] = n
        /\ pc'[r] \in {"ended", "running"}
        /\ \A q \in Requests \ {r} : /\ at'[q] = at[q] /\ vals'[q] = vals[q]
                                     /\ base'[q] = base[q] /\ pc'[q] = pc[q]
    BY <2>1 DEF IInv, TypeOK
  <2>6. CheckpointsAccount'
    BY <2>1 DEF LostInv, CheckpointsAccount
  <2>7. RunsAccount'
    <3> SUFFICES ASSUME NEW q \in Requests
                 PROVE  /\ pc'[q] = "loaded" => Asked(vals'[q]) /\ Accounted(vals'[q].messages)
                        /\ pc'[q] = "running" =>
                             IF at'[q] \in GraphNodes
                             THEN /\ ckpts[base'[q]].next = "supervisor"
                                  /\ Passed(at'[q], vals'[q], ckpts[base'[q]].values)
                             ELSE Accounted(vals'[q].messages)
      BY <2>1 DEF RunsAccount
    <3>1. CASE q = r
      BY <2>3, <2>4, <2>5, <3>1
    <3>2. CASE q # r
      BY <2>5, <3>2 DEF LostInv, RunsAccount
    <3>3. QED
      BY <3>1, <3>2
  <2>8. QED
    BY <2>6, <2>7 DEF LostInv
<1>3. QED
  BY <1>1, <1>2

\* What an agent says leaves no gap.
LEMMA SaysPasses ==
  ASSUME NEW v \in Values, NEW w \in Values, NEW new \in Seq(MessageKinds),
         NEW before \in GraphNodes \ {"end"}, Passed(before, v, w), NEW node \in GraphNodes
  PROVE  Passed(node, Says(v, new), w)
<1> DEFINE told == Says(v, new)
           messages == v.messages
           turn == v.turn
           longer == Extended(messages, new, turn)
           start == LastId(w.messages)
<1>1. messages \in Seq(Message) /\ turn \in Requests /\ w.messages \in Seq(Message)
  BY DEF Values
<1>2. told.messages = longer /\ told.turn = turn /\ turn = w.turn
  BY SaysType DEF Says, Values, Passed
<1>3. LastId(messages) \in Nat /\ start \in Nat
  BY <1>1, LastIdType
<1>4. \A n \in (start + 1)..LastId(messages) : There(messages, n)
  BY DEF Passed
<1> HIDE DEF told, messages, turn, start
<1>5. /\ \A n : There(messages, n) => There(longer, n)
      /\ \A n \in (LastId(messages) + 1)..LastId(longer) : There(longer, n)
  BY <1>1, ExtendedHas
<1> HIDE DEF longer
<1>6. ASSUME NEW n \in (start + 1)..LastId(longer) PROVE There(longer, n)
  <2>1. CASE n \in (start + 1)..LastId(messages)
    BY <1>4, <1>5, <2>1
  <2>2. CASE n \notin (start + 1)..LastId(messages)
    <3>1. n \in (LastId(messages) + 1)..LastId(longer)
      BY <1>3, <2>2
    <3>2. QED
      BY <1>5, <3>1
  <2>3. QED
    BY <2>1, <2>2
<1>7. Passed(node, told, w)
  BY <1>2, <1>6 DEF Passed, start
<1>8. QED
  BY <1>7 DEF told

\* What a run of the supervisor graph has come to, and its checkpoint.
LEMMA RunPasses ==
  ASSUME IInv, LostInv, NEW r \in Requests, pc[r] = "running", at[r] \in GraphNodes
  PROVE  /\ vals[r] \in Values
         /\ ckpts[base[r]].values \in Values
         /\ Passed(at[r], vals[r], ckpts[base[r]].values)
         /\ Asked(ckpts[base[r]].values)
         /\ Accounted(ckpts[base[r]].values.messages)
<1>1. base[r] \in 1..Len(ckpts)
  BY DEF IInv, BaseInv
<1>2. ckpts[base[r]].next = "supervisor" /\ Passed(at[r], vals[r], ckpts[base[r]].values)
  BY DEF LostInv, RunsAccount
<1>3. QED
  BY <1>1, <1>2, HistoryType DEF LostInv, CheckpointsAccount

\* Delegation and a review remove nothing.
LEMMA RoutesKeepLost ==
  ASSUME IInv, LostInv, NEW r \in Requests, Delegate(r) \/ HumanReview(r)
  PROVE  LostInv'
<1> DEFINE w == ckpts[base[r]].values
<1>1. pc[r] = "running" /\ at[r] \in GraphNodes \ {"end"}
  BY DEF Delegate, HumanReview, Step, GraphNodes, SupervisorNodes
<1>2. vals[r] \in Values /\ w \in Values /\ Passed(at[r], vals[r], w)
  BY <1>1, RunPasses
<1> HIDE DEF w
\* The same messages of the same turn, somewhere else in the graph.
<1>3. ASSUME NEW node \in GraphNodes, NEW v \in Values,
             v.messages = vals[r].messages, v.turn = vals[r].turn
      PROVE  Passed(node, v, w)
  BY <1>1, <1>2, <1>3 DEF Passed
<1>4. CASE Delegate(r)
  <2>1. PICK raw \in RawAgents, asksLocalTime \in LocalTime :
          LET v == [vals[r] EXCEPT
                      !.next_agent = Delegation(raw, asksLocalTime, IncludeWorkspace)]
          IN  GoOn(r, RouteToHumanReview(FALSE, v.next_agent), v)
    BY <1>4 DEF Delegate
  <2> DEFINE agent == Delegation(raw, asksLocalTime, IncludeWorkspace)
             v == [vals[r] EXCEPT !.next_agent = agent]
             node == RouteToHumanReview(FALSE, agent)
  <2>2. agent \in Agents
    BY DelegationType
  <2> HIDE DEF agent
  <2>3. /\ v \in Values /\ v.next_agent = agent
        /\ v.messages = vals[r].messages /\ v.turn = vals[r].turn
    BY <1>2, <2>2 DEF Values
  <2>4. node \in GraphNodes
    BY <2>2 DEF RouteToHumanReview, NormalizeAgent, LegacyNextAgent, Agents, NoAgent,
                GraphNodes, SupervisorNodes
  <2>5. GoOn(r, node, v)
    BY <2>1, <2>3 DEF agent
  <2> HIDE DEF v, node
  <2>6. QED
    BY <1>1, <1>3, <2>3, <2>4, <2>5, GoOnKeepsLost DEF w
<1>5. CASE HumanReview(r)
  <2> DEFINE answer == resume[r]
             v == AfterReview(vals[r], answer)
             node == RouteAfterHumanReview(v.human_feedback, v.next_agent)
  <2>1. answer # NoAction /\ GoOn(r, node, v)
    BY <1>5 DEF HumanReview
  <2>2. answer \in Actions /\ vals[r].next_agent \in Agents \cup {NoAgent}
    BY <1>2, <2>1 DEF IInv, TypeOK, Values
  <2>3. v \in Values /\ v.human_feedback = answer /\ v.next_agent = vals[r].next_agent
    BY <1>2, <2>2, AfterReviewType
  <2>4. node \in GraphNodes
    BY <2>2, <2>3 DEF RouteAfterHumanReview, NormalizeAgent, LegacyNextAgent, Agents,
                      NoAgent, GraphNodes, SupervisorNodes
  <2>5. Passed(node, v, w)
    <3> DEFINE told == [vals[r] EXCEPT !.human_feedback = answer]
    <3>1. /\ told \in Values /\ told.messages = vals[r].messages
          /\ told.turn = vals[r].turn
      BY <1>2, <2>2 DEF Values
    <3>2. at[r] \in GraphNodes \ {"end"} /\ at[r] \in GraphNodes
      BY <1>1
    <3>3. <<"ai">> \in Seq(MessageKinds)
      BY DEF MessageKinds
    <3>4. v = told \/ v = Says(told, <<"ai">>)
      BY DEF AfterReview
    <3> HIDE DEF told, v, node
    <3>5. Passed(at[r], told, w) /\ Passed(node, told, w)
      BY <1>3, <2>4, <3>1, <3>2
    <3>6. Passed(node, Says(told, <<"ai">>), w)
      BY <1>2, <2>4, <3>1, <3>2, <3>3, <3>5, SaysPasses
    <3>7. QED
      BY <3>4, <3>5, <3>6
  <2> HIDE DEF v, node
  <2>6. QED
    BY <1>1, <2>1, <2>3, <2>4, <2>5, GoOnKeepsLost DEF w
<1>6. QED
  BY <1>4, <1>5

\* An agent only adds.
LEMMA AgentsKeepLost ==
  ASSUME IInv, LostInv, NEW r \in Requests, Researcher(r) \/ WorkspaceReply(r) \/ Chat(r)
  PROVE  LostInv'
<1>1. PICK new : /\ new \in AgentOutputs \/ new = <<"ai">>
                 /\ GoOn(r, RoutePostReply(Says(vals[r], new)), Says(vals[r], new))
  BY DEF Researcher, WorkspaceReply, Chat
<1> DEFINE v == Says(vals[r], new)
           node == RoutePostReply(v)
           w == ckpts[base[r]].values
<1>2. pc[r] = "running" /\ at[r] \in GraphNodes \ {"end"}
  BY DEF Researcher, WorkspaceReply, Chat, Step, GraphNodes, SupervisorNodes
<1>3. new \in Seq(MessageKinds)
  <2>1. <<"ai">> \in Seq(MessageKinds)
    BY DEF MessageKinds
  <2>2. QED
    BY <1>1, <2>1, OutputsType
<1>4. vals[r] \in Values /\ w \in Values /\ Passed(at[r], vals[r], w)
  BY <1>2, RunPasses
<1>5. v \in Values
  BY <1>3, <1>4, SaysType
<1>6. node \in GraphNodes
  BY PostReplyRoutes DEF GraphNodes, SupervisorNodes
<1>7. GoOn(r, node, v)
  BY <1>1
<1> HIDE DEF node, w
<1>8. Passed(node, v, w)
  BY <1>2, <1>3, <1>4, <1>6, SaysPasses
<1> HIDE DEF v
<1>9. QED
  BY <1>2, <1>5, <1>6, <1>7, <1>8, GoOnKeepsLost DEF w

\* The compaction is the last step of a pass, and removes nothing that was there
\* when it began but what its summary accounts for.
LEMMA MemoryManagerKeepsLost ==
  ASSUME IInv, MsgInv, LostInv, NEW r \in Requests, MemoryManager(r)
  PROVE  LostInv'
<1>0. PICK room \in Rooms :
        GoOn(r, "end", [vals[r] EXCEPT !.messages = Compacted(@, vals[r].turn, room)])
  BY DEF MemoryManager
<1> DEFINE messages == vals[r].messages
           turn == vals[r].turn
           short == Compacted(messages, turn, room)
           v == [vals[r] EXCEPT !.messages = Compacted(@, vals[r].turn, room)]
           w == ckpts[base[r]].values
           start == LastId(w.messages)
<1>1. GoOn(r, "end", v) /\ pc[r] = "running" /\ at[r] = "memory_manager"
      /\ at[r] \in GraphNodes /\ at[r] # "end" /\ room \in Nat
  BY <1>0, SettingsAssumption DEF MemoryManager, Step, GraphNodes, SupervisorNodes
<1>2. vals[r] \in Values /\ w \in Values /\ Passed(at[r], vals[r], w)
  BY <1>1, RunPasses
<1>3. messages \in Seq(Message) /\ turn \in Requests /\ WellFormed(messages)
  BY <1>2 DEF Values, MsgInv, HistoriesAreWhole
<1>4. v \in Values /\ v.messages = short /\ v.turn = turn
  BY <1>1, <1>2, <1>3, CompactedType DEF Values
<1>5. start \in Nat
  BY <1>2, LastIdType DEF Values
<1>6. turn = w.turn /\ \A n \in (start + 1)..LastId(messages) : There(messages, n)
  BY <1>1, <1>2 DEF Passed
<1> HIDE DEF messages, turn, v, start
<1>7. \A n \in (start + 1)..LastId(short) : There(short, n) \/ Removed(short, turn, n)
  BY <1>1, <1>3, <1>5, <1>6, CompactedRemoves
<1> HIDE DEF short
<1>8. "end" \in GraphNodes
  BY DEF GraphNodes
<1>9. Passed("end", v, w)
  BY <1>4, <1>6, <1>7, <1>8 DEF Passed, start
<1>10. QED
  BY <1>1, <1>4, <1>8, <1>9, GoOnKeepsLost

\* The merge accounts for what the pass removed; the error handler changes nothing.
LEMMA MasterKeepsLost ==
  ASSUME IInv, MsgInv, LostInv, NEW r \in Requests, SupervisorEnd(r) \/ ErrorHandler(r)
  PROVE  LostInv'
<1>1. pc[r] = "running" /\ vals[r] \in Values
  BY HistoryType DEF SupervisorEnd, ErrorHandler, Step
<1>2. "error_handler" \in Nodes /\ "finished" \in Nodes
      /\ "error_handler" \notin GraphNodes /\ "finished" \notin GraphNodes
  BY DEF Nodes, GraphNodes, SupervisorNodes
<1>3. CASE SupervisorEnd(r)
  <2> DEFINE w == ckpts[base[r]].values
             left == w.messages
             right == vals[r].messages
             turn == vals[r].turn
             v == [vals[r] EXCEPT !.messages = AddMessages(left, @)]
  <2>1. Commit(r, "error_handler", v) /\ UNCHANGED pc /\ at[r] = "end"
    BY <1>3 DEF SupervisorEnd, Step
  <2>2. w \in Values /\ Passed(at[r], vals[r], w) /\ Asked(w) /\ Accounted(left)
    <3>1. at[r] \in GraphNodes
      BY <2>1 DEF GraphNodes
    <3>2. QED
      BY <1>1, <3>1, RunPasses
  <2>3. /\ left \in Seq(Message) /\ right \in Seq(Message) /\ turn \in Requests
        /\ WellFormed(right)
    BY <1>1, <2>2 DEF Values, MsgInv, HistoriesAreWhole
  <2>4. v \in Values /\ v.messages = AddMessages(left, right)
    BY <1>1, <2>3, AddMessagesType DEF Values
  <2>5. /\ turn = w.turn
        /\ \A n \in (LastId(left) + 1)..LastId(right) :
             There(right, n) \/ Removed(right, turn, n)
    BY <2>2 DEF Passed
  <2>6. Len(left) > 0 /\ left[Len(left)].kind = "human" /\ left[Len(left)].turn = turn
    BY <2>2, <2>5 DEF Asked
  <2> HIDE DEF left, right, turn, v
  <2>7. Accounted(v.messages)
    BY <2>2, <2>3, <2>4, <2>5, <2>6, MergedAccounts
  <2>8. pc'[r] # "loaded"
    BY <1>1, <2>1
  <2>9. QED
    BY <1>2, <2>1, <2>4, <2>7, <2>8, AppendKeepsLost DEF Commit
<1>4. CASE ErrorHandler(r)
  <2>1. /\ Commit(r, "finished", vals[r])
        /\ pc' = [pc EXCEPT ![r] = "ended"]
        /\ at[r] = "error_handler"
    BY <1>4 DEF ErrorHandler, Step
  <2>2. pc'[r] # "loaded" /\ \A q \in Requests \ {r} : pc'[q] = pc[q]
    BY <2>1 DEF IInv, TypeOK
  <2>3. Accounted(vals[r].messages)
    BY <1>1, <1>2, <2>1 DEF LostInv, RunsAccount
  <2>4. QED
    BY <1>1, <1>2, <2>1, <2>2, <2>3, AppendKeepsLost DEF Commit
<1>5. QED
  BY <1>3, <1>4

\* Steps that write no history.
LEMMA OthersKeepLost ==
  ASSUME IInv, LostInv,
         (\E r \in Requests : \/ AskHuman(r) \/ WorkspaceTools(r) \/ Respond(r)
                              \/ Fail(r) \/ Disconnect(r)) \/ Crash
  PROVE  LostInv'
<1>1. CASE \E r \in Requests : AskHuman(r)
  <2>1. PICK r \in Requests : AskHuman(r)
    BY <1>1
  <2>2. /\ Len(ckpts') = Len(ckpts)
        /\ \A c \in 1..Len(ckpts) : /\ ckpts'[c].next = ckpts[c].next
                                    /\ ckpts'[c].values = ckpts[c].values
                                    /\ ckpts'[c].sub = ckpts[c].sub
    BY <2>1, MarkStep
  <2>3. /\ pc' = [pc EXCEPT ![r] = "ended"]
        /\ UNCHANGED <<at, base, vals>>
    BY <2>1 DEF AskHuman, requestVars
  <2>4. \A q \in Requests : pc'[q] \in {"running", "loaded"} => pc'[q] = pc[q]
    BY <2>3 DEF IInv, TypeOK
  <2>5. QED
    BY <2>2, <2>3, <2>4, QuietKeepsLost
<1>2. ASSUME UNCHANGED <<ckpts, at, base, vals>>,
             \A q \in Requests : pc'[q] \in {"running", "loaded"} => pc'[q] = pc[q]
      PROVE  LostInv'
  BY <1>2, QuietKeepsLost
<1>3. CASE \E r \in Requests : WorkspaceTools(r)
  BY <1>2, <1>3 DEF WorkspaceTools, requestVars
<1>4. CASE \E r \in Requests : Respond(r) \/ Fail(r) \/ Disconnect(r)
  BY <1>2, <1>4 DEF Respond, Fail, Disconnect, requestVars, IInv, TypeOK
<1>5. CASE Crash
  BY <1>2, <1>5 DEF Crash, requestVars
<1>6. QED
  BY <1>1, <1>3, <1>4, <1>5

\* Every step keeps the invariant.
LEMMA NextLost == IInv /\ MsgInv /\ LostInv /\ [Next]_vars => LostInv'
<1> SUFFICES ASSUME IInv, MsgInv, LostInv, [Next]_vars PROVE LostInv'
  OBVIOUS
<1>1. CASE UNCHANGED vars
  BY <1>1, QuietKeepsLost DEF vars
<1>2. ASSUME NEW r \in Requests,
             ChatLoad(r) \/ ResumeCheck(r) \/ RunStep(r) \/ WorkspaceTools(r)
      PROVE  LostInv'
  <2>1. CASE ChatLoad(r) \/ ChatBegin(r)
    BY <2>1, ChatKeepsLost
  <2>2. CASE ResumeCheck(r) \/ ResumeBegin(r)
    BY <2>2, ResumeKeepsLost
  <2>3. CASE Delegate(r) \/ HumanReview(r)
    BY <2>3, RoutesKeepLost
  <2>4. CASE Researcher(r) \/ WorkspaceReply(r) \/ Chat(r)
    BY <2>4, AgentsKeepLost
  <2>5. CASE MemoryManager(r)
    BY <2>5, MemoryManagerKeepsLost
  <2>6. CASE SupervisorEnd(r) \/ ErrorHandler(r)
    BY <2>6, MasterKeepsLost
  <2>7. CASE AskHuman(r) \/ WorkspaceTools(r) \/ Respond(r)
    BY <2>7, OthersKeepLost
  <2>8. QED
    BY <1>2, <2>1, <2>2, <2>3, <2>4, <2>5, <2>6, <2>7 DEF RunStep
<1>3. CASE (\E r \in Requests : Fail(r) \/ Disconnect(r)) \/ Crash
  BY <1>3, OthersKeepLost
<1>4. QED
  BY <1>1, <1>2, <1>3 DEF Next

\* The invariant holds of every reachable state.
LEMMA LostInvariance == Spec => []LostInv
<1>1. QED
  BY InitLost, NextLost, Invariance, MsgInvariance, PTL DEF Spec

-----------------------------------------------------------------------------
(* What follows for every thread. *)

\* What a thread has lost are intermediate steps of single turns, removed by their
\* own compaction; only what summary_max_chars cut off is in no summary either.  No
\* question, no kept message and nothing an earlier turn had left is ever lost,
\* for every policy and every room for the payload, however requests interleave,
\* fail or are resumed (memory_manager_node.py, add_messages).
THEOREM OnlyOwnStepsLost == Spec => []OnlyOwnStepsAreLost
<1>1. ASSUME IInv, LostInv PROVE OnlyOwnStepsAreLost
  <2>1. ckpts \in Seq(Checkpoint)
    BY <1>1, HistoryType
  <2>2. DOMAIN ckpts = 1..Len(ckpts)
    BY <2>1, LenProperties
  <2> SUFFICES ASSUME NEW c \in 1..Len(ckpts), NEW messages,
                      messages = ckpts[c].values.messages, NEW n \in 1..LastId(messages)
               PROVE  \/ \E i \in DOMAIN messages : messages[i].id = n
                      \/ RemovedByItsPass(messages, n)
    BY <2>2 DEF OnlyOwnStepsAreLost
  <2>3. messages \in Seq(Message)
    BY <1>1, HistoryType
  <2>4. DOMAIN messages = 1..Len(messages)
    BY <2>3, LenProperties
  <2>5. There(messages, n) \/ Lost(messages, n)
    BY <1>1 DEF LostInv, CheckpointsAccount, Accounted
  <2>6. CASE There(messages, n)
    BY <2>4, <2>6 DEF There
  <2>7. CASE Lost(messages, n)
    <3>1. PICK q \in 1..Len(messages) : /\ messages[q].kind = "human"
                                        /\ messages[q].id < n
                                        /\ Removed(messages, messages[q].turn, n)
      BY <2>7 DEF Lost
    <3>2. PICK s \in 1..Len(messages) :
            /\ messages[s].kind = "summary" /\ messages[s].turn = messages[q].turn
            /\ n + Keep < messages[s].id
            /\ n \in messages[s].of \/ \A m \in messages[s].of : m < n
      BY <3>1 DEF Removed
    <3>3. QED
      BY <2>4, <3>1, <3>2 DEF RemovedByItsPass
  <2>8. QED
    BY <2>5, <2>6, <2>7
<1>2. QED
  BY <1>1, Invariance, LostInvariance, PTL

\* What a run that went through an agent or a review answers with is an AI message
\* of its own turn: also when the history was compacted on the way, when another
\* run has replaced the latest checkpoint, and when the run was resumed, as long as
\* a round of tools leaves fewer results than Keep (AgentRunResult.last_ai_reply,
\* memory_manager_node.py).
THEOREM ReplyOfTheTurn == Spec => []ReplyIsOfTheTurn
<1>1. ASSUME IInv, MsgInv PROVE ReplyIsOfTheTurn
  <2> SUFFICES ASSUME RoundsFit, NEW r \in Requests, pc[r] \in {"ended", "done"},
                      at[r] = "finished", vals[r].next_agent # "end"
               PROVE  LET reply == LastReply(vals[r].messages)
                      IN  reply.turn = vals[r].turn /\ reply.kind \in {"ai", "call"}
    BY DEF ReplyIsOfTheTurn, RoundsFit
  <2> DEFINE messages == vals[r].messages
             replies == {i \in DOMAIN messages : messages[i].kind \in {"ai", "call"}}
  <2>1. messages \in Seq(Message)
    BY <1>1, HistoryType
  <2>2. Len(messages) \in Nat /\ DOMAIN messages = 1..Len(messages)
    BY <2>1, LenProperties
  <2>3. PICK i \in 1..Len(messages) : ReplyAt(vals[r], i)
    BY <1>1 DEF MsgInv, AnswersReply, Replied
  <2>4. i \in replies
    BY <2>2, <2>3 DEF ReplyAt, ReplyKinds
  <2>5. \A j \in replies : j <= i
    <3> SUFFICES ASSUME NEW j \in 1..Len(messages), j > i
                 PROVE  messages[j].kind \notin ReplyKinds
      BY <2>2, <2>3 DEF ReplyKinds
    <3>1. j \in (i + 1)..Len(messages)
      BY <2>2
    <3>2. QED
      BY <2>3, <3>1 DEF ReplyAt
  <2>6. replies \subseteq Nat
    BY <2>2
  <2> HIDE DEF replies
  <2>7. Max(replies) = i
    <3>1. i \in replies /\ \A j \in replies : i >= j
      BY <2>4, <2>5, <2>6
    <3>2. \A x \in replies : (\A j \in replies : x >= j) => x = i
      BY <2>4, <2>5, <2>6
    <3>3. Max(replies) \in replies /\ \A j \in replies : Max(replies) >= j
      BY <3>1 DEF Max
    <3>4. QED
      BY <3>2, <3>3
  <2>8. LastReply(messages) = messages[i]
    BY <2>4, <2>7 DEF LastReply, replies
  <2>9. messages[i].turn = vals[r].turn /\ messages[i].kind \in {"ai", "call"}
    BY <2>3 DEF ReplyAt, ReplyKinds
  <2>10. QED
    BY <2>8, <2>9
<1>2. QED
  BY <1>1, Invariance, MsgInvariance, PTL

=============================================================================
