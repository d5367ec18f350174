-------------------------- MODULE MessageStreamProofs --------------------------
(***************************************************************************)
(* Theorems of MessageStream for any messages, any size of batch and any   *)
(* bounds on the clock and the faults.                                     *)
(***************************************************************************)
EXTENDS MessageStream, TLAPS, FiniteSetTheorems, SequenceTheorems

--------------------------------------------------------------------------------
(* The inductive invariant. *)

\* Messages of a conversation that come before one, and those that may.
Earlier(messages, m) == {n \in messages : stamp[n] < stamp[m]}
NotLater(messages, m) == {n \in messages \ {m} : stamp[n] <= stamp[m]}

\* Only finitely many messages have been saved.
TypeInv == TypeOK /\ IsFiniteSet(saved)

\* The place a message claims is one it can have in the conversation it was read from.
PlaceFits(item) ==
  /\ item.m \in item.of /\ item.of \subseteq saved
  /\ Cardinality(Earlier(item.of, item.m)) <= item.index
  /\ item.index <= Cardinality(NotLater(item.of, item.m))

PlacesInv ==
  /\ \A i \in DOMAIN got : PlaceFits(got[i])
  /\ \A k \in DOMAIN batch : PlaceFits(batch[k])

\* What was received is from before the request, or from the part of its batch that
\* has left; the batch has the places that follow, up to those of the next request.
OrderInv ==
  /\ LastEndsPass
  /\ \A i \in DOMAIN got :
       IF step = "emit" THEN got[i].index < index + BatchSize ELSE got[i].index < index
  /\ \A i \in DOMAIN got :
       got[i].isLast => \/ step = "done"
                        \/ step = "emit" /\ batch = <<>> /\ total <= index + BatchSize
  /\ batch # <<>> => step = "emit"
  /\ \A k \in DOMAIN batch :
       /\ \A i \in DOMAIN got : got[i].index < batch[k].index
       /\ batch[k].index < index + BatchSize
       /\ batch[k].isLast => k = Len(batch) /\ total <= index + BatchSize
       /\ \A l \in DOMAIN batch : l < k => batch[l].index < batch[k].index

\* No other message has the timestamp.
Lone(m) == \A n \in saved : ~SameTime(n, m)

\* A message was received, is about to be, or is beyond what has been asked for.
Reached(m) ==
  \/ \E i \in DOMAIN got : got[i].m = m
  \/ \E k \in DOMAIN batch : batch[k].m = m
  \/ step \in {"client", "read"} /\ index <= Cardinality(Earlier(Conversation, m))
  \/ /\ step = "emit" /\ index + BatchSize < total
     /\ index + BatchSize <= Cardinality(Earlier(Conversation, m))

SkipInv == \A m \in first \ purged : Lone(m) => Reached(m)

StreamInv == TypeInv /\ PlacesInv /\ OrderInv /\ SkipInv

--------------------------------------------------------------------------------
(* A conversation in the order of its timestamps. *)

LEMMA ReadingIsWhole ==
  ASSUME NEW C, IsFiniteSet(C), NEW s \in SetToSeqs(C)
  PROVE  /\ s \in Seq(C) /\ Len(s) = Cardinality(C) /\ Cardinality(C) \in Nat
         /\ DOMAIN s = 1..Cardinality(C)
         /\ \A i, j \in DOMAIN s : s[i] = s[j] => i = j
         /\ \A m \in C : \E i \in DOMAIN s : s[i] = m
<1> DEFINE N == Cardinality(C)
<1>1. N \in Nat
  BY FS_CardinalityType
<1>2. s \in [1..N -> C] /\ \A i, j \in 1..N : i # j => s[i] # s[j]
  BY DEF SetToSeqs
<1> HIDE DEF N
<1>3. s \in Seq(C) /\ Len(s) = N /\ DOMAIN s = 1..N
  BY <1>1, <1>2
<1>4. s \in Injection(1..N, C)
  BY <1>2 DEF Injection, IsInjective
<1>5. Cardinality(1..N) = Cardinality(C)
  BY <1>1, FS_Interval DEF N
<1>6. s \in Surjection(1..N, C)
  BY <1>4, <1>5, FS_Injection
<1>7. QED
  BY <1>1, <1>2, <1>3, <1>6 DEF N, Surjection

\* All that is earlier is before a message, and all that is before it is not later.
LEMMA PlaceInSorted ==
  ASSUME NEW C, IsFiniteSet(C), \A m \in C : stamp[m] \in Nat,
         NEW s \in Sorted(C), NEW p \in DOMAIN s
  PROVE  /\ Cardinality(Earlier(C, s[p])) \in Nat /\ Cardinality(NotLater(C, s[p])) \in Nat
         /\ Cardinality(Earlier(C, s[p])) <= p - 1
         /\ p - 1 <= Cardinality(NotLater(C, s[p]))
<1>1. /\ s \in SetToSeqs(C)
      /\ \A i, j \in DOMAIN s : i < j => stamp[s[i]] <= stamp[s[j]]
  BY DEF Sorted
<1>2. /\ DOMAIN s = 1..Cardinality(C) /\ Cardinality(C) \in Nat /\ s \in Seq(C)
      /\ Len(s) = Cardinality(C)
      /\ \A i, j \in DOMAIN s : s[i] = s[j] => i = j
      /\ \A m \in C : \E i \in DOMAIN s : s[i] = m
  BY <1>1, ReadingIsWhole
<1>3. \A i \in DOMAIN s : s[i] \in C
  BY <1>2, ElementOfSeq
<1>4. /\ IsFiniteSet(Earlier(C, s[p])) /\ IsFiniteSet(NotLater(C, s[p]))
  <2>1. Earlier(C, s[p]) \subseteq C /\ NotLater(C, s[p]) \subseteq C
    BY DEF Earlier, NotLater
  <2>2. QED
    BY <2>1, FS_Subset
<1>5. p \in Nat \ {0} /\ IsFiniteSet(1..(p - 1)) /\ Cardinality(1..(p - 1)) = p - 1
  <2>1. p \in Nat \ {0}
    BY <1>2
  <2>2. p - 1 \in Int /\ p - 1 >= 0
    BY <2>1
  <2>3. QED
    BY <2>1, <2>2, FS_Interval
<1>6. Cardinality(Earlier(C, s[p])) <= p - 1
  <2> DEFINE before == [n \in Earlier(C, s[p]) |-> CHOOSE i \in DOMAIN s : s[i] = n]
  <2>1. ASSUME NEW n \in Earlier(C, s[p])
        PROVE  before[n] \in 1..(p - 1) /\ s[before[n]] = n
    <3>1. n \in C /\ stamp[n] < stamp[s[p]]
      BY DEF Earlier
    <3>2. before[n] \in DOMAIN s /\ s[before[n]] = n
      BY <1>2, <3>1
    <3> HIDE DEF before
    <3>3. before[n] < p
      <4>1. before[n] # p
        BY <1>3, <3>1, <3>2
      <4>2. ~(p < before[n])
        <5>1. SUFFICES ASSUME p < before[n] PROVE FALSE
          OBVIOUS
        <5>2. stamp[s[p]] <= stamp[n]
          BY <1>1, <3>2, <5>1
        <5>3. stamp[s[p]] \in Nat /\ stamp[n] \in Nat
          BY <1>3, <3>1
        <5>4. QED
          BY <3>1, <5>2, <5>3
      <4>3. before[n] \in Nat
        BY <1>2, <3>2
      <4>4. QED
        BY <1>5, <4>1, <4>2, <4>3
    <3>4. QED
      BY <1>2, <1>5, <3>2, <3>3
  <2>2. before \in Injection(Earlier(C, s[p]), 1..(p - 1))
    BY <2>1 DEF Injection, IsInjective
  <2>3. QED
    BY <1>5, <2>2, FS_Injection
<1>7. p - 1 <= Cardinality(NotLater(C, s[p]))
  <2> DEFINE before == [i \in 1..(p - 1) |-> s[i]]
  <2>1. ASSUME NEW i \in 1..(p - 1)
        PROVE  i \in DOMAIN s /\ s[i] \in NotLater(C, s[p])
    <3>1. i \in DOMAIN s /\ i < p /\ i # p
      BY <1>2, <1>5
    <3>2. stamp[s[i]] <= stamp[s[p]] /\ s[i] # s[p]
      BY <1>1, <1>2, <3>1
    <3>3. QED
      BY <1>3, <3>1, <3>2 DEF NotLater
  <2>2. before \in Injection(1..(p - 1), NotLater(C, s[p]))
    BY <1>2, <2>1 DEF Injection, IsInjective
  <2>3. QED
    BY <1>4, <1>5, <2>2, FS_Injection
<1>8. QED
  BY <1>4, <1>6, <1>7, FS_CardinalityType

--------------------------------------------------------------------------------
(* What a request reads. *)

LEMMA MinOfTwo ==
  ASSUME NEW a \in Nat, NEW b \in Nat
  PROVE  Min({a, b}) = IF a <= b THEN a ELSE b
<1>1. \E x \in {a, b} : \A y \in {a, b} : x <= y
  OBVIOUS
<1>2. Min({a, b}) \in {a, b} /\ \A y \in {a, b} : Min({a, b}) <= y
  BY <1>1 DEF Min
<1>3. QED
  BY <1>2

LEMMA StampsAreNat == TypeInv => \A m \in saved : stamp[m] \in Nat
BY BoundsAreNat DEF TypeInv, TypeOK, Times, NoStamp

LEMMA ConversationIsFinite ==
  ASSUME TypeInv
  PROVE  /\ Conversation \subseteq saved /\ Conversation \subseteq Messages
         /\ IsFiniteSet(Conversation)
BY FS_Subset DEF TypeInv, TypeOK, Conversation

\* The batch is the part of a sorted conversation that begins at the index.
LEMMA BatchRead ==
  ASSUME TypeInv, ReadConversation
  PROVE  \E s \in Sorted(Conversation) :
           /\ batch' \in Seq(Items) /\ Len(batch') <= BatchSize
           /\ DOMAIN s = 1..total' /\ total' \in Nat
           /\ \A m \in Conversation : \E i \in 1..total' : s[i] = m
           /\ \A i \in 1..total' : s[i] \in Conversation
           /\ Len(batch') \in Nat /\ DOMAIN batch' = 1..Len(batch')
           /\ Len(batch') = IF index + BatchSize <= total' THEN BatchSize
                            ELSE IF index < total' THEN total' - index ELSE 0
           /\ \A k \in DOMAIN batch' :
                /\ index + k \in 1..total' /\ batch'[k].m = s[index + k]
                /\ batch'[k].index = index + k - 1 /\ batch'[k].of = Conversation
                /\ batch'[k].isLast => index + k = total'
<1> DEFINE Item(s, i) == [m |-> s[i], index |-> i - 1, isLast |-> i = Len(s),
                          of |-> Conversation]
           items(s) == [i \in DOMAIN s |-> Item(s, i)]
<1>1. PICK s \in Sorted(Conversation) :
        batch' = SubSeq(items(s), index + 1, Min({index + BatchSize, Len(items(s))}))
  BY DEF ReadConversation
<1>2. total' = Cardinality(Conversation)
  BY DEF ReadConversation
<1>3. s \in SetToSeqs(Conversation)
  BY DEF Sorted
<1>4. /\ total' \in Nat /\ DOMAIN s = 1..total' /\ Len(s) = total' /\ s \in Seq(Conversation)
      /\ \A m \in Conversation : \E i \in 1..total' : s[i] = m
  BY <1>2, <1>3, ReadingIsWhole, ConversationIsFinite
<1>5. \A i \in 1..total' : s[i] \in Conversation
  BY <1>4, ElementOfSeq
<1>6. ASSUME NEW i \in 1..total' PROVE Item(s, i) \in Items
  <2>1. s[i] \in Messages /\ i - 1 \in Nat /\ Conversation \in SUBSET Messages
    BY <1>4, <1>5, ConversationIsFinite
  <2>2. QED
    BY <2>1 DEF Items
<1>7. items(s) = [i \in 1..total' |-> Item(s, i)]
  BY <1>4
<1> HIDE DEF Item
<1>8. items(s) \in [1..total' -> Items] /\ \A i \in 1..total' : items(s)[i] = Item(s, i)
  BY <1>6, <1>7
<1> HIDE DEF items
<1>9. Len(items(s)) = total'
  BY <1>4, <1>8
<1>10. index \in Nat /\ BatchSize \in Nat \ {0}
  BY BatchIsPositive DEF TypeInv, TypeOK
<1> DEFINE hi == IF index + BatchSize <= total' THEN index + BatchSize ELSE total'
<1>11. batch' = SubSeq(items(s), index + 1, hi)
  <2>1. index + BatchSize \in Nat
    BY <1>10
  <2>2. QED
    BY <1>1, <1>4, <1>9, <2>1, MinOfTwo
<1>12. hi \in Nat /\ hi <= total' /\ hi <= index + BatchSize
  BY <1>4, <1>10
<1>13. hi - (index + 1) + 1 = hi - index /\ index + 1 \in Int /\ hi \in Int
  BY <1>10, <1>12
<1>14. \A i \in (index + 1)..hi : items(s)[i] \in Items
  BY <1>4, <1>8, <1>10, <1>12
<1>15. /\ batch' \in Seq(Items)
       /\ Len(batch') = IF index + 1 <= hi THEN hi - index ELSE 0
       /\ \A k \in 1..(hi - index) : batch'[k] = items(s)[index + 1 + k - 1]
  <2> HIDE DEF hi
  <2> QED
    BY <1>11, <1>13, <1>14, SubSeqProperties
<1>16. DOMAIN batch' = 1..Len(batch') /\ Len(batch') \in Nat
  BY <1>15, LenProperties
<1>17. /\ Len(batch') <= BatchSize
       /\ Len(batch') = IF index + BatchSize <= total' THEN BatchSize
                        ELSE IF index < total' THEN total' - index ELSE 0
       /\ \A k \in 1..Len(batch') :
            /\ k \in 1..(hi - index) /\ index + k \in 1..total'
            /\ index + 1 + k - 1 = index + k
  <2>1. Len(batch') = IF index + 1 <= hi THEN hi - index ELSE 0
    BY <1>15
  <2> DEFINE n == Len(batch')
             t == total'
  <2> HIDE DEF n, t
  <2>2. n = IF index + 1 <= hi THEN hi - index ELSE 0
    BY <2>1 DEF n
  <2>3. hi = IF index + BatchSize <= t THEN index + BatchSize ELSE t
    BY DEF t
  <2>4. t \in Nat
    BY <1>4 DEF t
  <2> HIDE DEF hi
  <2>5. /\ n <= BatchSize
        /\ n = IF index + BatchSize <= t THEN BatchSize
               ELSE IF index < t THEN t - index ELSE 0
        /\ \A k \in 1..n :
             k \in 1..(hi - index) /\ index + k \in 1..t /\ index + 1 + k - 1 = index + k
    BY <1>10, <2>2, <2>3, <2>4
  <2>6. QED
    BY <2>5 DEF n, t
<1>18. ASSUME NEW k \in DOMAIN batch'
       PROVE  /\ index + k \in 1..total' /\ batch'[k].m = s[index + k]
              /\ batch'[k].index = index + k - 1 /\ batch'[k].of = Conversation
              /\ batch'[k].isLast => index + k = total'
  <2>1. k \in 1..(hi - index) /\ index + k \in 1..total' /\ index + 1 + k - 1 = index + k
    BY <1>16, <1>17
  <2>2. batch'[k] = items(s)[index + k]
    BY <1>15, <2>1
  <2>3. items(s)[index + k] = Item(s, index + k)
    BY <1>8, <2>1
  <2>4. Len(s) = total'
    BY <1>4
  <2>5. batch'[k] = Item(s, index + k)
    BY <2>2, <2>3
  <2>6. /\ Item(s, index + k).m = s[index + k] /\ Item(s, index + k).index = (index + k) - 1
        /\ Item(s, index + k).of = Conversation
    BY DEF Item
  <2>7. Item(s, index + k).isLast => index + k = Len(s)
    BY Zenon DEF Item
  <2>8. (index + k) - 1 = index + k - 1
    BY <1>10, <2>1
  <2>9. QED
    BY <2>1, <2>4, <2>5, <2>6, <2>7, <2>8
<1>19. QED
  BY <1>4, <1>5, <1>15, <1>16, <1>17, <1>18

--------------------------------------------------------------------------------
(* Every step keeps the types. *)

LEMMA TypeInvInit == Init => TypeInv
<1> SUFFICES ASSUME Init PROVE TypeInv
  OBVIOUS
<1>1. <<>> \in Seq(Items) /\ Len(<<>>) = 0
  BY EmptySeq
<1>2. QED
  BY <1>1, FS_EmptySet, BoundsAreNat, BatchIsPositive DEF Init, TypeInv, TypeOK, Times, NoStamp

LEMMA EmitMovesHead ==
  ASSUME TypeInv, Emit
  PROVE  /\ got' \in Seq(Items) /\ batch' \in Seq(Items)
         /\ Len(batch) \in Nat \ {0} /\ Len(batch') = Len(batch) - 1 /\ Len(got) \in Nat
         /\ DOMAIN batch = 1..Len(batch) /\ DOMAIN batch' = 1..(Len(batch) - 1)
         /\ DOMAIN got = 1..Len(got) /\ DOMAIN got' = 1..(Len(got) + 1)
         /\ \A k \in DOMAIN batch' : batch'[k] = batch[k + 1]
         /\ \A i \in DOMAIN got : got'[i] = got[i]
         /\ got'[Len(got) + 1] = batch[1]
<1>1. batch \in Seq(Items) /\ got \in Seq(Items) /\ batch # <<>>
  BY DEF TypeInv, TypeOK, Emit
<1>2. /\ Len(batch) \in Nat \ {0} /\ DOMAIN batch = 1..Len(batch)
      /\ Len(got) \in Nat /\ DOMAIN got = 1..Len(got)
  BY <1>1, EmptySeq, LenProperties
<1>3. /\ batch' \in Seq(Items) /\ Len(batch') = Len(batch) - 1
      /\ \A k \in 1..Len(batch') : batch'[k] = batch[k + 1]
  BY <1>1, HeadTailProperties DEF Emit
<1>4. Head(batch) = batch[1] /\ Head(batch) \in Items
  BY <1>1, HeadTailProperties
<1>5. /\ got' \in Seq(Items) /\ Len(got') = Len(got) + 1
      /\ \A i \in 1..Len(got) : got'[i] = got[i]
      /\ got'[Len(got) + 1] = Head(batch)
  BY <1>1, <1>4, AppendProperties DEF Emit
<1>6. DOMAIN batch' = 1..Len(batch') /\ DOMAIN got' = 1..Len(got')
  BY <1>3, <1>5, LenProperties
<1>7. QED
  BY <1>2, <1>3, <1>4, <1>5, <1>6

LEMMA TypeInvStep == TypeInv /\ [Next]_vars => TypeInv'
<1> SUFFICES ASSUME TypeInv, [Next]_vars PROVE TypeInv'
  OBVIOUS
<1> USE DEF TypeInv, TypeOK, Times, NoStamp
<1>1. CASE Tick
  BY <1>1, BoundsAreNat DEF Tick, pass
<1>2. ASSUME NEW m \in Messages, StampMessage(m) PROVE TypeInv'
  BY <1>2, BoundsAreNat DEF StampMessage, pass
<1>3. ASSUME NEW m \in Messages, SaveMessage(m) PROVE TypeInv'
  BY <1>3, FS_AddElement DEF SaveMessage, pass
<1>4. CASE CleanupSessionMessages
  BY <1>4 DEF CleanupSessionMessages, pass
<1>5. CASE Ask
  BY <1>5 DEF Ask, store
<1>6. CASE ReadConversation
  <2>1. batch' \in Seq(Items) /\ Len(batch') <= BatchSize /\ total' \in Nat
    BY <1>6, BatchRead
  <2>2. QED
    BY <1>6, <2>1 DEF ReadConversation, store, Conversation
<1>7. CASE Emit
  <2>1. /\ got' \in Seq(Items) /\ batch' \in Seq(Items) /\ Len(batch) \in Nat
        /\ Len(batch') = Len(batch) - 1
    BY <1>7, EmitMovesHead
  <2>2. Len(batch') <= BatchSize
    BY <2>1, BatchIsPositive
  <2>3. QED
    BY <1>7, <2>1, <2>2 DEF Emit, store
<1>8. CASE Complete
  BY <1>8, BatchIsPositive DEF Complete, store
<1>9. CASE StreamError
  BY <1>9, BoundsAreNat DEF StreamError, store
<1>10. CASE UNCHANGED vars
  BY <1>10 DEF vars
<1>11. QED
  BY <1>1, <1>2, <1>3, <1>4, <1>5, <1>6, <1>7, <1>8, <1>9, <1>10 DEF Next, StreamStep

LEMMA TypesAlways == Spec => []TypeInv
BY TypeInvInit, TypeInvStep, PTL DEF Spec

\* Times, sets and sequences keep their ranges; a batch is never larger than asked for.
THEOREM TypeCorrect == Spec => []TypeOK
<1>1. TypeInv => TypeOK
  BY DEF TypeInv
<1>2. QED
  BY <1>1, TypesAlways, PTL

--------------------------------------------------------------------------------
(* The places that messages claim. *)

\* A message keeps the timestamp that it was saved with.
LEMMA StampsKept ==
  ASSUME TypeInv, [Next]_vars
  PROVE  saved \subseteq saved' /\ \A m \in saved : stamp'[m] = stamp[m]
<1>1. stamp \in [Messages -> Times \cup {NoStamp}] /\ \A m \in saved : stamp[m] # NoStamp
  BY DEF TypeInv, TypeOK
<1>2. ASSUME NEW m \in Messages, StampMessage(m)
      PROVE  saved \subseteq saved' /\ \A n \in saved : stamp'[n] = stamp[n]
  BY <1>1, <1>2 DEF StampMessage
<1>3. ASSUME NEW m \in Messages, SaveMessage(m)
      PROVE  saved \subseteq saved' /\ \A n \in saved : stamp'[n] = stamp[n]
  BY <1>3 DEF SaveMessage
<1>4. CASE UNCHANGED <<stamp, saved>>
  BY <1>4
<1>5. QED
  BY <1>2, <1>3, <1>4
     DEF Next, vars, store, Tick, CleanupSessionMessages, StreamStep, Ask, ReadConversation,
         Emit, Complete, StreamError

\* So what is before a saved message in what was saved stays what it was.
LEMMA EarlierKept ==
  ASSUME TypeInv, [Next]_vars, NEW C \in SUBSET saved, NEW m \in C
  PROVE  Earlier(C, m)' = Earlier(C, m) /\ NotLater(C, m)' = NotLater(C, m)
BY StampsKept DEF Earlier, NotLater

LEMMA PlaceKept ==
  ASSUME TypeInv, [Next]_vars, NEW item, PlaceFits(item)
  PROVE  PlaceFits(item)'
<1>1. /\ item.m \in item.of /\ item.of \subseteq saved
      /\ Cardinality(Earlier(item.of, item.m)) <= item.index
      /\ item.index <= Cardinality(NotLater(item.of, item.m))
  BY DEF PlaceFits
<1>2. /\ Earlier(item.of, item.m)' = Earlier(item.of, item.m)
      /\ NotLater(item.of, item.m)' = NotLater(item.of, item.m)
  BY <1>1, EarlierKept
<1>3. item.of \subseteq saved'
  BY <1>1, StampsKept
<1>4. QED
  BY <1>1, <1>2, <1>3 DEF PlaceFits

LEMMA ReadPlacesFit ==
  ASSUME TypeInv, ReadConversation
  PROVE  (\A k \in DOMAIN batch : PlaceFits(batch[k]))'
<1>1. PICK s \in Sorted(Conversation) :
        /\ DOMAIN s = 1..total' /\ \A i \in 1..total' : s[i] \in Conversation
        /\ \A k \in DOMAIN batch' :
             /\ index + k \in 1..total' /\ batch'[k].m = s[index + k]
             /\ batch'[k].index = index + k - 1 /\ batch'[k].of = Conversation
  BY BatchRead
<1>2. Conversation \subseteq saved /\ IsFiniteSet(Conversation) /\ UNCHANGED <<stamp, saved>>
  BY ConversationIsFinite DEF ReadConversation, store
<1>3. \A m \in Conversation : stamp[m] \in Nat
  BY <1>2, StampsAreNat
<1>4. \A C, m : Earlier(C, m)' = Earlier(C, m) /\ NotLater(C, m)' = NotLater(C, m)
  BY <1>2 DEF Earlier, NotLater
<1>5. ASSUME NEW k \in DOMAIN batch' PROVE PlaceFits(batch[k])'
  <2> DEFINE p == index + k
  <2>1. PICK item : item = batch'[k]
    OBVIOUS
  <2>2. /\ p \in 1..total' /\ item.m = s[p] /\ item.index = p - 1 /\ item.of = Conversation
    <3>1. k \in Nat /\ index \in Nat
      BY BatchRead DEF TypeInv, TypeOK
    <3>2. index + k - 1 = (index + k) - 1
      BY <3>1
    <3>3. QED
      BY <1>1, <2>1, <3>2
  <2> HIDE DEF p
  <2>3. /\ Cardinality(Earlier(Conversation, s[p])) <= p - 1
        /\ p - 1 <= Cardinality(NotLater(Conversation, s[p]))
    BY <1>1, <1>2, <1>3, <2>2, PlaceInSorted
  <2>4. /\ item.m \in item.of /\ item.of \subseteq saved'
        /\ Cardinality(Earlier(item.of, item.m)) <= item.index
        /\ item.index <= Cardinality(NotLater(item.of, item.m))
    BY <1>1, <1>2, <2>2, <2>3
  <2>5. PlaceFits(item)'
    BY <1>4, <2>4 DEF PlaceFits
  <2>6. QED
    BY <2>1, <2>5 DEF PlaceFits
<1>6. QED
  BY <1>5

LEMMA PlacesStep ==
  ASSUME TypeInv, PlacesInv, [Next]_vars
  PROVE  PlacesInv'
<1>1. \A x : PlaceFits(x) => PlaceFits(x)'
  BY PlaceKept
<1>2. CASE UNCHANGED <<got, batch>>
  BY <1>1, <1>2 DEF PlacesInv
<1>3. CASE ReadConversation
  <2>1. UNCHANGED got
    BY <1>3 DEF ReadConversation
  <2>2. QED
    BY <1>1, <1>3, <2>1, ReadPlacesFit DEF PlacesInv
<1>4. CASE Emit
  <2>1. \A i \in DOMAIN got' :
          (i \in DOMAIN got /\ got'[i] = got[i]) \/ (1 \in DOMAIN batch /\ got'[i] = batch[1])
    BY <1>4, EmitMovesHead
  <2>2. \A k \in DOMAIN batch' : k + 1 \in DOMAIN batch /\ batch'[k] = batch[k + 1]
    BY <1>4, EmitMovesHead
  <2>3. QED
    BY <1>1, <2>1, <2>2 DEF PlacesInv
<1>5. QED
  BY <1>2, <1>3, <1>4
     DEF Next, vars, pass, Tick, StampMessage, SaveMessage, CleanupSessionMessages,
         StreamStep, Ask, Complete, StreamError

--------------------------------------------------------------------------------
(* The order of what is received. *)

LEMMA OrderStep ==
  ASSUME TypeInv, OrderInv, [Next]_vars
  PROVE  OrderInv'
<1>1. /\ index \in Nat /\ BatchSize \in Nat \ {0} /\ total \in Nat
      /\ got \in Seq(Items) /\ batch \in Seq(Items)
  BY BatchIsPositive DEF TypeInv, TypeOK
<1>2. \A i \in DOMAIN got : got[i].index \in Nat
  <2>1. got \in [1..Len(got) -> Items] /\ \A x \in Items : x.index \in Nat
    BY <1>1, LenProperties DEF Items
  <2>2. QED
    BY <2>1
<1>3. \A k \in DOMAIN batch : batch[k].index \in Nat
  <2>1. batch \in [1..Len(batch) -> Items] /\ \A x \in Items : x.index \in Nat
    BY <1>1, LenProperties DEF Items
  <2>2. QED
    BY <2>1
<1>4. CASE UNCHANGED <<step, index, total, batch, got>>
  BY <1>4 DEF OrderInv, LastEndsPass
<1>5. CASE Ask \/ StreamError
  <2>1. /\ UNCHANGED <<index, total, batch, got>> /\ step \in {"client", "read"}
        /\ step' \in {"client", "read"}
    BY <1>5 DEF Ask, StreamError
  <2>2. QED
    BY <2>1 DEF OrderInv, LastEndsPass
<1>6. CASE ReadConversation
  <2>1. step = "read" /\ step' = "emit" /\ UNCHANGED <<index, got>>
    BY <1>6 DEF ReadConversation
  <2>2. /\ total' \in Nat /\ Len(batch') \in Nat /\ DOMAIN batch' = 1..Len(batch')
        /\ Len(batch') = IF index + BatchSize <= total' THEN BatchSize
                         ELSE IF index < total' THEN total' - index ELSE 0
        /\ \A k \in DOMAIN batch' :
             /\ index + k \in 1..total' /\ batch'[k].index = index + k - 1
             /\ batch'[k].isLast => index + k = total'
    BY <1>6, BatchRead
  <2>3. /\ \A i \in DOMAIN got : got[i].index < index /\ ~got[i].isLast
        /\ LastEndsPass
    BY <2>1 DEF OrderInv
  <2>4. \A i \in DOMAIN got : got[i].index < index + BatchSize
    BY <1>1, <1>2, <2>3
  <2>5. \A k \in DOMAIN batch' :
          /\ k \in Nat \ {0} /\ index <= batch'[k].index /\ batch'[k].index \in Nat
          /\ k <= Len(batch')
    BY <1>1, <2>2
  <2>6. \A k \in DOMAIN batch' :
          /\ batch'[k].index < index + BatchSize
          /\ batch'[k].isLast => k = Len(batch') /\ total' <= index + BatchSize
          /\ \A l \in DOMAIN batch' : l < k => batch'[l].index < batch'[k].index
    <3>1. SUFFICES ASSUME NEW k \in DOMAIN batch'
                   PROVE  /\ batch'[k].index < index + BatchSize
                          /\ batch'[k].isLast => k = Len(batch') /\ total' <= index + BatchSize
                          /\ \A l \in DOMAIN batch' : l < k => batch'[l].index < batch'[k].index
      OBVIOUS
    <3>2. k \in Nat \ {0} /\ k <= Len(batch') /\ Len(batch') \in Nat /\ total' \in Nat
      BY <2>2, <2>5, <3>1
    <3>3. batch'[k].index = index + k - 1 /\ index + k <= total'
      BY <1>1, <2>2, <3>1, <3>2
    <3>4. Len(batch') = IF index + BatchSize <= total' THEN BatchSize ELSE total' - index
      <4>1. index < total'
        BY <1>1, <3>2, <3>3
      <4>2. QED
        BY <2>2, <4>1
    <3>5. batch'[k].index < index + BatchSize
      <4>1. CASE index + BatchSize <= total'
        <5>1. k <= BatchSize
          BY <3>2, <3>4, <4>1
        <5>2. QED
          BY <1>1, <3>2, <3>3, <5>1
      <4>2. CASE ~(index + BatchSize <= total')
        BY <1>1, <3>2, <3>3, <4>2
      <4>3. QED
        BY <4>1, <4>2
    <3>6. ASSUME batch'[k].isLast PROVE k = Len(batch') /\ total' <= index + BatchSize
      <4>1. index + k = total'
        BY <2>2, <3>1, <3>6
      <4>2. CASE index + BatchSize <= total'
        <5>1. k <= BatchSize /\ BatchSize <= k /\ Len(batch') = BatchSize
          BY <1>1, <3>2, <3>4, <4>1, <4>2
        <5>2. QED
          BY <1>1, <3>2, <4>1, <5>1
      <4>3. CASE ~(index + BatchSize <= total')
        <5>1. Len(batch') = total' - index
          BY <3>4, <4>3
        <5>2. QED
          BY <1>1, <3>2, <4>1, <4>3, <5>1
      <4>4. QED
        BY <4>2, <4>3
    <3>7. ASSUME NEW l \in DOMAIN batch', l < k PROVE batch'[l].index < batch'[k].index
      <4>1. l \in Nat /\ batch'[l].index = index + l - 1
        BY <2>2, <2>5
      <4>2. QED
        BY <1>1, <3>2, <3>3, <3>7, <4>1
    <3>8. QED
      BY <3>5, <3>6, <3>7
  <2>7. \A k \in DOMAIN batch', i \in DOMAIN got : got[i].index < batch'[k].index
    BY <1>1, <1>2, <2>3, <2>5
  <2>8. QED
    BY <2>1, <2>3, <2>4, <2>6, <2>7 DEF OrderInv, LastEndsPass
<1>7. CASE Emit
  <2>1. step = "emit" /\ UNCHANGED <<step, index, total>> /\ batch # <<>>
    BY <1>7 DEF Emit
  <2>2. /\ batch' \in Seq(Items) /\ Len(batch) \in Nat \ {0} /\ Len(batch') = Len(batch) - 1
        /\ Len(got) \in Nat
        /\ DOMAIN batch = 1..Len(batch) /\ DOMAIN batch' = 1..(Len(batch) - 1)
        /\ DOMAIN got = 1..Len(got) /\ DOMAIN got' = 1..(Len(got) + 1)
        /\ \A k \in DOMAIN batch' : batch'[k] = batch[k + 1]
        /\ \A i \in DOMAIN got : got'[i] = got[i]
        /\ got'[Len(got) + 1] = batch[1]
    BY <1>7, EmitMovesHead
  <2>3. \A i \in DOMAIN got : ~got[i].isLast
    BY <2>1 DEF OrderInv
  <2>4. 1 \in DOMAIN batch /\ \A k \in DOMAIN batch' : k + 1 \in DOMAIN batch /\ 1 < k + 1
    BY <2>2
  <2>5. \A i \in DOMAIN got' : IF i \in DOMAIN got THEN got'[i] = got[i]
                               ELSE i = Len(got) + 1 /\ got'[i] = batch[1]
    BY <2>2
  <2>6. LastEndsPass'
    <3>1. SUFFICES ASSUME NEW i \in DOMAIN got', NEW j \in DOMAIN got', i < j
                   PROVE  ~got'[i].isLast /\ got'[i].index < got'[j].index
      BY DEF LastEndsPass
    <3>2. i \in DOMAIN got
      BY <2>2, <3>1
    <3>3. CASE j \in DOMAIN got
      BY <2>2, <3>1, <3>2, <3>3 DEF OrderInv, LastEndsPass
    <3>4. CASE j \notin DOMAIN got
      BY <2>2, <2>3, <2>4, <2>5, <3>2, <3>4 DEF OrderInv
    <3>5. QED
      BY <3>3, <3>4
  <2>7. \A i \in DOMAIN got' : got'[i].index < index + BatchSize
    BY <2>1, <2>4, <2>5 DEF OrderInv
  <2>8. \A i \in DOMAIN got' : got'[i].isLast => batch' = <<>> /\ total <= index + BatchSize
    <3>1. SUFFICES ASSUME NEW i \in DOMAIN got', got'[i].isLast
                   PROVE  batch' = <<>> /\ total <= index + BatchSize
      OBVIOUS
    <3>2. got'[i] = batch[1]
      BY <2>3, <2>5, <3>1
    <3>3. 1 = Len(batch) /\ total <= index + BatchSize
      BY <2>4, <3>1, <3>2 DEF OrderInv
    <3>4. Len(batch') = Len(batch) - 1 /\ batch' \in Seq(Items)
      BY <2>2
    <3>5. Len(batch') = 0
      BY <3>3, <3>4
    <3>6. QED
      BY <3>3, <3>4, <3>5, EmptySeq
  <2>9. \A k \in DOMAIN batch' :
          /\ \A i \in DOMAIN got' : got'[i].index < batch'[k].index
          /\ batch'[k].index < index + BatchSize
          /\ batch'[k].isLast => k = Len(batch') /\ total <= index + BatchSize
          /\ \A l \in DOMAIN batch' : l < k => batch'[l].index < batch'[k].index
    <3> SUFFICES ASSUME NEW k \in DOMAIN batch'
                 PROVE  /\ \A i \in DOMAIN got' : got'[i].index < batch'[k].index
                        /\ batch'[k].index < index + BatchSize
                        /\ batch'[k].isLast => k = Len(batch') /\ total <= index + BatchSize
                        /\ \A l \in DOMAIN batch' : l < k => batch'[l].index < batch'[k].index
      OBVIOUS
    <3>1. k + 1 \in DOMAIN batch /\ 1 < k + 1 /\ batch'[k] = batch[k + 1]
      BY <2>2, <2>4
    <3>2. /\ \A i \in DOMAIN got : got[i].index < batch[k + 1].index
          /\ batch[k + 1].index < index + BatchSize
          /\ batch[k + 1].isLast => k + 1 = Len(batch) /\ total <= index + BatchSize
          /\ \A l \in DOMAIN batch : l < k + 1 => batch[l].index < batch[k + 1].index
      BY <3>1 DEF OrderInv
    <3>3. \A i \in DOMAIN got' : got'[i].index < batch'[k].index
      BY <2>4, <2>5, <3>1, <3>2
    <3>4. \A l \in DOMAIN batch' : l < k => batch'[l].index < batch'[k].index
      <4>1. ASSUME NEW l \in DOMAIN batch', l < k PROVE batch'[l].index < batch'[k].index
        <5>1. l + 1 \in DOMAIN batch /\ l + 1 < k + 1 /\ batch'[l] = batch[l + 1]
          BY <2>2, <4>1
        <5>2. QED
          BY <3>1, <3>2, <5>1
      <4>2. QED
        BY <4>1
    <3>5. batch'[k].isLast => k = Len(batch') /\ total <= index + BatchSize
      BY <2>2, <3>1, <3>2
    <3>6. QED
      BY <3>1, <3>2, <3>3, <3>4, <3>5
  <2>10. QED
    BY <2>1, <2>6, <2>7, <2>8, <2>9 DEF OrderInv
<1>8. CASE Complete
  <2>1. /\ step = "emit" /\ batch = <<>> /\ UNCHANGED <<got, batch, total>>
        /\ index' = index + BatchSize
        /\ step' = IF index + BatchSize < total THEN "client" ELSE "done"
    BY <1>8 DEF Complete
  <2>2. DOMAIN batch = {}
    BY <2>1
  <2>3. \A i \in DOMAIN got : got[i].isLast => total <= index + BatchSize
    BY <2>1 DEF OrderInv
  <2>4. \A i \in DOMAIN got : got[i].isLast => step' = "done"
    BY <1>1, <2>1, <2>3
  <2>5. QED
    BY <2>1, <2>2, <2>4 DEF OrderInv, LastEndsPass
<1>9. QED
  BY <1>4, <1>5, <1>6, <1>7, <1>8
     DEF Next, vars, pass, Tick, StampMessage, SaveMessage, CleanupSessionMessages, StreamStep

--------------------------------------------------------------------------------
(* What was there when the pass began. *)

\* A message that is the only one of its time now was so before, while it is kept.
LEMMA LoneBefore ==
  ASSUME TypeInv, [Next]_vars, NEW m \in saved, Lone(m)'
  PROVE  Lone(m)
<1>1. saved \subseteq saved' /\ \A n \in saved : stamp'[n] = stamp[n]
  BY StampsKept
<1>2. \A n \in saved' : n # m => stamp'[n] # stamp'[m]
  BY DEF Lone, SameTime
<1>3. QED
  BY <1>1, <1>2 DEF Lone, SameTime

\* The number of earlier messages only grows.
LEMMA RankGrows ==
  ASSUME TypeInv, TypeInv', [Next]_vars, NEW m \in saved, Conversation \subseteq Conversation'
  PROVE  /\ Cardinality(Earlier(Conversation, m)) \in Nat
         /\ Cardinality(Earlier(Conversation, m))' \in Nat
         /\ Cardinality(Earlier(Conversation, m)) <= Cardinality(Earlier(Conversation, m))'
<1>1. Conversation \subseteq saved /\ IsFiniteSet(Conversation) /\ IsFiniteSet(Conversation')
  BY ConversationIsFinite, FS_Subset DEF TypeInv, Conversation, TypeOK
<1>2. \A n \in saved : stamp'[n] = stamp[n]
  BY StampsKept
<1>3. /\ Earlier(Conversation, m) \subseteq Conversation
      /\ Earlier(Conversation, m)' \subseteq Conversation'
      /\ Earlier(Conversation, m) \subseteq Earlier(Conversation, m)'
  BY <1>1, <1>2 DEF Earlier
<1>4. IsFiniteSet(Earlier(Conversation, m)) /\ IsFiniteSet(Earlier(Conversation, m)')
  BY <1>1, <1>3, FS_Subset
<1>5. /\ Cardinality(Earlier(Conversation, m)) \in Nat
      /\ Cardinality(Earlier(Conversation, m)') \in Nat
      /\ Cardinality(Earlier(Conversation, m)) <= Cardinality(Earlier(Conversation, m)')
  BY <1>3, <1>4, FS_CardinalityType, FS_Subset
<1>6. QED
  BY <1>5

\* Where the messages are not touched by the pass, what was reached stays so.
LEMMA StoreStepKeepsReached ==
  ASSUME TypeInv, TypeInv', [Next]_vars, NEW m \in first \ purged', UNCHANGED pass,
         Conversation \subseteq Conversation', Reached(m)
  PROVE  Reached(m)'
<1>1. /\ Cardinality(Earlier(Conversation, m)) \in Nat
      /\ Cardinality(Earlier(Conversation, m))' \in Nat
      /\ Cardinality(Earlier(Conversation, m)) <= Cardinality(Earlier(Conversation, m))'
  BY RankGrows DEF TypeInv, TypeOK
<1>2. index \in Nat /\ BatchSize \in Nat /\ index + BatchSize \in Nat
  BY BatchIsPositive DEF TypeInv, TypeOK
<1>3. UNCHANGED <<step, index, total, batch, got>>
  BY DEF pass
<1>4. /\ index <= Cardinality(Earlier(Conversation, m)) =>
           index <= Cardinality(Earlier(Conversation, m))'
      /\ index + BatchSize <= Cardinality(Earlier(Conversation, m)) =>
           index + BatchSize <= Cardinality(Earlier(Conversation, m))'
  BY <1>1, <1>2
<1>5. QED
  BY <1>3, <1>4 DEF Reached

\* What the pass changes, the messages keep.
LEMMA PassStep ==
  ASSUME UNCHANGED store
  PROVE  /\ Conversation' = Conversation
         /\ \A m : Earlier(Conversation, m)' = Earlier(Conversation, m)
BY DEF store, Conversation, Earlier

\* A request sends the message, or does not come to it: it counts those before it.
LEMMA ReadReaches ==
  ASSUME TypeInv, OrderInv, ReadConversation, NEW m \in Conversation, Lone(m),
         \/ \E i \in DOMAIN got : got[i].m = m
         \/ index <= Cardinality(Earlier(Conversation, m))
  PROVE  Reached(m)'
<1>1. CASE \E i \in DOMAIN got : got[i].m = m
  BY <1>1 DEF ReadConversation, Reached
<1>2. CASE index <= Cardinality(Earlier(Conversation, m))
  <2>1. PICK s \in Sorted(Conversation) :
          /\ DOMAIN s = 1..total' /\ total' \in Nat
          /\ \A n \in Conversation : \E i \in 1..total' : s[i] = n
          /\ Len(batch') \in Nat /\ DOMAIN batch' = 1..Len(batch')
          /\ Len(batch') = IF index + BatchSize <= total' THEN BatchSize
                           ELSE IF index < total' THEN total' - index ELSE 0
          /\ \A k \in DOMAIN batch' : batch'[k].m = s[index + k]
    BY BatchRead
  <2>2. PICK p \in 1..total' : s[p] = m
    BY <2>1
  <2>3. /\ Conversation \subseteq saved /\ IsFiniteSet(Conversation)
        /\ \A n \in saved : stamp[n] \in Nat
    BY ConversationIsFinite, StampsAreNat
  <2>4. NotLater(Conversation, m) = Earlier(Conversation, m)
    BY <2>3 DEF NotLater, Earlier, Lone, SameTime
  <2>5. /\ Cardinality(Earlier(Conversation, m)) \in Nat
        /\ Cardinality(Earlier(Conversation, m)) <= p - 1
        /\ p - 1 <= Cardinality(Earlier(Conversation, m))
    <3>1. \A n \in Conversation : stamp[n] \in Nat
      BY <2>3
    <3>2. p \in DOMAIN s
      BY <2>1
    <3>3. /\ Cardinality(Earlier(Conversation, s[p])) \in Nat
          /\ Cardinality(Earlier(Conversation, s[p])) <= p - 1
          /\ p - 1 <= Cardinality(NotLater(Conversation, s[p]))
      BY <2>3, <3>1, <3>2, PlaceInSorted
    <3>4. QED
      BY <2>2, <2>4, <3>3
  <2>6. index \in Nat /\ BatchSize \in Nat \ {0}
    BY BatchIsPositive DEF TypeInv, TypeOK
  <2>7. index <= p - 1
    BY <1>2, <2>1, <2>5, <2>6
  <2>8. UNCHANGED <<index, got, store>> /\ step' = "emit"
    BY DEF ReadConversation
  <2>9. CASE p <= index + BatchSize
    <3>1. p - index \in DOMAIN batch' /\ index + (p - index) = p
      <4> DEFINE t == total'
                 n == Len(batch')
      <4>1. /\ t \in Nat /\ p \in 1..t
            /\ n = IF index + BatchSize <= t THEN BatchSize
                   ELSE IF index < t THEN t - index ELSE 0
        BY <2>1
      <4> HIDE DEF t, n
      <4>2. p - index \in 1..n /\ index + (p - index) = p
        BY <2>6, <2>7, <2>9, <4>1
      <4>3. QED
        BY <2>1, <4>2 DEF n
    <3>2. batch'[p - index].m = m
      BY <2>1, <2>2, <3>1
    <3>3. QED
      BY <3>1, <3>2 DEF Reached
  <2>10. CASE ~(p <= index + BatchSize)
    <3>1. index + BatchSize < total'
      BY <2>1, <2>6, <2>10
    <3>2. index + BatchSize <= Cardinality(Earlier(Conversation, m))
      BY <2>1, <2>5, <2>6, <2>10
    <3>3. Cardinality(Earlier(Conversation, m))' = Cardinality(Earlier(Conversation, m))
      BY <2>8, PassStep
    <3>4. (index + BatchSize <= Cardinality(Earlier(Conversation, m)))'
      BY <2>8, <3>2, <3>3
    <3>5. QED
      BY <2>8, <3>1, <3>4 DEF Reached
  <2>11. QED
    BY <2>9, <2>10
<1>3. QED
  BY <1>1, <1>2

LEMMA SkipStep ==
  ASSUME TypeInv, TypeInv', OrderInv, SkipInv, [Next]_vars
  PROVE  SkipInv'
<1> SUFFICES ASSUME NEW m \in first' \ purged', Lone(m)'
             PROVE  Reached(m)'
  BY DEF SkipInv
<1>1. first \subseteq saved /\ purged \subseteq saved
  BY DEF TypeInv, TypeOK
<1>2. CASE ReadConversation
  <2>1. UNCHANGED store /\ first' = (IF index = 0 THEN Conversation ELSE first) /\ step = "read"
    BY <1>2 DEF ReadConversation
  <2>2. m \in Conversation /\ m \in saved
    BY <1>1, <2>1 DEF store, Conversation
  <2>3. Lone(m)
    BY <2>2, LoneBefore
  <2>4. \/ \E i \in DOMAIN got : got[i].m = m
        \/ index <= Cardinality(Earlier(Conversation, m))
    <3>1. CASE index = 0
      <4>1. Cardinality(Earlier(Conversation, m)) \in Nat
        <5>1. Earlier(Conversation, m) \subseteq Conversation
          BY DEF Earlier
        <5>2. QED
          BY <5>1, ConversationIsFinite, FS_Subset, FS_CardinalityType
      <4>2. QED
        BY <3>1, <4>1
    <3>2. CASE index # 0
      <4>1. Reached(m)
        BY <2>1, <2>3, <3>2 DEF SkipInv, store
      <4>2. batch = <<>>
        BY <2>1 DEF OrderInv
      <4>3. DOMAIN batch = {}
        BY <4>2
      <4>4. QED
        BY <2>1, <4>1, <4>3 DEF Reached
    <3>3. QED
      BY <3>1, <3>2
  <2>5. QED
    BY <1>2, <2>2, <2>3, <2>4, ReadReaches
<1>3. CASE ~ReadConversation
  <2>1. first' = first /\ (purged' = purged \/ purged' = saved)
    BY <1>3 DEF Next, vars, store, pass, Tick, StampMessage, SaveMessage, CleanupSessionMessages,
      StreamStep, Ask, Emit, Complete, StreamError
  <2>2. m \in saved /\ m \in first \ purged /\ purged' = purged
    BY <1>1, <2>1
  <2>3. Lone(m) /\ Reached(m)
    BY <2>2, LoneBefore DEF SkipInv
  <2>4. CASE UNCHANGED pass
    <3>1. Conversation \subseteq Conversation'
      BY <2>2, StampsKept DEF Conversation
    <3>2. QED
      BY <2>1, <2>2, <2>3, <2>4, <3>1, StoreStepKeepsReached
  <2>5. CASE Ask \/ StreamError
    <3>1. /\ UNCHANGED <<index, got, batch, store>> /\ step \in {"client", "read"}
          /\ step' \in {"client", "read"}
      BY <2>5 DEF Ask, StreamError
    <3>2. Cardinality(Earlier(Conversation, m))' = Cardinality(Earlier(Conversation, m))
      BY <3>1, PassStep
    <3>3. QED
      BY <2>3, <3>1, <3>2 DEF Reached
  <2>6. CASE Emit
    <3>1. /\ UNCHANGED <<step, index, total, store>> /\ step = "emit"
      BY <2>6 DEF Emit
    <3>2. Cardinality(Earlier(Conversation, m))' = Cardinality(Earlier(Conversation, m))
      BY <3>1, PassStep
    <3>3. /\ Len(batch) \in Nat \ {0} /\ Len(got) \in Nat
          /\ DOMAIN batch = 1..Len(batch) /\ DOMAIN batch' = 1..(Len(batch) - 1)
          /\ DOMAIN got = 1..Len(got) /\ DOMAIN got' = 1..(Len(got) + 1)
          /\ \A k \in DOMAIN batch' : batch'[k] = batch[k + 1]
          /\ \A i \in DOMAIN got : got'[i] = got[i]
          /\ got'[Len(got) + 1] = batch[1]
      BY <2>6, EmitMovesHead
    <3>4. CASE \E i \in DOMAIN got : got[i].m = m
      <4>1. \E i \in DOMAIN got' : got'[i].m = m
        BY <3>3, <3>4
      <4>2. QED
        BY <4>1 DEF Reached
    <3>5. CASE \E k \in DOMAIN batch : batch[k].m = m
      <4>1. PICK k \in DOMAIN batch : batch[k].m = m
        BY <3>5
      <4>2. CASE k = 1
        <5>1. Len(got) + 1 \in DOMAIN got' /\ got'[Len(got) + 1].m = m
          BY <3>3, <4>1, <4>2
        <5>2. QED
          BY <5>1 DEF Reached
      <4>3. CASE k # 1
        <5>1. k - 1 \in DOMAIN batch' /\ (k - 1) + 1 = k
          BY <3>3, <4>3
        <5>2. batch'[k - 1].m = m
          BY <3>3, <4>1, <5>1
        <5>3. QED
          BY <5>1, <5>2 DEF Reached
      <4>4. QED
        BY <4>2, <4>3
    <3>6. CASE /\ step = "emit" /\ index + BatchSize < total
               /\ index + BatchSize <= Cardinality(Earlier(Conversation, m))
      BY <3>1, <3>2, <3>6 DEF Reached
    <3>7. QED
      BY <2>3, <3>1, <3>4, <3>5, <3>6 DEF Reached
  <2>7. CASE Complete
    <3>1. /\ step = "emit" /\ batch = <<>> /\ UNCHANGED <<store, got, batch>>
          /\ index' = index + BatchSize
          /\ index + BatchSize < total => step' = "client"
      BY <2>7 DEF Complete
    <3>2. Cardinality(Earlier(Conversation, m))' = Cardinality(Earlier(Conversation, m))
      BY <3>1, PassStep
    <3>3. DOMAIN batch = {}
      BY <3>1
    <3>4. QED
      BY <2>3, <3>1, <3>2, <3>3 DEF Reached
  <2>8. QED
    BY <1>3, <2>4, <2>5, <2>6, <2>7
       DEF Next, vars, pass, Tick, StampMessage, SaveMessage, CleanupSessionMessages, StreamStep
<1>4. QED
  BY <1>2, <1>3

--------------------------------------------------------------------------------
(* The theorems. *)

LEMMA StreamInvInit == Init => StreamInv
<1> SUFFICES ASSUME Init PROVE StreamInv
  OBVIOUS
<1>1. DOMAIN got = {} /\ DOMAIN batch = {} /\ batch = <<>> /\ first = {}
  BY DEF Init
<1>2. QED
  BY <1>1, TypeInvInit DEF StreamInv, PlacesInv, OrderInv, LastEndsPass, SkipInv

LEMMA StreamInvStep == StreamInv /\ [Next]_vars => StreamInv'
<1> SUFFICES ASSUME StreamInv, [Next]_vars PROVE StreamInv'
  OBVIOUS
<1>1. TypeInv /\ PlacesInv /\ OrderInv /\ SkipInv
  BY DEF StreamInv
<1>2. TypeInv'
  BY <1>1, TypeInvStep
<1>3. QED
  BY <1>1, <1>2, PlacesStep, OrderStep, SkipStep DEF StreamInv

\* What holds of the messages, the request and what was received at every step.
THEOREM StreamAlways == Spec => []StreamInv
BY StreamInvInit, StreamInvStep, PTL DEF Spec

\* Nothing follows a message that says it is the last, and places only grow.
THEOREM LastIsLast == Spec => []LastEndsPass
<1>1. StreamInv => LastEndsPass
  BY DEF StreamInv, OrderInv
<1>2. QED
  BY <1>1, StreamAlways, PTL

\* A pass that ends has delivered all that was there when it began and is still kept.
THEOREM NothingIsSkipped == Spec => []NothingSkipped
<1>1. StreamInv => NothingSkipped
  <2>1. SUFFICES ASSUME StreamInv, step = "done", NEW m \in first \ purged,
                        \A n \in saved : ~SameTime(n, m)
                 PROVE  \E i \in DOMAIN got : got[i].m = m
    BY DEF NothingSkipped
  <2>2. Reached(m)
    BY <2>1 DEF StreamInv, SkipInv, Lone
  <2>3. DOMAIN batch = {}
    <3>1. batch = <<>>
      BY <2>1 DEF StreamInv, OrderInv
    <3>2. QED
      BY <3>1
  <2>4. QED
    BY <2>1, <2>2, <2>3 DEF Reached
<1>2. QED
  BY <1>1, StreamAlways, PTL

\* A message comes twice only where another one pushed it to a later place.
THEOREM RepeatsAreExplained == Spec => []RepeatsExplained
<1>1. StreamInv => RepeatsExplained
  <2>1. SUFFICES ASSUME StreamInv, NEW i \in DOMAIN got, NEW j \in DOMAIN got,
                        i < j, got[i].m = got[j].m,
                        \A n \in got[j].of \ {got[i].m} :
                          /\ n \in got[i].of \/ ~(stamp[n] < stamp[got[i].m])
                          /\ ~SameTime(n, got[i].m)
                 PROVE  FALSE
    BY DEF RepeatsExplained
  <2> DEFINE m == got[i].m
             Ci == got[i].of
             Cj == got[j].of
  <2>2. PlaceFits(got[i]) /\ PlaceFits(got[j]) /\ got[i].index < got[j].index
    BY <2>1 DEF StreamInv, PlacesInv, OrderInv, LastEndsPass
  <2>3. /\ Ci \subseteq saved /\ Cj \subseteq saved /\ m \in saved
        /\ Cardinality(Earlier(Ci, m)) <= got[i].index
        /\ got[j].index <= Cardinality(NotLater(Cj, m))
    BY <2>1, <2>2 DEF PlaceFits
  <2>4. \A n \in saved : stamp[n] \in Nat
    BY <2>1, StampsAreNat DEF StreamInv
  <2>5. NotLater(Cj, m) \subseteq Earlier(Ci, m)
    <3>1. SUFFICES ASSUME NEW n \in NotLater(Cj, m) PROVE n \in Earlier(Ci, m)
      OBVIOUS
    <3>2. n \in Cj \ {m} /\ stamp[n] <= stamp[m]
      BY DEF NotLater
    <3>3. stamp[n] < stamp[m]
      BY <2>1, <2>3, <2>4, <3>2 DEF SameTime
    <3>4. QED
      BY <2>1, <3>2, <3>3 DEF Earlier
  <2>6. /\ IsFiniteSet(Earlier(Ci, m))
        /\ Cardinality(Earlier(Ci, m)) \in Nat
        /\ Cardinality(NotLater(Cj, m)) \in Nat
        /\ Cardinality(NotLater(Cj, m)) <= Cardinality(Earlier(Ci, m))
    <3>1. Earlier(Ci, m) \subseteq saved /\ IsFiniteSet(saved)
      BY <2>1, <2>3 DEF Earlier, StreamInv, TypeInv
    <3>2. IsFiniteSet(Earlier(Ci, m))
      BY <3>1, FS_Subset
    <3>3. QED
      BY <2>5, <3>2, FS_Subset, FS_CardinalityType
  <2>7. got[i].index \in Nat /\ got[j].index \in Nat
    <3>1. got \in [1..Len(got) -> Items] /\ \A x \in Items : x.index \in Nat
      BY <2>1, LenProperties DEF StreamInv, TypeInv, TypeOK, Items
    <3>2. QED
      BY <3>1
  <2> HIDE DEF m, Ci, Cj
  <2>8. QED
    BY <2>2, <2>3, <2>6, <2>7
<1>2. QED
  BY <1>1, StreamAlways, PTL

================================================================================
