---------------------------- MODULE QueueProofs ----------------------------
(***************************************************************************)
(* schedulePlan for any rows, owners, torrents, priorities and limits, the *)
(* rotation of a stalled torrent's sources, and both beside the transfer   *)
(* dock, for the composition MCDownloads.  The plan is computed by a       *)
(* recursive function over a sorted list; what it computes is proved by    *)
(* induction on how many groups had their turn (UpTo, PlanUpTo).           *)
(***************************************************************************)
EXTENDS MCDownloads, TransferDockProofs, FiniteSetTheorems, SequenceTheorems,
        WellFoundedInduction, TLAPS

(* A set of numbers has a least one, so what holds for 0 and goes on from   *)
(* n to n + 1 holds up to any m.                                            *)
LEMMA SmallestNumber ==
    ASSUME NEW T \in SUBSET Nat, T # {}
    PROVE  \E n \in T : \A m \in T : n <= m
<1> DEFINE R == OpToRel(<, Nat)
<1>1. IsWellFoundedOn(R, Nat)
  BY NatLessThanWellFounded
<1>2. \A m, n \in Nat : m < n => <<m, n>> \in R
  BY DEF OpToRel
<1> HIDE DEF R
<1>3. PICK n \in T : \A m \in T : <<m, n>> \notin R
  BY <1>1, WFMin
<1>4. \A m \in T : ~(m < n)
  BY <1>2, <1>3
<1>5. QED
  BY <1>4

LEMMA UpTo ==
    ASSUME NEW m \in Nat, NEW S \in SUBSET (0 .. m), 0 \in S,
           \A n \in 0 .. m - 1 : n \in S => n + 1 \in S
    PROVE  S = 0 .. m
<1> DEFINE T == (0 .. m) \ S
<1>1. SUFFICES ASSUME T # {} PROVE FALSE
  OBVIOUS
<1>2. T \in SUBSET Nat
  OBVIOUS
<1> HIDE DEF T
<1>3. PICK n \in T : \A k \in T : n <= k
  BY <1>1, <1>2, SmallestNumber
<1>4. n \in 1 .. m /\ n - 1 \notin T
  BY <1>2, <1>3 DEF T
<1>5. n - 1 \in S
  BY <1>4 DEF T
<1>6. QED
  BY <1>3, <1>4, <1>5 DEF T

-----------------------------------------------------------------------------
(* Sorting: in a strict order of a finite set every element has a place.    *)

Orders(R, S) ==
    /\ \A a, b \in S : <<a, b>> \in R => <<b, a>> \notin R
    /\ \A a, b \in S : a # b => <<a, b>> \in R \/ <<b, a>> \in R
    /\ \A a, b, c \in S : <<a, b>> \in R /\ <<b, c>> \in R => <<a, c>> \in R

Ahead(R, S, a) == {b \in S : <<b, a>> \in R}

LEMMA AheadCounted ==
    ASSUME NEW S, IsFiniteSet(S), NEW R, Orders(R, S)
    PROVE  /\ \A a \in S : Cardinality(Ahead(R, S, a)) \in 0 .. Cardinality(S) - 1
           /\ \A a, b \in S : <<a, b>> \in R =>
                Cardinality(Ahead(R, S, a)) < Cardinality(Ahead(R, S, b))
<1>1. ASSUME NEW T \in SUBSET S, NEW U \in SUBSET T, U # T
      PROVE  /\ Cardinality(U) < Cardinality(T)
             /\ Cardinality(U) \in Nat /\ Cardinality(T) \in Nat
  <2>1. IsFiniteSet(T) /\ IsFiniteSet(U)
    BY FS_Subset
  <2>2. Cardinality(U) <= Cardinality(T) /\ Cardinality(U) # Cardinality(T)
    BY <1>1, <2>1, FS_Subset
  <2>3. QED
    BY <2>1, <2>2, FS_CardinalityType
<1>2. ASSUME NEW a \in S
      PROVE  Cardinality(Ahead(R, S, a)) \in 0 .. Cardinality(S) - 1
  <2>1. Ahead(R, S, a) \in SUBSET S /\ Ahead(R, S, a) # S
    BY DEF Ahead, Orders
  <2>2. QED
    BY <1>1, <2>1
<1>3. ASSUME NEW a \in S, NEW b \in S, <<a, b>> \in R
      PROVE  Cardinality(Ahead(R, S, a)) < Cardinality(Ahead(R, S, b))
  <2>1. /\ Ahead(R, S, a) \in SUBSET Ahead(R, S, b)
        /\ Ahead(R, S, a) # Ahead(R, S, b)
    BY <1>3 DEF Ahead, Orders
  <2>2. Ahead(R, S, b) \in SUBSET S
    BY DEF Ahead
  <2>3. QED
    BY <1>1, <2>1, <2>2
<1>4. QED
  BY <1>2, <1>3

LEMMA FirstOfAll ==
    ASSUME NEW S, IsFiniteSet(S), S # {}, NEW R, Orders(R, S)
    PROVE  \E a \in S : \A b \in S \ {a} : <<a, b>> \in R
<1> DEFINE T == {Cardinality(Ahead(R, S, a)) : a \in S}
<1>1. T \in SUBSET Nat /\ T # {}
  BY AheadCounted
<1>2. PICK n \in T : \A m \in T : n <= m
  <2> HIDE DEF T
  <2> QED BY <1>1, SmallestNumber
<1>3. PICK a \in S : n = Cardinality(Ahead(R, S, a))
  BY <1>2
<1>4. ASSUME NEW b \in S \ {a}
      PROVE  <<a, b>> \in R
  <2>1. Cardinality(Ahead(R, S, a)) <= Cardinality(Ahead(R, S, b))
    BY <1>2, <1>3
  <2>2. /\ Cardinality(Ahead(R, S, a)) \in Nat /\ Cardinality(Ahead(R, S, b)) \in Nat
        /\ <<b, a>> \in R => Cardinality(Ahead(R, S, b)) < Cardinality(Ahead(R, S, a))
    BY AheadCounted
  <2>3. <<b, a>> \notin R
    BY <2>1, <2>2
  <2>4. QED
    BY <2>3 DEF Orders
<1>5. QED
  BY <1>4

LEMMA EveryPlaceTaken ==
    ASSUME NEW S, IsFiniteSet(S), NEW R, Orders(R, S)
    PROVE  \A i \in 1 .. Cardinality(S) : \E a \in S : Cardinality(Ahead(R, S, a)) = i - 1
<1> DEFINE N == Cardinality(S)
<1> DEFINE f == [a \in S |-> Cardinality(Ahead(R, S, a)) + 1]
<1>1. N \in Nat
  BY FS_CardinalityType
<1>2. IsFiniteSet(1 .. N) /\ Cardinality(1 .. N) = N
  BY <1>1, FS_Interval
<1>3. \A a \in S : Cardinality(Ahead(R, S, a)) \in 0 .. N - 1
  BY AheadCounted
<1>4. f \in [S -> 1 .. N]
  BY <1>1, <1>3
<1>5. \A a, b \in S : f[a] = f[b] => a = b
  <2>1. SUFFICES ASSUME NEW a \in S, NEW b \in S, a # b
                 PROVE  Cardinality(Ahead(R, S, a)) # Cardinality(Ahead(R, S, b))
    BY <1>1, <1>3
  <2>2. <<a, b>> \in R \/ <<b, a>> \in R
    BY <2>1 DEF Orders
  <2>3. QED
    BY <1>1, <1>3, <2>2, AheadCounted
<1>6. f \in Injection(S, 1 .. N)
  BY <1>4, <1>5 DEF Injection, IsInjective
<1>7. f \in Surjection(S, 1 .. N)
  BY <1>2, <1>6, FS_Injection
<1>8. ASSUME NEW i \in 1 .. N
      PROVE  \E a \in S : Cardinality(Ahead(R, S, a)) = i - 1
  <2>1. PICK a \in S : f[a] = i
    BY <1>7 DEF Surjection
  <2>2. QED
    BY <1>1, <1>3, <2>1
<1>9. QED
  BY <1>8

(* What Sorted returns, with the order as a set of pairs.                   *)
Arranges(s, R, S) ==
    /\ s \in [1 .. Cardinality(S) -> S]
    /\ \A i, j \in 1 .. Cardinality(S) : i < j => <<s[i], s[j]>> \in R
    /\ \A i, j \in 1 .. Cardinality(S) : s[i] = s[j] => i = j
    /\ \A a \in S : \E i \in 1 .. Cardinality(S) : s[i] = a

LEMMA SortedArranges ==
    ASSUME NEW S, IsFiniteSet(S), NEW R, Orders(R, S), NEW s,
           DOMAIN s = 1 .. Cardinality(S), s = [i \in DOMAIN s |-> s[i]],
           \A i \in DOMAIN s : s[i] \in S /\ Cardinality(Ahead(R, S, s[i])) = i - 1
    PROVE  Arranges(s, R, S)
<1> DEFINE N == Cardinality(S)
<1> DEFINE at(a) == Cardinality(Ahead(R, S, a))
<1>1. N \in Nat
  BY FS_CardinalityType
<1>2. \A a \in S : at(a) \in 0 .. N - 1
  BY AheadCounted
<1>3. \A i \in 1 .. N : s[i] \in S /\ at(s[i]) = i - 1
  OBVIOUS
<1>4. \A a, b \in S : at(a) < at(b) => <<a, b>> \in R
  <2>1. SUFFICES ASSUME NEW a \in S, NEW b \in S, at(a) < at(b)
                 PROVE  <<a, b>> \in R
    OBVIOUS
  <2>2. a # b /\ <<b, a>> \notin R
    BY <1>1, <1>2, <2>1, AheadCounted
  <2>3. QED
    BY <2>2 DEF Orders
<1>5. \A a, b \in S : at(a) = at(b) => a = b
  <2>1. SUFFICES ASSUME NEW a \in S, NEW b \in S, a # b
                 PROVE  at(a) # at(b)
    OBVIOUS
  <2>2. <<a, b>> \in R \/ <<b, a>> \in R
    BY <2>1 DEF Orders
  <2>3. QED
    BY <1>1, <1>2, <2>2, AheadCounted
<1> HIDE DEF at
<1>6. \A a \in S : s[at(a) + 1] = a /\ at(a) + 1 \in 1 .. N
  <2>1. SUFFICES ASSUME NEW a \in S
                 PROVE  s[at(a) + 1] = a /\ at(a) + 1 \in 1 .. N
    OBVIOUS
  <2>2. at(a) + 1 \in 1 .. N
    BY <1>1, <1>2
  <2>3. s[at(a) + 1] \in S /\ at(s[at(a) + 1]) = at(a)
    BY <1>1, <1>2, <1>3, <2>2
  <2>4. QED
    BY <1>5, <2>2, <2>3
<1>7. \A i, j \in 1 .. N : s[i] = s[j] => i = j
  <2>1. SUFFICES ASSUME NEW i \in 1 .. N, NEW j \in 1 .. N, s[i] = s[j]
                 PROVE  i = j
    OBVIOUS
  <2>2. at(s[i]) = i - 1 /\ at(s[i]) = j - 1
    BY <1>3, <2>1
  <2>3. QED
    BY <1>1, <2>2
<1>8. \A i, j \in 1 .. N : i < j => <<s[i], s[j]>> \in R
  <2>1. SUFFICES ASSUME NEW i \in 1 .. N, NEW j \in 1 .. N, i < j
                 PROVE  <<s[i], s[j]>> \in R
    OBVIOUS
  <2>2. at(s[i]) = i - 1 /\ at(s[j]) = j - 1 /\ s[i] \in S /\ s[j] \in S
    BY <1>3
  <2>3. at(s[i]) < at(s[j])
    BY <1>1, <2>1, <2>2
  <2>4. QED
    BY <1>4, <2>2, <2>3
<1>9. QED
  BY <1>3, <1>6, <1>7, <1>8 DEF Arranges

-----------------------------------------------------------------------------
(* The groups, and the orders in which they are considered.                 *)

Groups == GroupRows(Schedulable)

LEMMA RowNumbers ==
    ASSUME TypeOK, NEW r \in Schedulable
    PROVE  /\ r \in Rows /\ priority[r] \in 1 .. 3 /\ stalls[r] \in Nat /\ IdOf[r] \in Nat
           /\ Score(r) \in Nat /\ Score(r) - priority[r] * 1000 \in 0 .. AgingCap
<1>1. r \in Rows /\ priority[r] \in 1 .. 3 /\ stalls[r] \in Nat /\ IdOf[r] \in Nat
  <2>1. r \in Rows
    BY DEF Schedulable, Having
  <2>2. priority[r] \in Ranks /\ stalls[r] \in 0 .. MaxStalls
    BY <2>1 DEF TypeOK
  <2>3. priority[r] \in 1 .. 3
    BY <2>2, QueueNumbers
  <2>4. stalls[r] \in Nat
    BY <2>2, QueueNumbers
  <2>5. IdOf[r] \in Nat
    BY <2>1, IdsAreDistinct
  <2>6. QED
    BY <2>1, <2>3, <2>4, <2>5
<1>2. agingBonus(r) \in 0 .. AgingCap
  BY QueueNumbers DEF agingBonus
<1>3. QED
  BY <1>1, <1>2, QueueNumbers DEF Score

LEMMA GroupsApart ==
    ASSUME TypeOK
    PROVE  /\ IsFiniteSet(Groups)
           /\ \A g \in Groups : g # {} /\ g \subseteq Schedulable /\ IsFiniteSet(g)
           /\ \A g, h \in Groups : g # h => g \cap h = {}
<1>1. Schedulable \subseteq Rows
  BY DEF Schedulable, Having
<1>2. \A g \in Groups : g # {} /\ g \subseteq Schedulable
  BY <1>1 DEF Groups, GroupRows, Siblings
<1>3. IsFiniteSet(Schedulable)
  BY <1>1, RowsAssumption, FS_Subset
<1>4. \A g \in Groups : IsFiniteSet(g)
  BY <1>2, <1>3, FS_Subset
<1>5. IsFiniteSet(Groups)
  <2>1. IsFiniteSet(SUBSET Schedulable)
    BY <1>3, FS_SUBSET
  <2>2. Groups \subseteq SUBSET Schedulable
    BY <1>2
  <2>3. QED
    BY <2>1, <2>2, FS_Subset
<1>6. \A g, h \in Groups : g # h => g \cap h = {}
  BY <1>1 DEF Groups, GroupRows, Siblings
<1>7. QED
  BY <1>2, <1>4, <1>5, <1>6

LEMMA PromotionOrders ==
    ASSUME TypeOK, NEW a \in Schedulable, NEW b \in Schedulable, NEW c \in Schedulable
    PROVE  /\ promotionLess(a, b) => ~promotionLess(b, a)
           /\ a # b => promotionLess(a, b) \/ promotionLess(b, a)
           /\ promotionLess(a, b) /\ promotionLess(b, c) => promotionLess(a, c)
<1>1. /\ Score(a) \in Nat /\ Score(b) \in Nat /\ Score(c) \in Nat
      /\ stalls[a] \in Nat /\ stalls[b] \in Nat /\ stalls[c] \in Nat
  BY RowNumbers
<1>2. /\ waitsLonger(a, b) => ~waitsLonger(b, a)
      /\ a # b => waitsLonger(a, b) \/ waitsLonger(b, a)
      /\ waitsLonger(a, b) /\ waitsLonger(b, c) => waitsLonger(a, c)
  BY DEF TypeOK
<1> HIDE DEF TypeOK
<1>3. QED
  BY <1>1, <1>2 DEF promotionLess

LEMMA StrongerOrders ==
    ASSUME TypeOK, NEW a \in Schedulable, NEW b \in Schedulable, NEW c \in Schedulable
    PROVE  /\ groupMemberStronger(a, b) => ~groupMemberStronger(b, a)
           /\ a # b => groupMemberStronger(a, b) \/ groupMemberStronger(b, a)
           /\ groupMemberStronger(a, b) /\ groupMemberStronger(b, c) => groupMemberStronger(a, c)
<1>1. priority[a] \in Nat /\ priority[b] \in Nat /\ priority[c] \in Nat
  BY RowNumbers
<1>2. QED
  BY <1>1, PromotionOrders DEF groupMemberStronger

LEMMA RepresentativeIn ==
    ASSUME TypeOK, NEW g \in Groups
    PROVE  /\ representative(g) \in g /\ rankOf(g) \in 1 .. 3
           /\ \A r \in g : priority[r] <= rankOf(g)
<1> DEFINE R == {p \in g \X g : groupMemberStronger(p[1], p[2])}
<1>1. g # {} /\ g \subseteq Schedulable /\ IsFiniteSet(g)
  BY GroupsApart
<1>2. Orders(R, g)
  <2>1. \A a, b \in g : <<a, b>> \in R <=> groupMemberStronger(a, b)
    OBVIOUS
  <2> HIDE DEF R
  <2>2. \A a, b \in g : <<a, b>> \in R => <<b, a>> \notin R
    BY <1>1, <2>1, StrongerOrders
  <2>3. \A a, b \in g : a # b => <<a, b>> \in R \/ <<b, a>> \in R
    BY <1>1, <2>1, StrongerOrders
  <2>4. \A a, b, c \in g : <<a, b>> \in R /\ <<b, c>> \in R => <<a, c>> \in R
    BY <1>1, <2>1, <2>2, StrongerOrders
  <2>5. QED
    BY <2>2, <2>3, <2>4 DEF Orders
<1>3. \E a \in g : \A b \in g \ {a} : groupMemberStronger(a, b)
  <2>1. PICK a \in g : \A b \in g \ {a} : <<a, b>> \in R
    <3> HIDE DEF R
    <3> QED BY <1>1, <1>2, FirstOfAll
  <2>2. QED
    BY <2>1
<1>4. /\ representative(g) \in g
      /\ \A b \in g \ {representative(g)} : groupMemberStronger(representative(g), b)
  BY <1>3 DEF representative
<1>5. \A r \in g : priority[r] \in 1 .. 3
  BY <1>1, RowNumbers
<1>6. \A r \in g : priority[r] <= priority[representative(g)]
  BY <1>4, <1>5 DEF groupMemberStronger
<1>7. QED
  BY <1>4, <1>5, <1>6 DEF rankOf

LEMMA IncumbentsFinite ==
    ASSUME TypeOK
    PROVE  IsFiniteSet(Incumbents) /\ Incumbents \subseteq Groups
BY GroupsApart, FS_Subset DEF Incumbents, Groups

LEMMA IncumbentsArranged ==
    ASSUME TypeOK, NEW order \in IncumbentOrders
    PROVE  /\ DOMAIN order = 1 .. Cardinality(Incumbents)
           /\ order \in [DOMAIN order -> Incumbents]
           /\ \A i, j \in DOMAIN order : i < j => rankOf(order[i]) >= rankOf(order[j])
           /\ \A i, j \in DOMAIN order : order[i] = order[j] => i = j
           /\ \A g \in Incumbents : \E i \in DOMAIN order : order[i] = g
<1>1. order \in Bijection(1 .. Cardinality(Incumbents), Incumbents)
  BY DEF IncumbentOrders
<1>2. \A i, j \in DOMAIN order : i < j => rankOf(order[i]) >= rankOf(order[j])
  BY DEF IncumbentOrders
<1>3. QED
  BY <1>1, <1>2 DEF Bijection, Injection, Surjection, IsInjective

LEMMA WaitingArranged ==
    ASSUME TypeOK
    PROVE  /\ IsFiniteSet(Waiting) /\ Waiting \subseteq Groups
           /\ DOMAIN WaitingOrder = 1 .. Cardinality(Waiting)
           /\ WaitingOrder \in [DOMAIN WaitingOrder -> Waiting]
           /\ \A i, j \in DOMAIN WaitingOrder : i < j =>
                promotionLess(representative(WaitingOrder[i]), representative(WaitingOrder[j]))
           /\ AgingCap < 1000 =>
                \A i, j \in DOMAIN WaitingOrder : i < j =>
                    rankOf(WaitingOrder[i]) >= rankOf(WaitingOrder[j])
           /\ \A i, j \in DOMAIN WaitingOrder : WaitingOrder[i] = WaitingOrder[j] => i = j
           /\ \A g \in Waiting : \E i \in DOMAIN WaitingOrder : WaitingOrder[i] = g
<1> DEFINE S == Waiting
           s == WaitingOrder
           before(g, h) == promotionLess(representative(g), representative(h))
           R == {p \in S \X S : before(p[1], p[2])}
<1>1. IsFiniteSet(S) /\ S \subseteq Groups
  BY GroupsApart, FS_Subset DEF Waiting, Groups
<1>2. \A g, h \in S : <<g, h>> \in R <=> before(g, h)
  OBVIOUS
<1>3. /\ \A g \in S : representative(g) \in Schedulable
      /\ \A g, h \in S : g # h => representative(g) # representative(h)
  BY <1>1, RepresentativeIn, GroupsApart
<1>4. Orders(R, S)
  BY <1>2, <1>3, PromotionOrders DEF Orders
<1> DEFINE place(i) == CHOOSE g \in S : Cardinality({h \in S : before(h, g)}) = i - 1
<1>5. s = [i \in 1 .. Cardinality(S) |-> place(i)]
  BY DEF WaitingOrder, Sorted
<1>6. \A g \in S : Ahead(R, S, g) = {h \in S : before(h, g)}
  BY <1>2 DEF Ahead
<1> HIDE DEF R, S, s, before, place
<1>7. \A i \in 1 .. Cardinality(S) : s[i] \in S /\ Cardinality(Ahead(R, S, s[i])) = i - 1
  <2>1. SUFFICES ASSUME NEW i \in 1 .. Cardinality(S)
                 PROVE  s[i] \in S /\ Cardinality(Ahead(R, S, s[i])) = i - 1
    OBVIOUS
  <2>2. \E g \in S : Cardinality({h \in S : before(h, g)}) = i - 1
    BY <1>1, <1>4, <1>6, EveryPlaceTaken
  <2>3. s[i] = place(i)
    BY <1>5
  <2>4. s[i] \in S /\ Cardinality({h \in S : before(h, s[i])}) = i - 1
    BY <2>2, <2>3 DEF place
  <2>5. QED
    BY <1>6, <2>4
<1>8. DOMAIN s = 1 .. Cardinality(S) /\ s = [i \in DOMAIN s |-> s[i]]
  BY <1>5
<1>9. Arranges(s, R, S)
  BY <1>1, <1>4, <1>7, <1>8, SortedArranges
<1>10. AgingCap < 1000 => \A g, h \in S : <<g, h>> \in R => rankOf(g) >= rankOf(h)
  <2>1. SUFFICES ASSUME AgingCap < 1000, NEW g \in S, NEW h \in S, before(g, h)
                 PROVE  rankOf(g) >= rankOf(h)
    BY <1>2
  <2> DEFINE a == representative(g)
             b == representative(h)
  <2>2. Score(a) >= Score(b)
    BY <1>3, <2>1, RowNumbers DEF before, promotionLess
  <2>3. /\ priority[a] \in 1 .. 3 /\ priority[b] \in 1 .. 3
        /\ Score(a) \in Nat /\ Score(a) - priority[a] * 1000 \in 0 .. AgingCap
        /\ Score(b) \in Nat /\ Score(b) - priority[b] * 1000 \in 0 .. AgingCap
    BY <1>3, RowNumbers
  <2>4. priority[a] >= priority[b]
    BY <2>1, <2>2, <2>3, QueueNumbers
  <2>5. QED
    BY <2>4 DEF rankOf
<1>11. \A i, j \in DOMAIN s : i < j => before(s[i], s[j])
  BY <1>2, <1>8, <1>9 DEF Arranges
<1>12. QED
  BY <1>1, <1>8, <1>9, <1>10, <1>11 DEF Arranges, S, s, before

(* The groups in turn: those that hold a slot first, the strongest first,   *)
(* then those that wait, in the order of promotion.                         *)
InTurn(order) ==
    /\ Len(order) \in Nat /\ order \in [1 .. Len(order) -> Groups]
    /\ \A i, j \in 1 .. Len(order) : order[i] = order[j] => i = j
    /\ \A g \in Groups : \E i \in 1 .. Len(order) : order[i] = g
    /\ \A i, j \in 1 .. Len(order) : i < j /\ order[j] \in Incumbents =>
         order[i] \in Incumbents /\ rankOf(order[i]) >= rankOf(order[j])
    /\ \A i, j \in 1 .. Len(order) : i < j /\ order[i] \notin Incumbents =>
         promotionLess(representative(order[i]), representative(order[j]))
    /\ AgingCap < 1000 =>
         \A i, j \in 1 .. Len(order) : i < j /\ order[i] \notin Incumbents =>
             rankOf(order[i]) >= rankOf(order[j])

LEMMA GroupsInTurn ==
    ASSUME TypeOK, NEW I \in IncumbentOrders
    PROVE  InTurn(I \o WaitingOrder)
<1> DEFINE W == WaitingOrder
           m == Cardinality(Incumbents)
           k == Cardinality(Waiting)
<1>1. m \in Nat /\ k \in Nat
  BY IncumbentsFinite, WaitingArranged, FS_CardinalityType
<1>2. I \in Seq(Incumbents) /\ Len(I) = m /\ W \in Seq(Waiting) /\ Len(W) = k
  BY <1>1, IncumbentsArranged, WaitingArranged
<1>3. Incumbents \cup Waiting = Groups /\ Incumbents \cap Waiting = {}
  BY DEF Incumbents, Waiting, Groups
<1> DEFINE O == I \o W
<1>4. /\ Len(O) = m + k
      /\ \A i \in 1 .. Len(O) : O[i] = IF i <= m THEN I[i] ELSE W[i - m]
      /\ O \in [1 .. Len(O) -> Groups]
  <2>1. I \in Seq(Groups) /\ W \in Seq(Groups)
    BY <1>2, <1>3
  <2>2. O \in Seq(Groups)
    BY <2>1
  <2>3. Len(O) = m + k
    BY <1>2, <2>1
  <2>4. ASSUME NEW i \in 1 .. Len(O)
        PROVE  O[i] = IF i <= m THEN I[i] ELSE W[i - m]
    BY <1>1, <1>2, <2>1, <2>3, <2>4
  <2>5. O \in [1 .. Len(O) -> Groups]
    <3> HIDE DEF O
    <3> QED BY <2>2
  <2>6. QED
    BY <2>3, <2>4, <2>5
<1> HIDE DEF O
<1>5. \A i \in 1 .. Len(O) :
        \/ i \in 1 .. m /\ O[i] = I[i] /\ O[i] \in Incumbents
        \/ i - m \in 1 .. k /\ O[i] = W[i - m] /\ O[i] \in Waiting
  BY <1>1, <1>4, IncumbentsArranged, WaitingArranged
<1>6. \A i, j \in 1 .. Len(O) : O[i] = O[j] => i = j
  <2>1. /\ \A i, j \in 1 .. m : I[i] = I[j] => i = j
        /\ \A i, j \in 1 .. k : W[i] = W[j] => i = j
    <3>1. DOMAIN I = 1 .. m /\ \A i, j \in DOMAIN I : I[i] = I[j] => i = j
      BY IncumbentsArranged
    <3>2. DOMAIN W = 1 .. k /\ \A i, j \in DOMAIN W : W[i] = W[j] => i = j
      BY WaitingArranged
    <3>3. QED
      BY <3>1, <3>2
  <2>2. SUFFICES ASSUME NEW i \in 1 .. Len(O), NEW j \in 1 .. Len(O), O[i] = O[j]
                 PROVE  i = j
    OBVIOUS
  <2>3. CASE O[i] \in Incumbents
    BY <1>3, <1>5, <2>1, <2>2, <2>3
  <2>4. CASE O[i] \notin Incumbents
    <3>1. /\ i - m \in 1 .. k /\ O[i] = W[i - m]
          /\ j - m \in 1 .. k /\ O[j] = W[j - m]
      BY <1>5, <2>2, <2>4
    <3>2. i - m = j - m
      BY <2>1, <2>2, <3>1
    <3>3. QED
      BY <1>1, <1>4, <3>2
  <2>5. QED
    BY <2>3, <2>4
<1>7. \A g \in Groups : \E i \in 1 .. Len(O) : O[i] = g
  <2>1. SUFFICES ASSUME NEW g \in Groups PROVE \E i \in 1 .. Len(O) : O[i] = g
    OBVIOUS
  <2>2. CASE g \in Incumbents
    <3>1. PICK i \in 1 .. m : I[i] = g
      BY <2>2, IncumbentsArranged
    <3>2. QED
      BY <1>1, <1>4, <3>1
  <2>3. CASE g \in Waiting
    <3>1. PICK i \in 1 .. k : W[i] = g
      BY <2>3, WaitingArranged
    <3>2. i + m \in 1 .. Len(O) /\ O[i + m] = W[i]
      BY <1>1, <1>4, <3>1
    <3>3. QED
      BY <3>1, <3>2
  <2>4. QED
    BY <1>3, <2>2, <2>3
<1>8. ASSUME NEW i \in 1 .. Len(O), NEW j \in 1 .. Len(O), i < j, O[j] \in Incumbents
      PROVE  O[i] \in Incumbents /\ rankOf(O[i]) >= rankOf(O[j])
  <2>1. j \in 1 .. m /\ O[j] = I[j] /\ i \in 1 .. m
    BY <1>1, <1>3, <1>4, <1>5, <1>8
  <2>2. O[i] = I[i] /\ O[i] \in Incumbents
    BY <1>1, <1>5, <2>1
  <2>3. QED
    BY <1>8, <2>1, <2>2, IncumbentsArranged
<1>9. ASSUME NEW i \in 1 .. Len(O), NEW j \in 1 .. Len(O), i < j, O[i] \notin Incumbents
      PROVE  /\ promotionLess(representative(O[i]), representative(O[j]))
             /\ AgingCap < 1000 => rankOf(O[i]) >= rankOf(O[j])
  <2>1. i - m \in 1 .. k /\ O[i] = W[i - m]
    BY <1>5, <1>9
  <2>2. j - m \in 1 .. k /\ O[j] = W[j - m]
    BY <1>1, <1>4, <1>5, <1>9, <2>1
  <2>3. QED
    BY <1>1, <1>9, <2>1, <2>2, WaitingArranged
<1>10. Len(O) \in Nat
  BY <1>1, <1>4
<1>11. InTurn(O)
  BY <1>4, <1>6, <1>7, <1>8, <1>9, <1>10 DEF InTurn
<1>12. QED
  BY <1>11 DEF O

-----------------------------------------------------------------------------
(* One group is considered: what becomes of the set of those that hold a    *)
(* slot.                                                                     *)

Once(s) == \A i, j \in 1 .. Len(s) : s[i] = s[j] => i = j

Turn(P, g, Q) ==
    \/ CanTake(g, P) /\ Q = P \cup {g}
    \/ /\ ~CanTake(g, P) /\ Q = P
       /\ \/ g \in Incumbents
          \/ ~underPerUser(groupUser(g), P)
          \/ \A v \in P \cap Incumbents : rankOf(v) >= rankOf(g)
    \/ /\ ~CanTake(g, P) /\ g \notin Incumbents /\ underPerUser(groupUser(g), P)
       /\ \E v \in P \cap Incumbents :
            /\ rankOf(v) < rankOf(g)
            /\ \A x \in P \cap Incumbents : rankOf(v) <= rankOf(x)
            /\ Q = (P \ {v}) \cup {g}

LEMMA MembersOf ==
    ASSUME NEW S, NEW s \in Seq(S)
    PROVE  ToSet(s) = {s[i] : i \in 1 .. Len(s)} /\ ToSet(s) \subseteq S
BY DEF ToSet

LEMMA Appended ==
    ASSUME NEW S, NEW s \in Seq(S), NEW e \in S, e \notin ToSet(s), Once(s)
    PROVE  /\ Append(s, e) \in Seq(S) /\ Once(Append(s, e))
           /\ ToSet(Append(s, e)) = ToSet(s) \cup {e}
<1> DEFINE t == Append(s, e)
<1>1. /\ t \in Seq(S) /\ Len(t) = Len(s) + 1 /\ t[Len(s) + 1] = e
      /\ \A i \in 1 .. Len(s) : t[i] = s[i]
  BY AppendProperties
<1>2. Len(s) \in Nat
  OBVIOUS
<1> HIDE DEF t
<1>3. \A i \in 1 .. Len(t) : t[i] = IF i = Len(s) + 1 THEN e ELSE s[i]
  BY <1>1, <1>2
<1>4. ToSet(t) = ToSet(s) \cup {e}
  <2>1. ToSet(t) = {t[i] : i \in 1 .. Len(t)} /\ ToSet(s) = {s[i] : i \in 1 .. Len(s)}
    BY <1>1, MembersOf
  <2>2. ToSet(t) \subseteq ToSet(s) \cup {e}
    BY <1>1, <1>2, <1>3, <2>1
  <2>3. e \in ToSet(t)
    BY <1>1, <1>2, <2>1
  <2>4. ToSet(s) \subseteq ToSet(t)
    BY <1>1, <1>2, <2>1
  <2>5. QED
    BY <2>2, <2>3, <2>4
<1>5. Once(t)
  <2>1. \A i \in 1 .. Len(s) : s[i] # e
    BY MembersOf
  <2>2. QED
    BY <1>1, <1>2, <1>3, <2>1 DEF Once
<1>6. QED
  BY <1>1, <1>4, <1>5 DEF t

LEMMA Replaced ==
    ASSUME NEW S, NEW s \in Seq(S), NEW e \in S, e \notin ToSet(s), Once(s),
           NEW k \in 1 .. Len(s), NEW t \in Seq(S), Len(t) = Len(s),
           \A i \in 1 .. Len(s) : t[i] = IF i = k THEN e ELSE s[i]
    PROVE  Once(t) /\ ToSet(t) = (ToSet(s) \ {s[k]}) \cup {e}
<1>1. t \in Seq(S) /\ Len(t) = Len(s)
  OBVIOUS
<1>2. \A i \in 1 .. Len(s) : t[i] = IF i = k THEN e ELSE s[i]
  OBVIOUS
<1>3. ToSet(t) = {t[i] : i \in 1 .. Len(s)} /\ ToSet(s) = {s[i] : i \in 1 .. Len(s)}
  BY <1>1, MembersOf
<1>4. ToSet(t) = (ToSet(s) \ {s[k]}) \cup {e}
  <2>1. ToSet(t) \subseteq (ToSet(s) \ {s[k]}) \cup {e}
    BY <1>2, <1>3 DEF Once
  <2>2. e \in ToSet(t)
    BY <1>2, <1>3
  <2>3. ToSet(s) \ {s[k]} \subseteq ToSet(t)
    BY <1>2, <1>3
  <2>4. QED
    BY <2>1, <2>2, <2>3
<1>5. Once(t)
  <2>1. \A i \in 1 .. Len(s) : s[i] # e
    BY <1>3
  <2>2. QED
    BY <1>1, <1>2, <2>1 DEF Once
<1>6. QED
  BY <1>1, <1>4, <1>5

(* What weakestPreemptable finds, if there is an incumbent at all.          *)
LEMMA WeakestFound ==
    ASSUME TypeOK, NEW s \in Seq(Groups), NEW g \in Groups
    PROVE  LET k == weakestPreemptable(s, g)
               I == ToSet(s) \cap Incumbents
           IN  \/ k = 0 /\ \A v \in I : rankOf(v) >= rankOf(g)
               \/ /\ k \in 1 .. Len(s) /\ s[k] \in I /\ rankOf(s[k]) < rankOf(g)
                  /\ \A x \in I : rankOf(s[k]) <= rankOf(x)
<1> DEFINE inc     == {i \in DOMAIN s : groupHasDownloading(s[i])}
           weakest == {i \in inc : \A j \in inc :
                          \/ rankOf(s[i]) < rankOf(s[j])
                          \/ rankOf(s[i]) = rankOf(s[j]) /\ i <= j}
           beaten  == {i \in weakest : rankOf(g) > rankOf(s[i])}
           I       == ToSet(s) \cap Incumbents
           R       == {p \in inc \X inc : \/ rankOf(s[p[1]]) < rankOf(s[p[2]])
                                          \/ /\ rankOf(s[p[1]]) = rankOf(s[p[2]])
                                             /\ p[1] < p[2]}
<1>1. weakestPreemptable(s, g) = IF beaten = {} THEN 0 ELSE CHOOSE i \in beaten : TRUE
  BY DEF weakestPreemptable
<1>2. /\ \A i \in inc : i \in 1 .. Len(s) /\ s[i] \in I
      /\ \A v \in I : \E i \in inc : s[i] = v
  <2>1. \A i \in 1 .. Len(s) : s[i] \in Groups
    OBVIOUS
  <2>2. ToSet(s) = {s[i] : i \in 1 .. Len(s)}
    BY MembersOf
  <2>3. QED
    BY <2>1, <2>2 DEF Incumbents, Groups
<1>3. \A v \in I : v \in Groups /\ rankOf(v) \in Nat
  BY RepresentativeIn DEF Incumbents, Groups
<1>4. rankOf(g) \in Nat
  BY RepresentativeIn
<1>5. CASE inc = {}
  BY <1>1, <1>2, <1>5
<1>6. CASE inc # {}
  <2>1. IsFiniteSet(inc)
    <3>1. IsFiniteSet(1 .. Len(s)) /\ inc \subseteq 1 .. Len(s)
      BY FS_Interval
    <3>2. QED
      BY <3>1, FS_Subset
  <2>2. \A i, j \in inc : <<i, j>> \in R <=>
             \/ rankOf(s[i]) < rankOf(s[j])
             \/ rankOf(s[i]) = rankOf(s[j]) /\ i < j
    OBVIOUS
  <2>3. \A i \in inc : rankOf(s[i]) \in Nat /\ i \in Nat
    BY <1>2, <1>3
  <2> HIDE DEF R, inc, I
  <2>4. Orders(R, inc)
    BY <2>2, <2>3 DEF Orders
  <2>5. PICK i \in inc : \A j \in inc \ {i} : <<i, j>> \in R
    BY <1>6, <2>1, <2>4, FirstOfAll
  <2>6. i \in weakest
    <3>1. ASSUME NEW j \in inc
          PROVE  \/ rankOf(s[i]) < rankOf(s[j])
                 \/ rankOf(s[i]) = rankOf(s[j]) /\ i <= j
      <4>1. CASE j = i
        BY <2>3, <4>1
      <4>2. CASE j # i
        <5>1. <<i, j>> \in R
          BY <2>5, <4>2
        <5>2. QED
          BY <2>2, <2>3, <5>1
      <4>3. QED
        BY <4>1, <4>2
    <3>2. QED
      BY <3>1
  <2>7. \A k \in weakest : k \in inc /\ \A v \in I : rankOf(s[k]) <= rankOf(v)
    BY <1>2, <1>3, <2>3
  <2>8. CASE beaten = {}
    <3>1. rankOf(s[i]) >= rankOf(g)
      BY <1>4, <2>3, <2>6, <2>8
    <3>2. \A v \in I : rankOf(v) >= rankOf(g)
      BY <1>3, <1>4, <2>3, <2>6, <2>7, <3>1
    <3>3. QED
      BY <1>1, <2>8, <3>2 DEF I
  <2>9. CASE beaten # {}
    <3>1. PICK k \in beaten : k = weakestPreemptable(s, g)
      BY <1>1, <2>9
    <3>2. k \in weakest /\ rankOf(g) > rankOf(s[k])
      BY <3>1
    <3>3. k \in 1 .. Len(s) /\ s[k] \in I /\ rankOf(s[k]) < rankOf(g)
      BY <1>2, <1>3, <1>4, <2>3, <2>7, <3>2
    <3>4. QED
      BY <2>7, <3>1, <3>2, <3>3 DEF I
  <2>10. QED
    BY <2>8, <2>9
<1>7. QED
  BY <1>5, <1>6

LEMMA Considered ==
    ASSUME TypeOK, NEW s \in Seq(Groups), Once(s), NEW g \in Groups, g \notin ToSet(s)
    PROVE  /\ consider(s, g) \in Seq(Groups) /\ Once(consider(s, g))
           /\ Turn(ToSet(s), g, ToSet(consider(s, g)))
<1>1. groupHasDownloading(g) <=> g \in Incumbents
  BY DEF Incumbents, Groups
<1>2. CASE CanTake(g, ToSet(s))
  <2>1. consider(s, g) = Append(s, g)
    BY <1>2 DEF consider, take, admit
  <2>2. QED
    BY <1>2, <2>1, Appended DEF Turn
<1>3. CASE ~CanTake(g, ToSet(s)) /\ g \in Incumbents
  <2>1. consider(s, g) = s
    BY <1>1, <1>3 DEF consider, take
  <2>2. QED
    BY <1>3, <2>1 DEF Turn
<1>4. CASE ~CanTake(g, ToSet(s)) /\ g \notin Incumbents
  <2> DEFINE k == weakestPreemptable(s, g)
  <2>1. consider(s, g) = IF ~underPerUser(groupUser(g), ToSet(s)) \/ k = 0 THEN s
                         ELSE [s EXCEPT ![k] = g]
    BY <1>1, <1>4 DEF consider, admit, tryPreempt
  <2> HIDE DEF k
  <2>2. CASE ~underPerUser(groupUser(g), ToSet(s))
    BY <1>4, <2>1, <2>2 DEF Turn
  <2>3. CASE underPerUser(groupUser(g), ToSet(s)) /\ k = 0
    <3>1. \A v \in ToSet(s) \cap Incumbents : rankOf(v) >= rankOf(g)
      BY <2>3, WeakestFound DEF k
    <3>2. QED
      BY <1>4, <2>1, <2>3, <3>1 DEF Turn
  <2>4. CASE underPerUser(groupUser(g), ToSet(s)) /\ k # 0
    <3>1. /\ k \in 1 .. Len(s) /\ s[k] \in ToSet(s) \cap Incumbents
          /\ rankOf(s[k]) < rankOf(g)
          /\ \A x \in ToSet(s) \cap Incumbents : rankOf(s[k]) <= rankOf(x)
      BY <2>4, WeakestFound DEF k
    <3>2. consider(s, g) = [s EXCEPT ![k] = g]
      BY <2>1, <2>4
    <3> DEFINE t == consider(s, g)
    <3>3. /\ t \in Seq(Groups) /\ Len(t) = Len(s)
          /\ \A i \in 1 .. Len(s) : t[i] = IF i = k THEN g ELSE s[i]
      BY <3>1, <3>2
    <3> HIDE DEF t
    <3>4. Once(t) /\ ToSet(t) = (ToSet(s) \ {s[k]}) \cup {g}
      BY <3>1, <3>3, Replaced
    <3>5. QED
      BY <1>4, <2>4, <3>1, <3>3, <3>4 DEF Turn, t
  <2>5. QED
    BY <2>2, <2>3, <2>4
<1>5. QED
  BY <1>2, <1>3, <1>4

-----------------------------------------------------------------------------
(* The room for a group, when others get or lose theirs.                    *)

LEMMA NoRoomInMore ==
    ASSUME NEW g, NEW Q, IsFiniteSet(Q), NEW P \in SUBSET Q, ~CanTake(g, P)
    PROVE  ~CanTake(g, Q)
<1>1. IsFiniteSet(P) /\ Cardinality(P) <= Cardinality(Q)
  BY FS_Subset
<1>2. \A u : IsFiniteSet(OfUser(u, Q)) /\ OfUser(u, P) \in SUBSET OfUser(u, Q)
  BY FS_Subset DEF OfUser
<1>3. \A u : Cardinality(OfUser(u, P)) <= Cardinality(OfUser(u, Q))
  BY <1>2, FS_Subset
<1>4. \A u : Cardinality(OfUser(u, P)) \in Nat /\ Cardinality(OfUser(u, Q)) \in Nat
  BY <1>2, FS_Subset, FS_CardinalityType
<1>5. Cardinality(P) \in Nat /\ Cardinality(Q) \in Nat
  BY <1>1, FS_CardinalityType
<1>6. QED
  BY <1>1, <1>3, <1>4, <1>5, LimitsOfSlots DEF CanTake, hasGlobalRoom, underPerUser

LEMMA Swapped ==
    ASSUME NEW P, IsFiniteSet(P), NEW v \in P, NEW g, g \notin P
    PROVE  /\ IsFiniteSet((P \ {v}) \cup {g})
           /\ Cardinality((P \ {v}) \cup {g}) = Cardinality(P)
<1>1. IsFiniteSet(P \ {v}) /\ Cardinality(P \ {v}) = Cardinality(P) - 1
  BY FS_RemoveElement
<1>2. /\ IsFiniteSet((P \ {v}) \cup {g})
      /\ Cardinality((P \ {v}) \cup {g}) = Cardinality(P \ {v}) + 1
  BY <1>1, FS_AddElement
<1>3. Cardinality(P) \in Nat
  BY FS_CardinalityType
<1>4. QED
  BY <1>1, <1>2, <1>3

LEMMA TurnFinite ==
    ASSUME NEW P, IsFiniteSet(P), NEW g, NEW Q, Turn(P, g, Q)
    PROVE  IsFiniteSet(Q)
<1>1. IsFiniteSet(P \cup {g})
  BY FS_AddElement
<1>2. Q \subseteq P \cup {g}
  BY DEF Turn
<1>3. QED
  BY <1>1, <1>2, FS_Subset

LEMMA StillNoRoom ==
    ASSUME NEW P, IsFiniteSet(P), NEW g, g \notin P, NEW Q, Turn(P, g, Q),
           NEW h, ~CanTake(h, P)
    PROVE  ~CanTake(h, Q)
<1>1. CASE P \subseteq Q
  BY <1>1, TurnFinite, NoRoomInMore
<1>2. CASE /\ ~CanTake(g, P) /\ underPerUser(groupUser(g), P)
           /\ \E v \in P : Q = (P \ {v}) \cup {g}
  <2>1. Cardinality(Q) = Cardinality(P)
    BY <1>2, Swapped
  <2>2. ~hasGlobalRoom(P)
    BY <1>2 DEF CanTake
  <2>3. QED
    BY <2>1, <2>2 DEF CanTake, hasGlobalRoom
<1>3. QED
  BY <1>1, <1>2 DEF Turn

LEMMA LimitsKept ==
    ASSUME NEW P, IsFiniteSet(P), WithinLimits(P), NEW g, g \notin P, NEW Q, Turn(P, g, Q)
    PROVE  WithinLimits(Q)
<1>1. IsFiniteSet(Q) /\ IsFiniteSet(P \cup {g}) /\ Q \subseteq P \cup {g}
  BY TurnFinite, FS_AddElement DEF Turn
<1>2. CASE Q = P
  BY <1>2
<1>3. CASE Q # P
  <2>1. underPerUser(groupUser(g), P) /\ Q # P
    BY <1>3 DEF Turn, CanTake
  <2>2. Cardinality(Q) <= MaxActive
    <3>1. CASE CanTake(g, P) /\ Q = P \cup {g}
      <4>1. Cardinality(Q) = Cardinality(P) + 1 /\ Cardinality(P) < MaxActive
        BY <3>1, FS_AddElement DEF CanTake, hasGlobalRoom
      <4>2. QED
        BY <4>1, FS_CardinalityType, LimitsOfSlots
    <3>2. CASE \E v \in P : Q = (P \ {v}) \cup {g}
      BY <3>2, Swapped DEF WithinLimits
    <3>3. QED
      BY <1>3, <3>1, <3>2 DEF Turn
  <2>3. ASSUME PerUserMax # 0, NEW h \in Q
        PROVE  Cardinality(OfUser(groupUser(h), Q)) <= PerUserMax
    <3> DEFINE u == groupUser(h)
    <3>1. /\ IsFiniteSet(OfUser(u, P)) /\ IsFiniteSet(OfUser(u, Q))
          /\ Cardinality(OfUser(u, P)) \in Nat /\ Cardinality(OfUser(u, Q)) \in Nat
      <4>1. OfUser(u, P) \subseteq P /\ OfUser(u, Q) \subseteq Q
        BY DEF OfUser
      <4>2. QED
        BY <1>1, <4>1, FS_Subset, FS_CardinalityType
    <3>2. CASE u = groupUser(g)
      <4>1. Cardinality(OfUser(u, P)) < PerUserMax
        BY <2>1, <2>3, <3>2 DEF underPerUser
      <4>2. OfUser(u, Q) \subseteq OfUser(u, P) \cup {g}
        BY <1>1 DEF OfUser
      <4>3. /\ IsFiniteSet(OfUser(u, P) \cup {g})
            /\ Cardinality(OfUser(u, P) \cup {g}) = Cardinality(OfUser(u, P)) + 1
        <5>1. g \notin OfUser(u, P)
          BY DEF OfUser
        <5>2. QED
          BY <3>1, <5>1, FS_AddElement
      <4>4. Cardinality(OfUser(u, Q)) <= Cardinality(OfUser(u, P)) + 1
        BY <4>2, <4>3, FS_Subset
      <4>5. QED
        BY <3>1, <4>1, <4>4, LimitsOfSlots
    <3>3. CASE u # groupUser(g)
      <4>1. OfUser(u, Q) \subseteq OfUser(u, P)
        BY <1>1, <3>3 DEF OfUser
      <4>2. h \in P
        BY <1>1, <3>3
      <4>3. Cardinality(OfUser(u, P)) <= PerUserMax
        BY <2>3, <4>2 DEF WithinLimits
      <4>4. Cardinality(OfUser(u, Q)) <= Cardinality(OfUser(u, P))
        BY <3>1, <4>1, FS_Subset
      <4>5. QED
        BY <3>1, <4>3, <4>4, LimitsOfSlots
    <3>4. QED
      BY <3>2, <3>3
  <2>4. QED
    BY <2>2, <2>3 DEF WithinLimits
<1>4. QED
  BY <1>2, <1>3

-----------------------------------------------------------------------------
(* The plan, after the first n groups of the order had their turn.          *)

Rivals(g) == {h \in Incumbents \ {g} : rankOf(h) >= rankOf(g)}

Yielded(g, P) ==
    (\E w \in P \ Incumbents : rankOf(w) > rankOf(g)) \/ ~CanTake(g, Rivals(g))

PlanUpTo(order, P, n) ==
    /\ P \subseteq {order[i] : i \in 1 .. n}
    /\ WithinLimits(P)
    /\ \A i \in 1 .. n : order[i] \notin P => ~CanTake(order[i], P)
    /\ \A i \in 1 .. n : order[i] \in Incumbents \ P => Yielded(order[i], P)
    /\ PerUserMax = 0 /\ AgingCap < 1000 =>
         \A i \in 1 .. n : order[i] \notin P => \A x \in P : rankOf(x) >= rankOf(order[i])

(* A group that waits and got no slot at its turn: its user had all of them, *)
(* or there was no room and nothing weaker, and who came after it took the   *)
(* slot of a weaker one and so is stronger.                                  *)
PassedOver(order, P, n, i) ==
    \/ ~underPerUser(groupUser(order[i]), P \cup Incumbents)
    \/ /\ ~hasGlobalRoom(P)
       /\ \A v \in P \cap Incumbents : rankOf(v) >= rankOf(order[i])
       /\ \A j \in 1 .. n : i < j /\ order[j] \in P => rankOf(order[j]) > rankOf(order[i])

ServedUpTo(order, P, n) ==
    \A i \in 1 .. n : order[i] \notin P \cup Incumbents => PassedOver(order, P, n, i)

LEMMA TurnKeepsPlan ==
    ASSUME TypeOK, NEW order, InTurn(order), NEW n \in 0 .. Len(order) - 1,
           NEW P, PlanUpTo(order, P, n), NEW Q, Turn(P, order[n + 1], Q)
    PROVE  PlanUpTo(order, Q, n + 1) /\ order[n + 1] \notin P
<1> DEFINE g == order[n + 1]
<1>1. Len(order) \in Nat /\ n \in Nat /\ n + 1 \in 1 .. Len(order)
  BY DEF InTurn
<1>2. /\ g \in Groups /\ \A i \in 1 .. n : order[i] \in Groups /\ order[i] # g
      /\ \A i \in 1 .. n + 1 : i \in 1 .. n \/ i = n + 1
  BY <1>1 DEF InTurn
<1>3. /\ g \notin P /\ P \subseteq Groups
  BY <1>2 DEF PlanUpTo
<1>4. IsFiniteSet(P)
  BY <1>3, GroupsApart, FS_Subset
<1>5. IsFiniteSet(Incumbents) /\ Incumbents \subseteq Groups
  BY IncumbentsFinite
<1>6. /\ \A x \in Groups : rankOf(x) \in Nat
      /\ rankOf(g) \in Nat
  BY <1>2, RepresentativeIn
<1>7. /\ \A i \in 1 .. n : g \in Incumbents =>
           order[i] \in Incumbents /\ rankOf(order[i]) >= rankOf(g)
      /\ \A i \in 1 .. n : AgingCap < 1000 /\ order[i] \notin Incumbents =>
           rankOf(order[i]) >= rankOf(g)
  BY <1>1 DEF InTurn
<1> HIDE DEF g
<1>8. Turn(P, g, Q)
  BY DEF g
<1>9. Q \subseteq {order[i] : i \in 1 .. n + 1}
  <2>1. Q \subseteq P \cup {g}
    BY <1>8 DEF Turn
  <2>2. P \subseteq {order[i] : i \in 1 .. n + 1}
    BY <1>1 DEF PlanUpTo
  <2>3. g \in {order[i] : i \in 1 .. n + 1}
    BY <1>1 DEF g
  <2>4. QED
    BY <2>1, <2>2, <2>3
<1>10. WithinLimits(Q)
  BY <1>3, <1>4, <1>8, LimitsKept DEF PlanUpTo
<1>11. g \notin Q => ~CanTake(g, Q) /\ Q = P
  BY <1>8 DEF Turn
<1>12. ASSUME NEW i \in 1 .. n, order[i] \notin Q, order[i] \in P
       PROVE  /\ g \in Q /\ g \notin Incumbents /\ ~CanTake(g, P)
              /\ order[i] \in Incumbents /\ rankOf(order[i]) < rankOf(g)
              /\ underPerUser(groupUser(g), P) /\ Q = (P \ {order[i]}) \cup {g}
              /\ \A x \in P \cap Incumbents : rankOf(order[i]) <= rankOf(x)
  BY <1>2, <1>8, <1>12 DEF Turn
<1>13. ASSUME NEW i \in 1 .. n, order[i] \notin Q
       PROVE  ~CanTake(order[i], Q)
  <2>1. CASE order[i] \notin P
    BY <1>3, <1>4, <1>8, <2>1, StillNoRoom DEF PlanUpTo
  <2>2. CASE order[i] \in P
    <3>1. ~hasGlobalRoom(P) /\ Cardinality(Q) = Cardinality(P)
      BY <1>3, <1>4, <1>12, <1>13, <2>2, Swapped DEF CanTake
    <3>2. QED
      BY <3>1 DEF CanTake, hasGlobalRoom
  <2>3. QED
    BY <2>1, <2>2
<1>14. ASSUME NEW i \in 1 .. n, order[i] \in Incumbents \ Q
       PROVE  Yielded(order[i], Q)
  <2>1. CASE order[i] \notin P
    <3>1. Yielded(order[i], P)
      BY <1>14, <2>1 DEF PlanUpTo
    <3>2. P \ Incumbents \subseteq Q
      BY <1>8 DEF Turn
    <3>3. QED
      BY <3>1, <3>2 DEF Yielded
  <2>2. CASE order[i] \in P
    BY <1>6, <1>12, <1>14, <2>2 DEF Yielded
  <2>3. QED
    BY <2>1, <2>2
<1>15. ASSUME g \in Incumbents \ Q
       PROVE  Yielded(g, Q)
  <2>1. P \subseteq Rivals(g)
    <3>1. \A x \in P : x \in Incumbents /\ rankOf(x) >= rankOf(g)
      BY <1>7, <1>15 DEF PlanUpTo
    <3>2. QED
      BY <1>3, <3>1 DEF Rivals
  <2>2. IsFiniteSet(Rivals(g))
    BY <1>5, FS_Subset DEF Rivals
  <2>3. ~CanTake(g, P)
    BY <1>11, <1>15
  <2>4. QED
    BY <2>1, <2>2, <2>3, NoRoomInMore DEF Yielded
<1>16. ASSUME PerUserMax = 0, AgingCap < 1000, NEW i \in 1 .. n + 1, order[i] \notin Q,
              NEW x \in Q
       PROVE  rankOf(x) >= rankOf(order[i])
  <2>1. \A y \in P : y \in Incumbents \/ rankOf(y) >= rankOf(g)
    BY <1>7, <1>16 DEF PlanUpTo
  <2>2. CASE order[i] = g
    <3>1. Q = P /\ ~CanTake(g, P)
      BY <1>11, <1>16, <2>2
    <3>2. CASE g \in Incumbents
      BY <1>7, <1>16, <2>2, <3>1, <3>2 DEF PlanUpTo
    <3>3. CASE g \notin Incumbents
      <4>1. \A v \in P \cap Incumbents : rankOf(v) >= rankOf(g)
        BY <1>8, <1>3, <1>16, <3>1, <3>3 DEF Turn, underPerUser
      <4>2. QED
        BY <1>16, <2>1, <2>2, <3>1, <4>1
    <3>4. QED
      BY <3>2, <3>3
  <2>3. CASE i \in 1 .. n /\ order[i] \notin P
    <3>1. \A y \in P : rankOf(y) >= rankOf(order[i])
      BY <1>16, <2>3 DEF PlanUpTo
    <3>2. CASE x \in P
      BY <3>1, <3>2
    <3>3. CASE x \notin P
      <4>1. x = g
        BY <1>8, <1>16, <3>3 DEF Turn
      <4>2. ~CanTake(order[i], P)
        BY <2>3 DEF PlanUpTo
      <4>3. ~CanTake(g, P)
        BY <1>16, <4>2 DEF CanTake, underPerUser
      <4>4. PICK v \in P : rankOf(v) < rankOf(g)
        BY <1>8, <1>16, <3>3, <4>3 DEF Turn
      <4>5. QED
        BY <1>2, <1>3, <1>6, <2>3, <3>1, <4>1, <4>4
    <3>4. QED
      BY <3>2, <3>3
  <2>4. CASE i \in 1 .. n /\ order[i] \in P
    <3>1. x \in P \/ x = g
      BY <1>8, <1>16 DEF Turn
    <3>2. /\ rankOf(order[i]) < rankOf(g)
          /\ \A y \in P \cap Incumbents : rankOf(order[i]) <= rankOf(y)
      BY <1>12, <1>16, <2>4
    <3>3. QED
      BY <1>2, <1>3, <1>6, <2>1, <2>4, <3>1, <3>2
  <2>5. QED
    BY <1>2, <2>2, <2>3, <2>4 DEF g
<1>17. QED
  BY <1>2, <1>3, <1>9, <1>10, <1>11, <1>13, <1>14, <1>15, <1>16 DEF PlanUpTo, g

LEMMA FullerForUser ==
    ASSUME NEW Q, IsFiniteSet(Q), NEW P \in SUBSET Q, NEW u, ~underPerUser(u, P)
    PROVE  ~underPerUser(u, Q)
<1>1. IsFiniteSet(OfUser(u, Q)) /\ OfUser(u, P) \in SUBSET OfUser(u, Q)
  BY FS_Subset DEF OfUser
<1>2. /\ Cardinality(OfUser(u, P)) <= Cardinality(OfUser(u, Q))
      /\ Cardinality(OfUser(u, P)) \in Nat /\ Cardinality(OfUser(u, Q)) \in Nat
  BY <1>1, FS_Subset, FS_CardinalityType
<1>3. QED
  BY <1>2, LimitsOfSlots DEF underPerUser

LEMMA TurnServes ==
    ASSUME TypeOK, NEW order, InTurn(order), NEW n \in 0 .. Len(order) - 1,
           NEW P, PlanUpTo(order, P, n), ServedUpTo(order, P, n),
           NEW Q, Turn(P, order[n + 1], Q)
    PROVE  ServedUpTo(order, Q, n + 1)
<1> DEFINE g == order[n + 1]
<1>1. /\ n \in Nat /\ n + 1 \in 1 .. Len(order)
      /\ \A i \in 1 .. n + 1 : i \in 1 .. n \/ i = n + 1
  BY DEF InTurn
<1>2. /\ g \in Groups /\ g \notin P /\ P \subseteq Groups
      /\ \A i \in 1 .. n : order[i] \in Groups /\ order[i] # g
  <2>1. g \in Groups /\ \A i \in 1 .. n : order[i] \in Groups /\ order[i] # g
    BY <1>1 DEF InTurn
  <2>2. QED
    BY <2>1 DEF PlanUpTo
<1>3. /\ IsFiniteSet(P) /\ IsFiniteSet(Incumbents) /\ Incumbents \subseteq Groups
      /\ \A x \in Groups : rankOf(x) \in Nat
  BY <1>2, GroupsApart, FS_Subset, IncumbentsFinite, RepresentativeIn
<1> HIDE DEF g
<1>4. Turn(P, g, Q) /\ g = order[n + 1]
  BY DEF g
<1>5. P \subseteq Q \cup Incumbents /\ IsFiniteSet(Q \cup Incumbents)
  <2>1. P \subseteq Q \cup Incumbents /\ Q \cup Incumbents \subseteq Groups
    BY <1>2, <1>3, <1>4 DEF Turn
  <2>2. QED
    BY <2>1, GroupsApart, FS_Subset
<1>6. \A u : ~underPerUser(u, P \cup Incumbents) => ~underPerUser(u, Q \cup Incumbents)
  BY <1>5, FullerForUser
<1>7. ASSUME NEW i \in 1 .. n, order[i] \notin Q \cup Incumbents
      PROVE  PassedOver(order, Q, n + 1, i)
  <2>1. PassedOver(order, P, n, i)
    BY <1>5, <1>7 DEF ServedUpTo
  <2>2. SUFFICES ASSUME ~hasGlobalRoom(P),
                        \A v \in P \cap Incumbents : rankOf(v) >= rankOf(order[i]),
                        \A j \in 1 .. n : i < j /\ order[j] \in P =>
                            rankOf(order[j]) > rankOf(order[i])
                 PROVE  PassedOver(order, Q, n + 1, i)
    BY <1>6, <2>1 DEF PassedOver
  <2>3. g \notin Incumbents
    BY <1>1, <1>4, <1>7 DEF InTurn
  <2>4. Q \cap Incumbents \subseteq P /\ Q \subseteq P \cup {g}
    BY <1>4, <2>3 DEF Turn
  <2>5. ~hasGlobalRoom(Q)
    <3>1. Q = P \/ \E v \in P : Q = (P \ {v}) \cup {g}
      BY <1>4, <2>2 DEF Turn, CanTake
    <3>2. Cardinality(Q) = Cardinality(P)
      BY <1>2, <1>3, <3>1, Swapped
    <3>3. QED
      BY <2>2, <3>2 DEF hasGlobalRoom
  <2>6. g \in Q => rankOf(g) > rankOf(order[i])
    <3>1. ASSUME g \in Q
          PROVE  \E v \in P \cap Incumbents : rankOf(v) < rankOf(g)
      BY <1>2, <1>4, <2>2, <3>1 DEF Turn, CanTake
    <3>2. QED
      BY <1>2, <1>3, <2>2, <3>1
  <2>7. QED
    BY <1>1, <1>4, <2>2, <2>4, <2>5, <2>6 DEF PassedOver
<1>8. ASSUME g \notin Q \cup Incumbents
      PROVE  PassedOver(order, Q, n + 1, n + 1)
  <2>1. /\ Q = P /\ ~CanTake(g, P)
        /\ ~underPerUser(groupUser(g), P) \/ \A v \in P \cap Incumbents : rankOf(v) >= rankOf(g)
    BY <1>4, <1>8 DEF Turn
  <2>2. CASE ~underPerUser(groupUser(g), P)
    BY <1>4, <1>5, <2>2, FullerForUser DEF PassedOver
  <2>3. CASE underPerUser(groupUser(g), P)
    <3>1. /\ ~hasGlobalRoom(Q)
          /\ \A v \in Q \cap Incumbents : rankOf(v) >= rankOf(g)
      BY <2>1, <2>3 DEF CanTake
    <3>2. \A j \in 1 .. n + 1 : ~(n + 1 < j)
      BY <1>1
    <3>3. QED
      BY <1>4, <3>1, <3>2 DEF PassedOver
  <2>4. QED
    BY <2>2, <2>3
<1>9. QED
  BY <1>1, <1>4, <1>7, <1>8 DEF ServedUpTo

-----------------------------------------------------------------------------
(* What fill computes is what the turns lead to.                            *)

EachConsiders(A, g) == {consider(active, g) : active \in A}

Fills(f, order, m) ==
    /\ f[0] = {<<>>}
    /\ \A n \in 0 .. m - 1 : f[n + 1] = EachConsiders(f[n], order[n + 1])

LEMMA FillUnfolded ==
    ASSUME NEW order, Len(order) \in Nat
    PROVE  \E f : Fills(f, order, Len(order)) /\ fill(order) = f[Len(order)]
<1> DEFINE N == Len(order)
           S == {m \in 0 .. N : \E f : f = [n \in 0 .. m |-> f[n]] /\ Fills(f, order, m)}
<1>1. 0 \in S
  <2> DEFINE f == [n \in 0 .. 0 |-> {<<>>}]
  <2>1. f = [n \in 0 .. 0 |-> f[n]] /\ Fills(f, order, 0)
    BY DEF Fills
  <2>2. QED
    BY <2>1
<1>2. ASSUME NEW m \in 0 .. N - 1, m \in S
      PROVE  m + 1 \in S
  <2>1. PICK f : f = [n \in 0 .. m |-> f[n]] /\ Fills(f, order, m)
    BY <1>2
  <2> DEFINE h == [n \in 0 .. m + 1 |->
                     IF n <= m THEN f[n] ELSE EachConsiders(f[m], order[m + 1])]
  <2>2. \A n \in 0 .. m + 1 : h[n] = IF n <= m THEN f[n] ELSE EachConsiders(f[m], order[m + 1])
    OBVIOUS
  <2>3. h = [n \in 0 .. m + 1 |-> h[n]]
    OBVIOUS
  <2> HIDE DEF h
  <2>4. h[0] = {<<>>}
    <3>1. m \in Nat /\ 0 \in 0 .. m + 1 /\ 0 <= m
      OBVIOUS
    <3>2. h[0] = f[0]
      BY <2>2, <3>1
    <3>3. QED
      BY <2>1, <3>2 DEF Fills
  <2>5. ASSUME NEW n \in 0 .. m
        PROVE  h[n + 1] = EachConsiders(h[n], order[n + 1])
    <3>1. CASE n = m
      BY <2>2, <3>1
    <3>2. CASE n # m
      <4>1. n \in 0 .. m - 1 /\ h[n] = f[n] /\ h[n + 1] = f[n + 1]
        BY <2>2, <3>2
      <4>2. QED
        BY <2>1, <4>1 DEF Fills
    <3>3. QED
      BY <3>1, <3>2
  <2>6. Fills(h, order, m + 1)
    BY <2>4, <2>5 DEF Fills
  <2>7. QED
    BY <2>3, <2>6
<1>3. N \in S
  <2> HIDE DEF S
  <2>1. S \in SUBSET (0 .. N)
    BY DEF S
  <2>2. QED
    BY <1>1, <1>2, <2>1, UpTo
<1>4. PICK f : f = [n \in 0 .. N |-> f[n]] /\ Fills(f, order, N)
  BY <1>3
<1>5. \A n \in 0 .. N : f[n] = IF n = 0 THEN {<<>>} ELSE EachConsiders(f[n - 1], order[n])
  <2>1. SUFFICES ASSUME NEW n \in 0 .. N, n # 0
                 PROVE  f[n] = EachConsiders(f[n - 1], order[n])
    BY <1>4 DEF Fills
  <2>2. n - 1 \in 0 .. N - 1 /\ (n - 1) + 1 = n
    BY <2>1
  <2>3. f[(n - 1) + 1] = EachConsiders(f[n - 1], order[(n - 1) + 1])
    BY <1>4, <2>2 DEF Fills
  <2>4. QED
    BY <2>2, <2>3
<1>6. f = [n \in 0 .. N |-> IF n = 0 THEN {<<>>} ELSE EachConsiders(f[n - 1], order[n])]
  BY <1>4, <1>5
<1>7. PICK g : /\ g = [n \in 0 .. Len(order) |->
                        IF n = 0 THEN {<<>>} ELSE EachConsiders(g[n - 1], order[n])]
               /\ fill(order) = g[Len(order)]
  BY <1>6 DEF fill, EachConsiders
<1>8. Fills(g, order, N)
  <2>1. \A n \in 0 .. N : g[n] = IF n = 0 THEN {<<>>} ELSE EachConsiders(g[n - 1], order[n])
    BY <1>7
  <2>2. ASSUME NEW n \in 0 .. N - 1
        PROVE  g[n + 1] = EachConsiders(g[n], order[n + 1])
    <3>1. n + 1 \in 0 .. N /\ n + 1 # 0 /\ (n + 1) - 1 = n
      OBVIOUS
    <3>2. g[n + 1] = EachConsiders(g[(n + 1) - 1], order[n + 1])
      BY <2>1, <3>1
    <3>3. QED
      BY <3>1, <3>2
  <2>3. QED
    BY <2>1, <2>2 DEF Fills
<1>9. QED
  BY <1>7, <1>8

LEMMA PlanFilled ==
    ASSUME TypeOK, NEW plan \in schedulePlans
    PROVE  \E order : InTurn(order) /\ PlanUpTo(order, plan, Len(order))
                                    /\ ServedUpTo(order, plan, Len(order))
<1>1. PICK order, active : InTurn(order) /\ active \in fill(order) /\ plan = ToSet(active)
  <2>1. PICK order \in Turns : \E active \in fill(order) : plan = ToSet(active)
    BY DEF schedulePlans
  <2>2. PICK I \in IncumbentOrders : order = I \o WaitingOrder
    BY DEF Turns
  <2>3. QED
    BY <2>1, <2>2, GroupsInTurn
<1> DEFINE N == Len(order)
<1>3. N \in Nat
  BY <1>1 DEF InTurn
<1>4. PICK f : Fills(f, order, N) /\ fill(order) = f[N]
  BY <1>3, FillUnfolded
<1> DEFINE Plans(n) == \A a \in f[n] : /\ a \in Seq(Groups) /\ Once(a)
                                       /\ PlanUpTo(order, ToSet(a), n)
                                       /\ ServedUpTo(order, ToSet(a), n)
           S == {n \in 0 .. N : Plans(n)}
<1>5. Plans(0)
  <2>1. f[0] = {<<>>} /\ <<>> \in Seq(Groups) /\ Len(<<>>) = 0
    BY <1>4 DEF Fills
  <2>2. ToSet(<<>>) = {}
    <3>1. ASSUME NEW e \in Seq(Groups), Len(e) = 0
          PROVE  ToSet(e) = {}
      <4>1. ToSet(e) = {e[i] : i \in 1 .. Len(e)}
        BY MembersOf
      <4>2. 1 .. Len(e) = {}
        BY <3>1
      <4>3. QED
        BY <4>1, <4>2
    <3>2. QED
      BY <2>1, <3>1
  <2>3. WithinLimits({})
    <3>1. Cardinality({}) = 0
      BY FS_EmptySet
    <3>2. QED
      BY <3>1, LimitsOfSlots DEF WithinLimits
  <2>4. Once(<<>>)
    BY <2>1 DEF Once
  <2>5. PlanUpTo(order, {}, 0) /\ ServedUpTo(order, {}, 0)
    BY <2>3 DEF PlanUpTo, ServedUpTo
  <2>6. QED
    BY <2>1, <2>2, <2>4, <2>5
<1>6. ASSUME NEW n \in 0 .. N - 1, Plans(n)
      PROVE  Plans(n + 1)
  <2> DEFINE g == order[n + 1]
  <2>1. SUFFICES ASSUME NEW a \in f[n], NEW b, b = consider(a, g)
                 PROVE  /\ b \in Seq(Groups) /\ Once(b)
                        /\ PlanUpTo(order, ToSet(b), n + 1)
                        /\ ServedUpTo(order, ToSet(b), n + 1)
    BY <1>4 DEF Fills, EachConsiders
  <2> DEFINE P == ToSet(a)
             Q == ToSet(b)
  <2>2. /\ a \in Seq(Groups) /\ Once(a)
        /\ PlanUpTo(order, P, n) /\ ServedUpTo(order, P, n)
    BY <1>6
  <2>3. g \in Groups /\ n \in Nat
    BY <1>1, <1>3 DEF InTurn
  <2>4. g \notin P
    <3>1. \A i \in 1 .. n : order[i] # g
      BY <1>1, <1>3, <2>3 DEF InTurn
    <3>2. QED
      BY <2>2, <3>1 DEF PlanUpTo
  <2>5. b \in Seq(Groups) /\ Once(b) /\ Turn(P, g, Q)
    BY <2>1, <2>2, <2>3, <2>4, Considered
  <2>6. PlanUpTo(order, Q, n + 1) /\ ServedUpTo(order, Q, n + 1)
    BY <1>1, <2>2, <2>5, TurnKeepsPlan, TurnServes
  <2>7. QED
    BY <2>5, <2>6
<1> HIDE DEF Plans
<1>7. N \in S
  <2>1. S \in SUBSET (0 .. N)
    OBVIOUS
  <2>2. 0 \in S /\ \A n \in 0 .. N - 1 : n \in S => n + 1 \in S
    BY <1>3, <1>5, <1>6
  <2> HIDE DEF S
  <2>3. QED
    BY <1>3, <2>1, <2>2, UpTo
<1>8. PlanUpTo(order, plan, N) /\ ServedUpTo(order, plan, N)
  BY <1>1, <1>4, <1>7 DEF Plans
<1>9. QED
  BY <1>1, <1>8

(* What is left out of the plan has no room; without a limit of users, and  *)
(* with a bonus worth less than a priority, it is not stronger than what is *)
(* in it.                                                                    *)
LEMMA PlanOfQueue ==
    ASSUME TypeOK, NEW plan \in schedulePlans
    PROVE  /\ plan \subseteq Groups /\ WithinLimits(plan)
           /\ \A g \in Groups \ plan : ~CanTake(g, plan)
           /\ \A g \in Incumbents \ plan : Yielded(g, plan)
           /\ ServedInOrder(plan)
           /\ PerUserMax = 0 /\ AgingCap < 1000 =>
                \A g \in Groups \ plan :
                    \A x \in plan : rankOf(x) >= rankOf(g)
<1>1. PICK order : /\ InTurn(order) /\ PlanUpTo(order, plan, Len(order))
                   /\ ServedUpTo(order, plan, Len(order))
  BY PlanFilled
<1>2. /\ \A g \in Groups : \E i \in 1 .. Len(order) : order[i] = g
      /\ \A i \in 1 .. Len(order) : order[i] \in Groups
      /\ Len(order) \in Nat
  BY <1>1 DEF InTurn
<1>3. Incumbents \subseteq Groups /\ Waiting = Groups \ Incumbents
  BY DEF Incumbents, Waiting, Groups
<1>4. ASSUME NEW g \in Waiting \ plan, NEW h \in Waiting \cap plan,
             promotionLess(representative(g), representative(h))
      PROVE  \/ rankOf(h) > rankOf(g)
             \/ ~underPerUser(groupUser(g), plan \cup Incumbents)
  <2>1. PICK i \in 1 .. Len(order), j \in 1 .. Len(order) : order[i] = g /\ order[j] = h
    BY <1>2, <1>3
  <2>2. ~promotionLess(representative(h), representative(g)) /\ i # j
    <3>1. representative(g) \in Schedulable /\ representative(h) \in Schedulable
      BY <1>3, RepresentativeIn, GroupsApart
    <3>2. QED
      BY <1>4, <2>1, <3>1, PromotionOrders
  <2>3. i < j
    <3>1. ~(j < i)
      BY <1>1, <1>3, <2>1, <2>2 DEF InTurn
    <3>2. QED
      BY <1>2, <2>2, <3>1
  <2>4. PassedOver(order, plan, Len(order), i)
    BY <1>1, <1>3, <2>1 DEF ServedUpTo
  <2>5. QED
    BY <2>1, <2>3, <2>4 DEF PassedOver
<1>5. ServedInOrder(plan)
  BY <1>4 DEF ServedInOrder
<1>6. QED
  BY <1>1, <1>2, <1>3, <1>5 DEF PlanUpTo

LEMMA RoomAmongPlanned ==
    ASSUME NEW P, IsFiniteSet(P), WithinLimits(P), NEW g \in P, NEW Q \in SUBSET (P \ {g})
    PROVE  CanTake(g, Q)
<1> DEFINE u == groupUser(g)
<1>1. /\ IsFiniteSet(P \ {g}) /\ Cardinality(P \ {g}) = Cardinality(P) - 1
      /\ Cardinality(P) \in Nat /\ Cardinality(P) <= MaxActive
  BY FS_RemoveElement, FS_CardinalityType DEF WithinLimits
<1>2. Cardinality(Q) <= Cardinality(P \ {g}) /\ IsFiniteSet(Q) /\ Cardinality(Q) \in Nat
  BY <1>1, FS_Subset, FS_CardinalityType
<1>3. hasGlobalRoom(Q)
  BY <1>1, <1>2, LimitsOfSlots DEF hasGlobalRoom
<1>4. ASSUME PerUserMax # 0
      PROVE  Cardinality(OfUser(u, Q)) < PerUserMax
  <2>1. IsFiniteSet(OfUser(u, P)) /\ g \in OfUser(u, P)
    BY FS_Subset DEF OfUser
  <2>2. /\ IsFiniteSet(OfUser(u, P) \ {g})
        /\ Cardinality(OfUser(u, P) \ {g}) = Cardinality(OfUser(u, P)) - 1
        /\ Cardinality(OfUser(u, P)) \in Nat
    BY <2>1, FS_RemoveElement, FS_CardinalityType
  <2>3. OfUser(u, Q) \subseteq OfUser(u, P) \ {g}
    BY DEF OfUser
  <2>4. /\ Cardinality(OfUser(u, Q)) <= Cardinality(OfUser(u, P) \ {g})
        /\ Cardinality(OfUser(u, Q)) \in Nat
    BY <2>2, <2>3, FS_Subset, FS_CardinalityType
  <2>5. Cardinality(OfUser(u, P)) <= PerUserMax
    BY <1>4 DEF WithinLimits
  <2>6. QED
    BY <2>2, <2>4, <2>5, LimitsOfSlots
<1>5. QED
  BY <1>3, <1>4 DEF CanTake, underPerUser

LEMMA PlanIsAdmissible ==
    ASSUME TypeOK
    PROVE  PlanAdmissible
<1> DEFINE rank == [g \in Groups |-> rankOf(g)]
<1>1. Incumbents \subseteq Groups /\ \A g \in Groups : rank[g] = rankOf(g)
  BY IncumbentsFinite
<1> HIDE DEF rank
<1>2. ASSUME NEW plan \in schedulePlans
      PROVE  AdmissiblePlan(Groups, Incumbents, plan, rank) /\ ServedInOrder(plan)
  <2>1. ASSUME NEW g \in Incumbents \ plan
        PROVE  \/ \E w \in plan \ Incumbents : rank[w] > rank[g]
               \/ ~CanTake(g, {h \in Incumbents \ {g} : rank[h] >= rank[g]})
    <3>1. Yielded(g, plan) /\ plan \subseteq Groups
      BY PlanOfQueue
    <3>2. Rivals(g) = {h \in Incumbents \ {g} : rank[h] >= rank[g]}
      BY <1>1 DEF Rivals
    <3>3. QED
      BY <1>1, <3>1, <3>2 DEF Yielded
  <2>2. QED
    BY <2>1, PlanOfQueue DEF AdmissiblePlan, WorkConserving, IncumbentsYieldOnlyToStronger
<1>3. QED
  BY <1>2 DEF PlanAdmissible, Groups, rank

-----------------------------------------------------------------------------
(* The line of the queue: one row is before the other, whoever goes to its  *)
(* end or leaves it.                                                         *)

Lines(R, S) == R \subseteq S \X S /\ Orders(R, S)

LEMMA LineOfType ==
    TypeOK <=>
      /\ status \in [Rows -> {"absent", "queued", "downloading"}]
      /\ priority \in [Rows -> Ranks]
      /\ stalls \in [Rows -> 0 .. MaxStalls] /\ rescues \in 0 .. MaxRescues
      /\ aged \subseteq Having("queued")
      /\ Lines(older, Schedulable)
BY DEF TypeOK, Lines, Orders, waitsLonger

LEMMA LineOfNextType ==
    ASSUME status' \in [Rows -> {"absent", "queued", "downloading"}],
           priority' \in [Rows -> Ranks], stalls' \in [Rows -> 0 .. MaxStalls],
           rescues' \in 0 .. MaxRescues,
           aged' \subseteq Having("queued")', Lines(older', Schedulable')
    PROVE  TypeOK'
BY DEF TypeOK, Lines, Orders, waitsLonger

LEMMA LineWithout ==
    ASSUME TypeOK, NEW S
    PROVE  Lines(Without(S), Schedulable \ S)
<1>1. Lines(older, Schedulable) /\ Schedulable \subseteq Rows
  BY LineOfType DEF Schedulable, Having
<1>2. Without(S) \subseteq (Schedulable \ S) \X (Schedulable \ S)
  BY <1>1 DEF Without, Lines
<1>3. \A a, b \in Schedulable \ S : <<a, b>> \in Without(S) <=> <<a, b>> \in older
  BY <1>1 DEF Without
<1>4. QED
  BY <1>1, <1>2, <1>3 DEF Lines, Orders

LEMMA LineToEnd ==
    ASSUME TypeOK, NEW S \in SUBSET Rows
    PROVE  Lines(ToEnd(S), Schedulable \cup S)
<1> DEFINE T == Schedulable \cup S
<1>1. Lines(Without(S), Schedulable \ S)
  BY LineWithout
<1>2. \A r \in S : IdOf[r] \in Nat
  BY IdsAreDistinct
<1>3. \A r, s \in S : IdOf[r] = IdOf[s] => r = s
  BY IdsAreDistinct
<1>4. ToEnd(S) \subseteq T \X T
  BY <1>1 DEF ToEnd, ById, Lines
<1>5. \A a, b \in T : <<a, b>> \in ToEnd(S) <=>
        \/ a \notin S /\ b \notin S /\ <<a, b>> \in Without(S)
        \/ a \notin S /\ b \in S
        \/ a \in S /\ b \in S /\ IdOf[a] < IdOf[b]
  BY <1>1 DEF ToEnd, ById, Lines
<1> HIDE DEF T
<1>6. \A a, b \in T : <<a, b>> \in ToEnd(S) => <<b, a>> \notin ToEnd(S)
  BY <1>1, <1>2, <1>5 DEF Lines, Orders, T
<1>7. ASSUME NEW a \in T, NEW b \in T, a # b
      PROVE  <<a, b>> \in ToEnd(S) \/ <<b, a>> \in ToEnd(S)
  <2>1. CASE a \in S /\ b \in S
    <3>1. IdOf[a] < IdOf[b] \/ IdOf[b] < IdOf[a]
      BY <1>2, <1>3, <1>7, <2>1
    <3>2. QED
      BY <1>5, <2>1, <3>1
  <2>2. CASE a \notin S /\ b \notin S
    BY <1>1, <1>5, <1>7, <2>2 DEF Lines, Orders, T
  <2>3. CASE (a \in S) # (b \in S)
    BY <1>5, <2>3
  <2>4. QED
    BY <2>1, <2>2, <2>3
<1>8. ASSUME NEW a \in T, NEW b \in T, NEW c \in T, <<a, b>> \in ToEnd(S), <<b, c>> \in ToEnd(S)
      PROVE  <<a, c>> \in ToEnd(S)
  <2>1. CASE c \notin S
    BY <1>1, <1>5, <1>8, <2>1 DEF Lines, Orders, T
  <2>2. CASE c \in S /\ b \in S
    BY <1>2, <1>5, <1>8, <2>2
  <2>3. CASE c \in S /\ b \notin S
    BY <1>5, <1>8, <2>3
  <2>4. QED
    BY <2>1, <2>2, <2>3
<1>9. QED
  BY <1>4, <1>6, <1>7, <1>8 DEF Lines, Orders, T

(* The rows of a plan are among those that may be downloaded.               *)
LEMMA PlanRows ==
    ASSUME TypeOK, NEW plan \in schedulePlans
    PROVE  UNION plan \subseteq Schedulable
BY PlanOfQueue, GroupsApart

LEMMA TypeStep ==
    ASSUME TypeOK, [Next]_vars
    PROVE  TypeOK'
<1> USE LineOfNextType
<1>0. /\ status \in [Rows -> {"absent", "queued", "downloading"}]
      /\ priority \in [Rows -> Ranks] /\ stalls \in [Rows -> 0 .. MaxStalls]
      /\ rescues \in 0 .. MaxRescues
      /\ aged \subseteq Having("queued") /\ Lines(older, Schedulable)
  BY LineOfType
<1>1. ASSUME NEW r \in Rows, Enqueue(r)
      PROVE  TypeOK'
  <2>1. Schedulable' = Schedulable \cup {r} /\ aged' \subseteq Having("queued")'
    BY <1>0, <1>1 DEF Enqueue, Schedulable, Having
  <2>2. Lines(older', Schedulable')
    BY <1>1, <2>1, LineToEnd DEF Enqueue
  <2>3. QED
    BY <1>0, <1>1, <2>1, <2>2 DEF Enqueue
<1>2. ASSUME NEW r \in Rows, Leave(r)
      PROVE  TypeOK'
  <2>1. Schedulable' = Schedulable \ {r} /\ aged' \subseteq Having("queued")'
    BY <1>0, <1>2 DEF Leave, Schedulable, Having
  <2>2. Lines(older', Schedulable')
    BY <1>2, <2>1, LineWithout DEF Leave
  <2>3. QED
    BY <1>0, <1>2, <2>1, <2>2 DEF Leave
<1>3. ASSUME NEW r \in Rows, Age(r)
      PROVE  TypeOK'
  <2>1. Schedulable' = Schedulable /\ aged' \subseteq Having("queued")'
    BY <1>0, <1>3 DEF Age, Schedulable, Having
  <2>2. QED
    BY <1>0, <1>3, <2>1 DEF Age
<1>4. ASSUME NEW r \in Rows, SetPriority(r)
      PROVE  TypeOK'
  <2>1. Schedulable' = Schedulable /\ aged' \subseteq Having("queued")'
    BY <1>0, <1>4 DEF SetPriority, Schedulable, Having
  <2>2. QED
    BY <1>0, <1>4, <2>1 DEF SetPriority
<1>5. ASSUME NEW g \in Incumbents, Demote(g)
      PROVE  TypeOK'
  <2> DEFINE D == g \cap Having("downloading")
  <2>1. D \subseteq Schedulable /\ D \subseteq Rows
    BY DEF Schedulable, Having
  <2>2. /\ status' = [r \in Rows |-> IF r \in D THEN "queued" ELSE status[r]]
        /\ stalls' = [r \in Rows |-> IF r \in D THEN stalls[r] + 1 ELSE stalls[r]]
        /\ older' = ToEnd(D) /\ priority' = priority /\ aged' = aged /\ rescues' = rescues
        /\ \A r \in D : stalls[r] < MaxStalls
    BY <1>5 DEF Demote
  <2> HIDE DEF D
  <2>3. /\ status' \in [Rows -> {"absent", "queued", "downloading"}]
        /\ Schedulable' = Schedulable \cup D /\ Having("queued") \subseteq Having("queued")'
    BY <1>0, <2>1, <2>2 DEF Schedulable, Having
  <2>4. stalls' \in [Rows -> 0 .. MaxStalls]
    BY <1>0, <2>2, QueueNumbers
  <2>5. Lines(older', Schedulable')
    BY <2>1, <2>2, <2>3, LineToEnd
  <2>6. QED
    BY <1>0, <2>2, <2>3, <2>4, <2>5
<1>6. CASE applySchedule
  <2>0. PICK plan \in schedulePlans :
          /\ status' = [r \in Rows |-> IF r \in UNION plan THEN "downloading"
                                       ELSE IF r \in Preempted(plan) THEN "queued" ELSE status[r]]
          /\ older' = ToEnd(Preempted(plan)) /\ aged' = aged \ UNION plan
    BY <1>6 DEF applySchedule
  <2> DEFINE U == UNION plan
             D == Preempted(plan)
  <2>1. /\ status' = [r \in Rows |-> IF r \in U THEN "downloading"
                                     ELSE IF r \in D THEN "queued" ELSE status[r]]
        /\ older' = ToEnd(D) /\ aged' = aged \ U
        /\ priority' = priority /\ stalls' = stalls /\ rescues' = rescues
    BY <1>6, <2>0 DEF applySchedule
  <2>2. U \subseteq Schedulable /\ D \subseteq Schedulable /\ D \subseteq Rows
    BY PlanRows DEF Preempted, Schedulable, Having
  <2> HIDE DEF U, D
  <2>3. /\ status' \in [Rows -> {"absent", "queued", "downloading"}]
        /\ Schedulable' = Schedulable \cup D /\ aged' \subseteq Having("queued")'
    BY <1>0, <2>1, <2>2 DEF Schedulable, Having
  <2>4. Lines(older', Schedulable')
    BY <2>1, <2>2, <2>3, LineToEnd
  <2>5. QED
    BY <1>0, <2>1, <2>3, <2>4
<1>7. CASE UNCHANGED vars
  <2>1. Schedulable' = Schedulable /\ aged' \subseteq Having("queued")'
    BY <1>0, <1>7 DEF vars, Schedulable, Having
  <2>2. QED
    BY <1>0, <1>7, <2>1 DEF vars
<1>8. ASSUME NEW S \in SUBSET Rows, Rescue(S)
      PROVE  TypeOK'
  <2>1. Schedulable' = Schedulable \cup S /\ aged' \subseteq Having("queued")'
    BY <1>0, <1>8 DEF Rescue, Schedulable, Having
  <2>2. Lines(older', Schedulable')
    BY <1>8, <2>1, LineToEnd DEF Rescue
  <2>3. rescues' \in 0 .. MaxRescues
    BY <1>0, <1>8, QueueNumbers DEF Rescue
  <2>4. QED
    BY <1>0, <1>8, <2>1, <2>2, <2>3 DEF Rescue
<1>9. QED
  BY <1>1, <1>2, <1>3, <1>4, <1>5, <1>6, <1>7, <1>8 DEF Next

LEMMA TypeInit ==
    Init => TypeOK
<1>1. SUFFICES ASSUME Init PROVE TypeOK
  OBVIOUS
<1>2. Schedulable = {} /\ Having("queued") = {}
  BY <1>1 DEF Init, Schedulable, Having
<1>3. QED
  BY <1>1, <1>2, QueueNumbers DEF Init, TypeOK

(* The variables of the queue keep their types, and the rows that may be    *)
(* downloaded stay in one line by age, whoever is promoted, preempted,      *)
(* demoted, rescued, resumed or removed.                                     *)
THEOREM TypesHold == Spec => []TypeOK
<1>1. QED
  BY TypeInit, TypeStep, PTL DEF Spec

LEMMA PlanApplied ==
    ASSUME TypeOK, applySchedule
    PROVE  /\ Schedulable' = Schedulable /\ priority' = priority
           /\ Groups' = Groups /\ \E plan \in schedulePlans : Incumbents' = plan
<1>1. PICK P \in schedulePlans :
        status' = [r \in Rows |-> IF r \in UNION P THEN "downloading"
                                  ELSE IF r \in Preempted(P) THEN "queued" ELSE status[r]]
  BY DEF applySchedule
<1>2. P \subseteq Groups /\ UNION P \subseteq Schedulable
  BY PlanOfQueue, PlanRows
<1>3. /\ Schedulable' = Schedulable /\ priority' = priority
      /\ Having("downloading")' = UNION P
  BY <1>1, <1>2 DEF Preempted, Schedulable, Having, applySchedule
<1>4. Groups' = Groups
  BY <1>3 DEF Groups
<1>5. Incumbents' = P
  <2>1. Incumbents' = {h \in Groups : h \cap UNION P # {}}
    BY <1>3, <1>4 DEF Incumbents, Groups, groupHasDownloading
  <2>2. \A h \in Groups : h \cap UNION P # {} <=> h \in P
    BY <1>2, GroupsApart
  <2>3. QED
    BY <1>2, <2>1, <2>2
<1>6. QED
  BY <1>3, <1>4, <1>5

(* Every schedule of the algorithm is one that SlotPlan admits, and so one  *)
(* that DownloadWorker was checked with, and who waits is served in order,  *)
(* however many groups download when it is made: nothing in the proof       *)
(* counts them, so it holds after a rescue of interrupted moves and after a *)
(* limit was lowered as after a schedule.                                   *)
THEOREM PlansAdmissible == Spec => []PlanAdmissible
<1>1. TypeOK => PlanAdmissible
  BY PlanIsAdmissible
<1>2. QED
  BY <1>1, TypesHold, PTL

-----------------------------------------------------------------------------
(* Two schedules in turn.                                                    *)

QueueFacts ==
    /\ \A g \in Groups : /\ g # {} /\ rankOf(g) \in 1 .. 3
                         /\ \E r \in g : rankOf(g) = priority[r]
                         /\ \A r \in g : priority[r] <= rankOf(g)
    /\ \A plan \in schedulePlans :
         /\ plan \subseteq Groups /\ WithinLimits(plan)
         /\ \A g \in Incumbents \ plan : Yielded(g, plan)
         /\ PerUserMax = 0 /\ AgingCap < 1000 =>
              \A g \in Groups \ plan : \A x \in plan : rankOf(x) >= rankOf(g)

LEMMA FactsOfQueue ==
    TypeOK => QueueFacts
<1>1. SUFFICES ASSUME TypeOK PROVE QueueFacts
  OBVIOUS
<1>2. ASSUME NEW g \in Groups
      PROVE  /\ g # {} /\ rankOf(g) \in 1 .. 3
             /\ \E r \in g : rankOf(g) = priority[r]
             /\ \A r \in g : priority[r] <= rankOf(g)
  <2>1. rankOf(g) = priority[representative(g)]
    BY DEF rankOf
  <2>2. QED
    BY <1>1, <2>1, RepresentativeIn
<1>3. QED
  BY <1>1, <1>2, PlanOfQueue DEF QueueFacts

LEMMA FactsOfNextQueue ==
    TypeOK' => QueueFacts'
BY FactsOfQueue, PTL

(* P is the plan that is applied, Q what the next schedule may be.          *)
LEMMA ScheduledTwice ==
    ASSUME TypeOK, TypeOK', applySchedule,
           NEW Q \in schedulePlans', NEW g \in Incumbents' \ Q
    PROVE  /\ \E w \in Q \ Incumbents' : rankOf(w)' > rankOf(g)'
           /\ PerUserMax > 0 \/ AgingCap >= 1000
<1>1. QueueFacts /\ QueueFacts'
  BY FactsOfQueue, FactsOfNextQueue
<1>2. PICK P \in schedulePlans :
        /\ Schedulable' = Schedulable /\ priority' = priority
        /\ Groups' = Groups /\ Incumbents' = P
  BY PlanApplied
<1>3. P \subseteq Groups /\ WithinLimits(P) /\ IsFiniteSet(P)
  BY <1>1, GroupsApart, FS_Subset DEF QueueFacts
<1>4. \A h \in Groups : rankOf(h)' = rankOf(h)
  <2>1. SUFFICES ASSUME NEW h \in Groups PROVE rankOf(h)' = rankOf(h)
    OBVIOUS
  <2>2. /\ rankOf(h) \in 1 .. 3 /\ \E r \in h : rankOf(h) = priority[r]
        /\ \A r \in h : priority[r] <= rankOf(h)
    BY <1>1 DEF QueueFacts
  <2>3. /\ rankOf(h)' \in 1 .. 3 /\ \E r \in h : rankOf(h)' = priority'[r]
        /\ \A r \in h : priority'[r] <= rankOf(h)'
    BY <1>1, <1>2 DEF QueueFacts
  <2>4. rankOf(h)' <= rankOf(h) /\ rankOf(h) <= rankOf(h)'
    BY <1>2, <2>2, <2>3
  <2>5. QED
    BY <2>2, <2>3, <2>4
<1>5. g \in P /\ g \in Groups /\ g \notin Q
  BY <1>2, <1>3
<1>6. Q \subseteq Groups /\ Yielded(g, Q)'
  BY <1>1, <1>2, <1>5 DEF QueueFacts
<1>7. PICK w \in Q \ P : rankOf(w)' > rankOf(g)'
  <2>1. \/ \E w \in Q \ Incumbents' : rankOf(w)' > rankOf(g)'
        \/ ~CanTake(g, Rivals(g)')
    BY <1>6 DEF Yielded
  <2>2. Rivals(g)' \in SUBSET (P \ {g})
    BY <1>2 DEF Rivals
  <2>3. CanTake(g, Rivals(g)')
    BY <1>3, <1>5, <2>2, RoomAmongPlanned
  <2>4. QED
    BY <1>2, <2>1, <2>3
<1>8. PerUserMax > 0 \/ AgingCap >= 1000
  <2>1. SUFFICES ASSUME PerUserMax = 0, AgingCap < 1000 PROVE FALSE
    BY LimitsOfSlots, QueueNumbers
  <2>2. w \in Groups
    BY <1>6, <1>7
  <2>3. rankOf(g) >= rankOf(w)
    BY <1>1, <1>5, <1>7, <2>1, <2>2 DEF QueueFacts
  <2>4. rankOf(g) \in 1 .. 3 /\ rankOf(w) \in 1 .. 3
    BY <1>1, <1>5, <2>2 DEF QueueFacts
  <2>5. rankOf(w) > rankOf(g)
    BY <1>4, <1>5, <1>7, <2>2
  <2>6. QED
    BY <2>3, <2>4, <2>5
<1>9. QED
  BY <1>2, <1>7, <1>8

(* Of what a schedule leaves downloading, the next one takes a slot away    *)
(* only for the sake of a strictly higher priority, and not at all without  *)
(* a limit of users and with a bonus worth less than a priority.            *)
THEOREM SchedulesDoNotThrash == Spec => NoThrash
<1> DEFINE Shift == /\ Schedulable' = Schedulable /\ stalls' = stalls
                    /\ Having("downloading")' # Having("downloading")
           Calm  == \A plan \in schedulePlans' : \A g \in Incumbents' \ plan :
                       /\ \E w \in plan \ Incumbents' : rankOf(w)' > rankOf(g)'
                       /\ PerUserMax > 0 \/ AgingCap >= 1000
<1>1. TypeOK /\ TypeOK' /\ [Next]_vars => [Shift => Calm]_vars
  <2>1. SUFFICES ASSUME TypeOK, TypeOK', [Next]_vars, Shift PROVE Calm
    OBVIOUS
  <2>2. applySchedule
    <3>1. ASSUME NEW r \in Rows, Enqueue(r) \/ Leave(r)
          PROVE  FALSE
      BY <2>1, <3>1 DEF Enqueue, Leave, Schedulable, Having, TypeOK
    <3>2. ASSUME NEW r \in Rows, Age(r) \/ SetPriority(r)
          PROVE  FALSE
      BY <2>1, <3>2 DEF Age, SetPriority, Having
    <3>3. ASSUME NEW S \in SUBSET Rows \ {{}}, Rescue(S)
          PROVE  FALSE
      BY <2>1, <3>3 DEF Rescue, Schedulable, Having
    <3>4. ASSUME NEW g \in Incumbents, Demote(g)
          PROVE  FALSE
      <4>1. PICK r \in g \cap Having("downloading") : stalls'[r] = stalls[r] + 1 /\ r \in Rows
        BY <3>4 DEF Demote, Having
      <4>2. stalls[r] \in Nat
        BY <2>1, <4>1, QueueNumbers DEF TypeOK
      <4>3. QED
        BY <2>1, <4>1, <4>2
    <3>5. ASSUME UNCHANGED vars
          PROVE  FALSE
      BY <2>1, <3>5 DEF vars, Having
    <3>6. QED
      BY <2>1, <3>1, <3>2, <3>3, <3>4, <3>5 DEF Next
  <2>3. QED
    BY <2>1, <2>2, ScheduledTwice
<1>2. QED
  BY <1>1, TypesHold, PTL DEF Spec, NoThrash

-----------------------------------------------------------------------------
(* The rotation of a stalled torrent's sources.                              *)

SourceStates == {"unknown", "candidate", "active", "cooldown", "rested", "failed"}
Entries      == [at : SourceStates, tries : 0 .. MaxTries]

(* The sources of a row, as long as only those given up have had all tries. *)
Sources(known) ==
    known \in [Releases -> Entries] /\
    \A s \in Releases : known[s].at # "failed" => known[s].tries < MaxTries

(* A source that was given up is as it was.                                  *)
NoneRevived(known, next) ==
    \A s \in Releases : known[s].at = "failed" => next[s] = known[s]

RotationInv ==
    /\ RotationTypeOK
    /\ \A r \in Members :
        /\ Sources(source[r])
        /\ rowStatus[r] \in {"queued", "downloading"} /\ r \notin pausing =>
             stallCount[r] < StallLimit + setbacks
        /\ fetching[r] # NoSource => rowStatus[r] = "downloading"
        /\ r \in pausing => rowStatus[r] = "queued"

LEMMA TriedEntry ==
    ASSUME NEW e \in Entries, e.tries < MaxTries
    PROVE  MarkSourceTried(e) \in Entries
           /\ (MarkSourceTried(e).at # "failed" => MarkSourceTried(e).tries < MaxTries)
BY RotationAssumption DEF MarkSourceTried, Entries, SourceStates

LEMMA SourcesParked ==
    ASSUME NEW r \in Members, Sources(source[r])
    PROVE  Sources(Parked(r)) /\ NoneRevived(source[r], Parked(r))
<1> DEFINE known == IF \A s \in Releases : source[r][s].at = "unknown"
                    THEN EnsureSource(source[r], Original, "active") ELSE source[r]
<1>1. Sources(known) /\ NoneRevived(source[r], known)
  <2>1. CASE \A s \in Releases : source[r][s].at = "unknown"
    <3> DEFINE e == [source[r][Original] EXCEPT !.at = "active"]
    <3>1. known = [source[r] EXCEPT ![Original] = e]
      BY <2>1, RotationAssumption DEF EnsureSource, Sources
    <3>2. e \in Entries /\ e.tries < MaxTries
      BY <2>1, RotationAssumption DEF Sources, Entries, SourceStates
    <3> HIDE DEF e, known
    <3>3. QED
      BY <2>1, <3>1, <3>2 DEF Sources, NoneRevived
  <2>2. CASE ~\A s \in Releases : source[r][s].at = "unknown"
    BY <2>2 DEF NoneRevived
  <2>3. QED
    BY <2>1, <2>2
<1>2. Parked(r) = [s \in Releases |-> IF known[s].at = "active"
                                      THEN MarkSourceTried(known[s]) ELSE known[s]]
  BY DEF Parked
<1> HIDE DEF known
<1>3. \A s \in Releases : known[s].at = "active" =>
        /\ MarkSourceTried(known[s]) \in Entries
        /\ MarkSourceTried(known[s]).at # "failed" => MarkSourceTried(known[s]).tries < MaxTries
  BY <1>1, TriedEntry DEF Sources
<1>4. Sources(Parked(r))
  BY <1>1, <1>2, <1>3 DEF Sources
<1>5. NoneRevived(source[r], Parked(r))
  BY <1>1, <1>2 DEF NoneRevived
<1>6. QED
  BY <1>4, <1>5

LEMMA SourcesDiscovered ==
    ASSUME NEW r \in Members, Sources(source[r]), NEW found
    PROVE  Sources(Options(r, found)) /\ NoneRevived(source[r], Options(r, found))
<1> DEFINE known == Parked(r)
           new   == Discovered(known, found)
<1>1. Sources(known) /\ NoneRevived(source[r], known)
  BY SourcesParked
<1> HIDE DEF known
<1>2. \A s \in Releases : [known[s] EXCEPT !.at = "candidate"] \in Entries
  BY <1>1 DEF Sources, Entries, SourceStates
<1>3. new = [s \in Releases |-> IF s \in found /\ known[s].at = "unknown"
                                THEN [known[s] EXCEPT !.at = "candidate"] ELSE known[s]]
  BY DEF Discovered
<1>4. \A s \in Releases : known[s] \in Entries
  BY <1>1 DEF Sources
<1> HIDE DEF new
<1>5. Sources(new)
  <2>1. new \in [Releases -> Entries]
    BY <1>2, <1>3, <1>4
  <2>2. ASSUME NEW s \in Releases, new[s].at # "failed"
        PROVE  new[s].tries < MaxTries
    <3>1. CASE s \in found /\ known[s].at = "unknown"
      <4>1. new[s].tries = known[s].tries
        BY <1>3, <1>4, <3>1 DEF Entries
      <4>2. QED
        BY <1>1, <3>1, <4>1 DEF Sources
    <3>2. CASE ~(s \in found /\ known[s].at = "unknown")
      <4>1. new[s] = known[s]
        BY <1>3, <3>2
      <4>2. QED
        BY <1>1, <2>2, <4>1 DEF Sources
    <3>3. QED
      BY <3>1, <3>2
  <2>3. QED
    BY <2>1, <2>2 DEF Sources
<1>6. NoneRevived(known, new)
  BY <1>3 DEF NoneRevived
<1>7. Options(r, found) = known \/ Options(r, found) = new
  BY DEF Options, known, new
<1>8. QED
  BY <1>1, <1>5, <1>6, <1>7 DEF NoneRevived

LEMMA SourcesActivated ==
    ASSUME NEW known, Sources(known), NEW next \in Ready(known)
    PROVE  Sources(Activated(known, next)) /\ NoneRevived(known, Activated(known, next))
<1> DEFINE new == Activated(known, next)
<1>1. new = [s \in Releases |->
               IF s = next THEN [known[s] EXCEPT !.at = "active"]
               ELSE IF known[s].at = "active" THEN [known[s] EXCEPT !.at = "candidate"]
               ELSE known[s]]
  BY DEF Activated
<1>2. next \in Releases /\ known[next].at # "failed"
  BY DEF Ready
<1>3. \A s \in Releases : /\ known[s] \in Entries
                          /\ [known[s] EXCEPT !.at = "active"] \in Entries
                          /\ [known[s] EXCEPT !.at = "candidate"] \in Entries
  BY DEF Sources, Entries, SourceStates
<1> HIDE DEF new
<1>4. new \in [Releases -> Entries]
  BY <1>1, <1>3
<1>5. ASSUME NEW s \in Releases
      PROVE  /\ new[s].tries = known[s].tries
             /\ new[s].at # "failed" => known[s].at # "failed"
             /\ known[s].at = "failed" => new[s] = known[s]
  <2>1. CASE s = next
    BY <1>1, <1>2, <1>3, <2>1 DEF Entries
  <2>2. CASE s # next /\ known[s].at = "active"
    BY <1>1, <1>3, <2>2 DEF Entries
  <2>3. CASE s # next /\ known[s].at # "active"
    BY <1>1, <2>3
  <2>4. QED
    BY <2>1, <2>2, <2>3
<1>6. QED
  BY <1>4, <1>5 DEF Sources, NoneRevived, new

LEMMA SourcesLeft ==
    ASSUME NEW r \in Members, Sources(source[r]), NEW found, NEW known \in LeftAt(r, found)
    PROVE  Sources(known) /\ NoneRevived(source[r], known)
<1>1. Sources(Parked(r)) /\ NoneRevived(source[r], Parked(r))
  BY SourcesParked
<1>2. Sources(Options(r, found)) /\ NoneRevived(source[r], Options(r, found))
  BY SourcesDiscovered
<1>3. ASSUME NEW next \in Ready(Options(r, found)), known = Activated(Options(r, found), next)
      PROVE  Sources(known) /\ NoneRevived(source[r], known)
  <2>1. Sources(known) /\ NoneRevived(Options(r, found), known)
    BY <1>2, <1>3, SourcesActivated
  <2>2. QED
    BY <1>2, <2>1 DEF NoneRevived
<1>4. QED
  BY <1>1, <1>2, <1>3 DEF LeftAt, NoneRevived

(* What a step does to the sources of the rows.                              *)
LEMMA SourcesStep ==
    ASSUME RotationInv, [RotationNext]_rotationVars
    PROVE  /\ source' \in [Members -> [Releases -> Entries]]
           /\ \A r \in Members : Sources(source'[r]) /\ NoneRevived(source[r], source'[r])
<1> DEFINE Fine == /\ source' \in [Members -> [Releases -> Entries]]
                   /\ \A r \in Members : Sources(source'[r]) /\ NoneRevived(source[r], source'[r])
<1>1. /\ source \in [Members -> [Releases -> Entries]]
      /\ \A r \in Members : Sources(source[r])
  BY DEF RotationInv, RotationTypeOK, Entries, SourceStates
<1>2. ASSUME NEW r \in Members, NEW known, source' = [source EXCEPT ![r] = known],
             Sources(known), NoneRevived(source[r], known)
      PROVE  Fine
  BY <1>1, <1>2 DEF Sources, NoneRevived
<1>3. ASSUME source' = source
      PROVE  Fine
  BY <1>1, <1>3 DEF NoneRevived
<1> HIDE DEF Fine
<1>4. ASSUME NEW r \in Members, NEW s \in Releases, CoolDown(r, s)
      PROVE  Fine
  <2> DEFINE known == [source[r] EXCEPT ![s].at = "rested"]
  <2>1. source' = [source EXCEPT ![r] = known]
    BY <1>1, <1>4 DEF CoolDown
  <2>2. source[r][s].at = "cooldown" /\ source[r] \in [Releases -> Entries]
    BY <1>1, <1>4 DEF CoolDown
  <2>3. known = [source[r] EXCEPT ![s] = [source[r][s] EXCEPT !.at = "rested"]]
    BY <2>2
  <2>4. [source[r][s] EXCEPT !.at = "rested"] \in Entries
    BY <2>2 DEF Entries, SourceStates
  <2>5. [source[r][s] EXCEPT !.at = "rested"].tries = source[r][s].tries
    BY <2>2 DEF Entries
  <2> HIDE DEF known
  <2>6. Sources(known) /\ NoneRevived(source[r], known)
    BY <1>1, <2>2, <2>3, <2>4, <2>5 DEF Sources, NoneRevived
  <2>7. QED
    BY <1>2, <2>1, <2>6
<1>5. ASSUME NEW rep \in Members, NEW found, Rotate(rep, found)
      PROVE  Fine
  <2> DEFINE known == Options(rep, found)
  <2>1. PICK next \in Ready(known) : source' = [source EXCEPT ![rep] = Activated(known, next)]
    BY <1>5 DEF Rotate
  <2>2. Sources(known) /\ NoneRevived(source[rep], known)
    BY <1>1, SourcesDiscovered
  <2> HIDE DEF known
  <2>3. Sources(Activated(known, next)) /\ NoneRevived(known, Activated(known, next))
    BY <2>2, SourcesActivated
  <2>4. NoneRevived(source[rep], Activated(known, next))
    BY <2>2, <2>3 DEF NoneRevived
  <2>5. QED
    BY <1>2, <2>1, <2>3, <2>4
<1>6. ASSUME NEW victims, NEW rep \in Members, NEW found, DemoteGroup(victims, rep, found)
      PROVE  Fine
  <2>1. \E known \in LeftAt(rep, found) : source' = [source EXCEPT ![rep] = known]
    BY <1>6 DEF DemoteGroup, NoRotation, LeftAt
  <2>2. QED
    BY <1>1, <1>2, <2>1, SourcesLeft
<1>7. ASSUME Interrupted
      PROVE  Fine
  <2>1. ASSUME NEW r \in Stallable, NEW found, NEW known \in LeftAt(r, found),
               source' = [source EXCEPT ![r] = known]
        PROVE  Fine
    BY <1>1, <1>2, <2>1, SourcesLeft DEF Stallable
  <2>2. QED
    BY <1>3, <1>7, <2>1 DEF Interrupted
<1>8. ASSUME Stall
      PROVE  Fine
  BY <1>5, <1>6, <1>8 DEF Stall, Stallable
<1>9. QED
  <2>1. Fine
    BY <1>3, <1>4, <1>7, <1>8
       DEF RotationNext, rotationVars, Promote, Requeue, Swarm, Initialize, InitializeByHash,
         InitFails, Complete, PauseStalled
  <2>2. QED
    BY <2>1 DEF Fine

LEMMA RotationStep ==
    ASSUME RotationInv, [RotationNext]_rotationVars
    PROVE  RotationInv'
<1> DEFINE States == {"queued", "downloading", "paused", "failed", "completed"}
           Rest == /\ rowStatus' \in [Members -> States]
                   /\ magnet' \in [Members -> Releases]
                   /\ stallCount' \in [Members -> 0 .. (StallLimit + setbacks')]
                   /\ fetching' \in [Members -> Releases \cup {NoSource}]
                   /\ pausing' \subseteq Members
                   /\ seeded' \in Swarms /\ setbacks' \in 0 .. MaxSetbacks
                   /\ \A r \in Members :
                        /\ rowStatus'[r] \in {"queued", "downloading"} /\ r \notin pausing' =>
                             stallCount'[r] < StallLimit + setbacks'
                        /\ fetching'[r] # NoSource => rowStatus'[r] = "downloading"
                        /\ r \in pausing' => rowStatus'[r] = "queued"
<1>1. /\ rowStatus \in [Members -> States]
      /\ magnet \in [Members -> Releases]
      /\ stallCount \in [Members -> 0 .. (StallLimit + setbacks)]
      /\ fetching \in [Members -> Releases \cup {NoSource}]
      /\ pausing \subseteq Members
      /\ seeded \in Swarms /\ setbacks \in 0 .. MaxSetbacks
      /\ \A r \in Members :
           /\ rowStatus[r] \in {"queued", "downloading"} /\ r \notin pausing =>
                stallCount[r] < StallLimit + setbacks
           /\ fetching[r] # NoSource => rowStatus[r] = "downloading"
           /\ r \in pausing => rowStatus[r] = "queued"
  BY DEF RotationInv, RotationTypeOK
<1>2. /\ StallLimit \in Nat /\ MaxSetbacks \in Nat /\ NoSource \notin Releases
      /\ Original \in Releases
  BY RotationAssumption
<1>3. ASSUME Promote
      PROVE  Rest
  BY <1>1, <1>3 DEF Promote
<1>4. ASSUME Swarm
      PROVE  Rest
  BY <1>1, <1>4 DEF Swarm
<1>5. ASSUME Interrupted
      PROVE  Rest
  <2>1. /\ setbacks' = setbacks + 1 /\ setbacks' \in 0 .. MaxSetbacks
        /\ pausing' \in {pausing, {}}
        /\ fetching' \in {fetching, [r \in Members |-> NoSource]}
        /\ UNCHANGED <<rowStatus, magnet, stallCount, seeded>>
    BY <1>1, <1>2, <1>5 DEF Interrupted, SetBack
  <2>2. \A r \in Members : /\ stallCount[r] \in 0 .. (StallLimit + setbacks')
                           /\ stallCount[r] < StallLimit + setbacks'
    BY <1>1, <1>2, <2>1
  <2>3. stallCount' \in [Members -> 0 .. (StallLimit + setbacks')]
    BY <1>1, <2>1, <2>2
  <2>4. QED
    BY <1>1, <2>1, <2>2, <2>3
<1>6. ASSUME NEW r \in Members, Initialize(r) \/ InitializeByHash(r)
      PROVE  Rest
  <2>1. PICK m \in Releases : /\ fetching' = [fetching EXCEPT ![r] = m]
                              /\ magnet' \in {magnet, [magnet EXCEPT ![r] = m]}
    BY <1>1, <1>2, <1>6 DEF Initialize, InitializeByHash
  <2>2. rowStatus[r] = "downloading" /\ UNCHANGED <<rowStatus, stallCount, pausing, seeded, setbacks>>
    BY <1>6 DEF Initialize, InitializeByHash, Initializing
  <2>3. QED
    BY <1>1, <2>1, <2>2
<1>7. ASSUME NEW r \in Members, Complete(r) \/ InitFails(r)
      PROVE  Rest
  BY <1>1, <1>7 DEF Complete, InitFails, Initializing
<1>8. ASSUME NEW r \in Members, NEW s \in Releases, CoolDown(r, s)
      PROVE  Rest
  BY <1>1, <1>8 DEF CoolDown
<1>9. ASSUME NEW rep \in Members, NEW found, Rotate(rep, found)
      PROVE  Rest
  <2>1. PICK next \in Releases : magnet' = [magnet EXCEPT ![rep] = next]
    BY <1>9 DEF Rotate, Ready
  <2>2. QED
    BY <1>1, <1>9, <2>1 DEF Rotate
<1>10. ASSUME NEW victims \in SUBSET Stallable, NEW rep, NEW found, pausing = {},
              DemoteGroup(victims, rep, found)
       PROVE  Rest
  <2> DEFINE count == [r \in Members |-> IF r \in victims THEN stallCount[r] + 1
                                         ELSE stallCount[r]]
             out   == \E r \in victims : count[r] >= StallLimit
  <2>1. /\ stallCount' = count /\ UNCHANGED <<magnet, seeded>>
        /\ rowStatus' = [r \in Members |-> IF r \in victims THEN "queued" ELSE rowStatus[r]]
        /\ fetching' = [r \in Members |-> IF r \in victims THEN NoSource ELSE fetching[r]]
        /\ pausing' = IF out THEN victims ELSE {}
    BY <1>10 DEF DemoteGroup
  <2>2. setbacks' \in 0 .. MaxSetbacks /\ setbacks <= setbacks' /\ setbacks' \in Nat
    BY <1>1, <1>2, <1>10 DEF DemoteGroup, NoRotation, SetBack
  <2>3. \A r \in victims : r \in Members /\ stallCount[r] < StallLimit + setbacks
    BY <1>1, <1>10 DEF Stallable
  <2>4. count \in [Members -> 0 .. (StallLimit + setbacks')]
    BY <1>1, <1>2, <2>2, <2>3
  <2>5. \A r \in Members : count[r] = IF r \in victims THEN stallCount[r] + 1 ELSE stallCount[r]
    OBVIOUS
  <2> HIDE DEF count
  <2>6. ASSUME NEW r \in Members, rowStatus'[r] \in {"queued", "downloading"}, r \notin pausing'
        PROVE  stallCount'[r] < StallLimit + setbacks'
    <3>1. CASE r \in victims
      <4>1. ~out
        BY <2>1, <2>6, <3>1
      <4>2. QED
        BY <1>2, <2>1, <2>2, <2>4, <3>1, <4>1
    <3>2. CASE r \notin victims
      <4>1. stallCount[r] < StallLimit + setbacks
        BY <1>1, <1>10, <2>1, <2>6, <3>2
      <4>2. QED
        BY <1>1, <1>2, <2>1, <2>2, <2>5, <3>2, <4>1
    <3>3. QED
      BY <3>1, <3>2
  <2>7. victims \subseteq Members /\ pausing' \subseteq victims
    BY <2>1, <2>3
  <2> HIDE DEF out
  <2>8. QED
    BY <1>1, <2>1, <2>2, <2>4, <2>6, <2>7
<1>11. ASSUME UNCHANGED rotationVars
      PROVE  Rest
  BY <1>1, <1>11 DEF rotationVars
<1>12. ASSUME Stall
      PROVE  Rest
  BY <1>9, <1>10, <1>12 DEF Stall, Stallable
<1>13. ASSUME PauseStalled
       PROVE  Rest
  BY <1>1, <1>13 DEF PauseStalled
<1>14. ASSUME NEW r \in Members, Requeue(r)
       PROVE  Rest
  <2>1. /\ setbacks' = setbacks + 1 /\ setbacks' \in 0 .. MaxSetbacks
        /\ rowStatus' = [rowStatus EXCEPT ![r] = "queued"]
        /\ rowStatus[r] \in {"paused", "failed"}
        /\ UNCHANGED <<magnet, stallCount, fetching, pausing, seeded>>
    BY <1>1, <1>2, <1>14 DEF Requeue, SetBack
  <2>2. \A q \in Members : /\ stallCount[q] \in 0 .. (StallLimit + setbacks')
                           /\ stallCount[q] < StallLimit + setbacks'
    BY <1>1, <1>2, <2>1
  <2>3. stallCount' \in [Members -> 0 .. (StallLimit + setbacks')]
    BY <1>1, <2>1, <2>2
  <2>4. QED
    BY <1>1, <2>1, <2>2, <2>3
<1>15. Rest
  BY <1>3, <1>4, <1>5, <1>6, <1>7, <1>8, <1>11, <1>12, <1>13, <1>14 DEF RotationNext
<1> HIDE DEF Rest
<1>16. /\ source' \in [Members -> [Releases -> Entries]]
       /\ \A r \in Members : Sources(source'[r])
  BY SourcesStep
<1>17. QED
  BY <1>15, <1>16 DEF Rest, RotationInv, RotationTypeOK, Entries, SourceStates

LEMMA RotationStart ==
    RotationInit => RotationInv
<1>1. SUFFICES ASSUME RotationInit PROVE RotationInv
  OBVIOUS
<1>2. source \in [Members -> [Releases -> Entries]] /\ \A r \in Members : Sources(source[r])
  BY <1>1, RotationAssumption DEF RotationInit, Sources, Entries, SourceStates
<1>3. seeded \in Swarms
  BY <1>1 DEF RotationInit, Swarms
<1>4. QED
  BY <1>1, <1>2, <1>3, RotationAssumption
     DEF RotationInit, RotationInv, RotationTypeOK, Entries, SourceStates

LEMMA RotationInvHolds ==
    RotationSpec => []RotationInv
BY RotationStart, RotationStep, PTL DEF RotationSpec

(* No source is tried more often than maxSourceTries, and no row is demoted *)
(* more often than the limit of stalls and once for every time that the     *)
(* tick was interrupted before it paused the row, or the user resumed it,   *)
(* whatever the indexer returns.                                             *)
THEOREM RotationTyped == RotationSpec => []RotationTypeOK
<1>1. RotationInv => RotationTypeOK
  BY DEF RotationInv
<1>2. QED
  BY <1>1, RotationInvHolds, PTL

GivenUpStays == [][\A r \in Members, s \in Releases :
    source[r][s].at = "failed" => source'[r][s] = source[r][s]]_rotationVars

(* A source that was given up is never tried again: discovering it once     *)
(* more, activating another and the reset of the active one leave it alone. *)
THEOREM GivenUpForGood == RotationSpec => GivenUpStays
<1>1. RotationInv /\ [RotationNext]_rotationVars =>
        [\A r \in Members, s \in Releases :
            source[r][s].at = "failed" => source'[r][s] = source[r][s]]_rotationVars
  BY SourcesStep DEF NoneRevived
<1>2. QED
  BY <1>1, RotationInvHolds, PTL DEF RotationSpec, GivenUpStays

-----------------------------------------------------------------------------
(* Why rotation ends: what is left of the tries and of the stalls.          *)

(* How often a source was made the active one: each of its tries that is    *)
(* over, and the one that goes on.                                           *)
Begun(e) == IF e.at = "active" THEN e.tries + 1 ELSE e.tries

NoneActive(known)        == \A s \in Releases : known[s].at # "active"
NoneTakenBack(known, next) == \A s \in Releases : Begun(known[s]) <= Begun(next[s])

LEMMA BegunNumber ==
    ASSUME NEW known, Sources(known), NEW s \in Releases
    PROVE  Begun(known[s]) \in 0 .. MaxTries /\ Begun(known[s]) \in Nat
<1> DEFINE e == known[s]
<1>1. e \in Entries /\ e.at # "failed" => e.tries < MaxTries
  BY DEF Sources
<1>2. e \in Entries
  BY DEF Sources
<1> HIDE DEF e
<1>3. Begun(e) \in 0 .. MaxTries
  BY <1>1, <1>2, RotationAssumption DEF Begun, Entries
<1>4. Begun(e) \in Nat
  BY <1>2, RotationAssumption DEF Begun, Entries
<1>5. QED
  BY <1>3, <1>4 DEF e

LEMMA ParkedSpent ==
    ASSUME NEW r \in Members, Sources(source[r])
    PROVE  NoneActive(Parked(r)) /\ NoneTakenBack(source[r], Parked(r))
<1> DEFINE known == IF \A s \in Releases : source[r][s].at = "unknown"
                    THEN EnsureSource(source[r], Original, "active") ELSE source[r]
<1>1. \A s \in Releases : source[r][s] \in Entries
  BY DEF Sources
<1>2. \A s \in Releases : known[s] \in Entries /\ Begun(source[r][s]) <= Begun(known[s])
  <2>1. CASE \A s \in Releases : source[r][s].at = "unknown"
    <3> DEFINE e == [source[r][Original] EXCEPT !.at = "active"]
    <3>1. known = [source[r] EXCEPT ![Original] = e]
      BY <2>1, RotationAssumption DEF EnsureSource, Sources
    <3>2. e \in Entries /\ e.at = "active" /\ e.tries = source[r][Original].tries
      BY <1>1, RotationAssumption DEF Entries, SourceStates
    <3> HIDE DEF e, known
    <3>3. \A s \in Releases : known[s] = IF s = Original THEN e ELSE source[r][s]
      BY <3>1 DEF Sources
    <3>4. \A s \in Releases : source[r][s].tries \in Nat
      BY <1>1 DEF Entries
    <3>5. QED
      BY <1>1, <3>2, <3>3, <3>4 DEF Begun
  <2>2. CASE ~\A s \in Releases : source[r][s].at = "unknown"
    <3>1. \A s \in Releases : Begun(source[r][s]) \in Nat
      BY <1>1 DEF Entries, Begun
    <3>2. QED
      BY <1>1, <2>2, <3>1
  <2>3. QED
    BY <2>1, <2>2
<1>3. Parked(r) = [s \in Releases |-> IF known[s].at = "active"
                                      THEN MarkSourceTried(known[s]) ELSE known[s]]
  BY DEF Parked
<1> HIDE DEF known
<1>4. ASSUME NEW s \in Releases
      PROVE  Parked(r)[s].at # "active" /\ Begun(Parked(r)[s]) = Begun(known[s])
  <2>1. CASE known[s].at = "active"
    <3>1. Parked(r)[s] = MarkSourceTried(known[s])
      BY <1>3, <2>1
    <3>2. QED
      BY <2>1, <3>1 DEF MarkSourceTried, Begun
  <2>2. CASE known[s].at # "active"
    BY <1>3, <2>2
  <2>3. QED
    BY <2>1, <2>2
<1>5. QED
  BY <1>2, <1>4 DEF NoneActive, NoneTakenBack

LEMMA OptionsSpent ==
    ASSUME NEW r \in Members, Sources(source[r]), NEW found
    PROVE  NoneActive(Options(r, found)) /\ NoneTakenBack(source[r], Options(r, found))
<1> DEFINE known == Parked(r)
<1>1. NoneActive(known) /\ NoneTakenBack(source[r], known) /\ Sources(known)
  BY ParkedSpent, SourcesParked
<1>2. Options(r, found) = known \/ Options(r, found) = Discovered(known, found)
  BY DEF Options
<1> HIDE DEF known
<1>3. ASSUME NEW s \in Releases
      PROVE  /\ Discovered(known, found)[s].at # "active"
             /\ Begun(Discovered(known, found)[s]) = Begun(known[s])
  <2>1. Discovered(known, found)[s] =
          IF s \in found /\ known[s].at = "unknown"
          THEN [known[s] EXCEPT !.at = "candidate"] ELSE known[s]
    BY DEF Discovered
  <2>2. known[s] \in Entries /\ known[s].at # "active"
    BY <1>1 DEF Sources, NoneActive
  <2>3. QED
    BY <2>1, <2>2 DEF Begun, Entries
<1>4. QED
  BY <1>1, <1>2, <1>3 DEF NoneActive, NoneTakenBack

LEMMA ActivatedSpent ==
    ASSUME NEW known, Sources(known), NoneActive(known), NEW next \in Ready(known)
    PROVE  /\ NoneTakenBack(known, Activated(known, next))
           /\ Begun(known[next]) < Begun(Activated(known, next)[next])
<1>1. next \in Releases
  BY DEF Ready
<1>2. ASSUME NEW s \in Releases
      PROVE  /\ known[s] \in Entries /\ known[s].at # "active"
             /\ Begun(known[s]) = known[s].tries /\ known[s].tries \in Nat
             /\ Activated(known, next)[s] = IF s = next THEN [known[s] EXCEPT !.at = "active"]
                                            ELSE known[s]
  BY DEF Sources, NoneActive, Entries, Activated, Begun
<1>3. Begun(Activated(known, next)[next]) = known[next].tries + 1
  BY <1>1, <1>2 DEF Begun, Entries
<1>4. \A s \in Releases : Begun(known[s]) \in Nat
  BY <1>2
<1>5. ASSUME NEW s \in Releases
      PROVE  Begun(known[s]) <= Begun(Activated(known, next)[s])
  <2>1. CASE s = next
    <3>1. Begun(Activated(known, next)[s]) = Begun(known[s]) + 1
      BY <1>1, <1>2, <1>3, <2>1
    <3>2. QED
      BY <1>4, <3>1
  <2>2. CASE s # next
    <3>1. Activated(known, next)[s] = known[s]
      BY <1>2, <2>2
    <3>2. QED
      BY <1>4, <3>1
  <2>3. QED
    BY <2>1, <2>2
<1>6. Begun(Activated(known, next)[next]) = Begun(known[next]) + 1
  BY <1>1, <1>2, <1>3
<1>7. Begun(known[next]) < Begun(Activated(known, next)[next])
  BY <1>1, <1>4, <1>6
<1>8. QED
  BY <1>5, <1>7 DEF NoneTakenBack

LEMMA LeftSpent ==
    ASSUME NEW r \in Members, Sources(source[r]), NEW found, NEW known \in LeftAt(r, found)
    PROVE  NoneTakenBack(source[r], known)
<1>1. NoneTakenBack(source[r], Parked(r))
  BY ParkedSpent
<1>2. /\ NoneActive(Options(r, found)) /\ NoneTakenBack(source[r], Options(r, found))
      /\ Sources(Options(r, found))
  BY OptionsSpent, SourcesDiscovered
<1>3. \A s \in Releases : Begun(source[r][s]) \in Nat
  BY BegunNumber
<1>4. ASSUME NEW next \in Ready(Options(r, found)), known = Activated(Options(r, found), next)
      PROVE  NoneTakenBack(source[r], known)
  <2>1. NoneTakenBack(Options(r, found), known) /\ Sources(known)
    BY <1>2, <1>4, ActivatedSpent, SourcesActivated
  <2>2. \A s \in Releases : Begun(Options(r, found)[s]) \in Nat /\ Begun(known[s]) \in Nat
    BY <1>2, <2>1, BegunNumber
  <2>3. QED
    BY <1>2, <1>3, <2>1, <2>2 DEF NoneTakenBack
<1>5. NoneTakenBack(source[r], source[r])
  BY <1>3 DEF NoneTakenBack
<1>6. QED
  BY <1>1, <1>2, <1>4, <1>5 DEF LeftAt

(* No step takes back a try or a stall, and a stall adds to one of them.    *)
LEMMA StallSpends ==
    ASSUME RotationInv, [RotationNext]_rotationVars
    PROVE  /\ \A r \in Members : /\ NoneTakenBack(source[r], source'[r])
                                 /\ stallCount[r] <= stallCount'[r]
           /\ Stall => \/ \E r \in Members, s \in Releases :
                            Begun(source[r][s]) < Begun(source'[r][s])
                       \/ \E r \in Members : stallCount[r] < stallCount'[r]
<1> DEFINE Kept == \A r \in Members : /\ NoneTakenBack(source[r], source'[r])
                                      /\ stallCount[r] <= stallCount'[r]
           Begins == \E r \in Members, s \in Releases :
                        Begun(source[r][s]) < Begun(source'[r][s])
           Counts == \E r \in Members : stallCount[r] < stallCount'[r]
<1>1. /\ source \in [Members -> [Releases -> Entries]]
      /\ stallCount \in [Members -> Nat]
      /\ \A r \in Members : Sources(source[r])
  BY RotationAssumption DEF RotationInv, RotationTypeOK, Entries, SourceStates
<1>2. \A r \in Members, s \in Releases : Begun(source[r][s]) \in Nat
  BY <1>1, RotationAssumption DEF Begun, Entries
<1>3. \A r \in Members : stallCount[r] \in Nat /\ NoneTakenBack(source[r], source[r])
  BY <1>1, <1>2, RotationAssumption DEF NoneTakenBack
<1>4. ASSUME NEW r \in Members, NEW known, source' = [source EXCEPT ![r] = known],
             stallCount' = stallCount, NoneTakenBack(source[r], known)
      PROVE  Kept
  BY <1>1, <1>3, <1>4
<1>5. ASSUME source' = source, stallCount' = stallCount
      PROVE  Kept
  BY <1>3, <1>5
<1>6. ASSUME NEW r \in Members, NEW s \in Releases, CoolDown(r, s)
      PROVE  Kept
  <2> DEFINE known == [source[r] EXCEPT ![s].at = "rested"]
  <2>1. source' = [source EXCEPT ![r] = known] /\ stallCount' = stallCount
    BY <1>1, <1>6 DEF CoolDown
  <2>2. source[r][s].at = "cooldown" /\ source[r] \in [Releases -> Entries]
    BY <1>1, <1>6 DEF CoolDown
  <2>3. \A t \in Releases : Begun(known[t]) = Begun(source[r][t])
    BY <2>2 DEF Begun, Entries
  <2> HIDE DEF known
  <2>4. NoneTakenBack(source[r], known)
    BY <1>2, <2>3 DEF NoneTakenBack
  <2>5. QED
    BY <1>4, <2>1, <2>4
<1>7. ASSUME NEW r \in Members, NEW known, NEW next \in Ready(known),
             Sources(known), NoneActive(known), NoneTakenBack(source[r], known),
             source' = [source EXCEPT ![r] = Activated(known, next)],
             stallCount' = stallCount
      PROVE  Kept /\ Begins
  <2>1. /\ NoneTakenBack(known, Activated(known, next)) /\ next \in Releases
        /\ Begun(known[next]) < Begun(Activated(known, next)[next])
    BY <1>7, ActivatedSpent DEF Ready
  <2>2. Sources(Activated(known, next))
    BY <1>7, SourcesActivated
  <2>3. \A s \in Releases : Begun(known[s]) \in Nat /\ Begun(Activated(known, next)[s]) \in Nat
    BY <1>7, <2>2, RotationAssumption DEF Sources, Begun, Entries
  <2>4. NoneTakenBack(source[r], Activated(known, next))
    BY <1>2, <1>7, <2>1, <2>3 DEF NoneTakenBack
  <2>5. Begun(source[r][next]) < Begun(source'[r][next])
    <3>1. source'[r] = Activated(known, next)
      BY <1>1, <1>7
    <3>2. Begun(source[r][next]) <= Begun(known[next])
      BY <1>7, <2>1 DEF NoneTakenBack
    <3>3. QED
      BY <1>2, <2>1, <2>3, <3>1, <3>2
  <2>6. Kept
    BY <1>4, <1>7, <2>4
  <2>7. QED
    BY <2>1, <2>5, <2>6
<1>8. ASSUME NEW rep \in Members, NEW found, Rotate(rep, found)
      PROVE  Kept /\ Begins
  <2>1. PICK next \in Ready(Options(rep, found)) :
          source' = [source EXCEPT ![rep] = Activated(Options(rep, found), next)]
    BY <1>8 DEF Rotate
  <2>2. /\ NoneActive(Options(rep, found)) /\ NoneTakenBack(source[rep], Options(rep, found))
        /\ Sources(Options(rep, found)) /\ stallCount' = stallCount
    BY <1>1, <1>8, OptionsSpent, SourcesDiscovered DEF Rotate
  <2>3. QED
    BY <1>7, <2>1, <2>2
<1>9. ASSUME NEW victims \in SUBSET Stallable, NEW rep, NEW found,
             DemoteGroup(victims, rep, found)
      PROVE  Kept /\ Counts
  <2>1. /\ stallCount' = [r \in Members |-> IF r \in victims THEN stallCount[r] + 1
                                            ELSE stallCount[r]]
        /\ rep \in victims /\ rep \in Members
    BY <1>9 DEF DemoteGroup, Stallable
  <2>2. PICK known \in LeftAt(rep, found) : source' = [source EXCEPT ![rep] = known]
    BY <1>9 DEF DemoteGroup, NoRotation, LeftAt
  <2>3. NoneTakenBack(source[rep], known)
    BY <1>1, <2>1, <2>2, LeftSpent
  <2>4. \A r \in Members : NoneTakenBack(source[r], source'[r])
    BY <1>1, <1>3, <2>1, <2>2, <2>3
  <2>5. \A r \in Members : stallCount[r] <= stallCount'[r]
    BY <1>3, <2>1
  <2>6. stallCount[rep] < stallCount'[rep]
    BY <1>3, <2>1
  <2>7. QED
    BY <2>1, <2>4, <2>5, <2>6
<1>10. ASSUME Interrupted
       PROVE  Kept
  <2>1. stallCount' = stallCount
    BY <1>10 DEF Interrupted
  <2>2. ASSUME NEW r \in Stallable, NEW found, NEW known \in LeftAt(r, found),
               source' = [source EXCEPT ![r] = known]
        PROVE  Kept
    <3>1. r \in Members
      BY DEF Stallable
    <3>2. QED
      BY <1>1, <1>4, <2>1, <2>2, <3>1, LeftSpent
  <2>3. QED
    BY <1>5, <1>10, <2>1, <2>2 DEF Interrupted
<1>11. ASSUME Stall
       PROVE  Kept /\ (Begins \/ Counts)
  BY <1>8, <1>9, <1>11 DEF Stall, Stallable
<1> HIDE DEF Kept, Begins, Counts
<1>12. Kept
  BY <1>5, <1>6, <1>10, <1>11
     DEF RotationNext, rotationVars, Promote, Requeue, Swarm, Initialize, InitializeByHash,
         InitFails, Complete, PauseStalled
<1>13. QED
  BY <1>11, <1>12 DEF Kept, Begins, Counts

TriesLeft ==
    {t \in Members \X Releases \X (1 .. MaxTries) : t[3] > Begun(source[t[1]][t[2]])}
StallsLeft ==
    {t \in Members \X (1 .. StallLimit + MaxSetbacks) : t[2] > stallCount[t[1]]}

Budget == Cardinality(TriesLeft) + Cardinality(StallsLeft)

LEMMA BudgetSpent ==
    ASSUME IsFiniteSet(Members), IsFiniteSet(Releases),
           RotationInv, RotationInv', [RotationNext]_rotationVars
    PROVE  Budget' <= Budget /\ (Stall => Budget' < Budget)
<1>1. /\ IsFiniteSet(TriesLeft) /\ IsFiniteSet(StallsLeft)
      /\ Cardinality(TriesLeft) \in Nat /\ Cardinality(StallsLeft) \in Nat
  <2>1. IsFiniteSet(1 .. MaxTries) /\ IsFiniteSet(1 .. StallLimit + MaxSetbacks)
    BY RotationAssumption, FS_Interval
  <2>2. IsFiniteSet(Members \X (1 .. StallLimit + MaxSetbacks)) /\ IsFiniteSet(Members \X Releases)
    BY <2>1, FS_Product
  <2>3. IsFiniteSet({<<p[1][1], p[1][2], p[2]>> : p \in (Members \X Releases) \X (1 .. MaxTries)})
    <3> DEFINE S == (Members \X Releases) \X (1 .. MaxTries)
               T == {<<p[1][1], p[1][2], p[2]>> : p \in S}
               f == [p \in S |-> <<p[1][1], p[1][2], p[2]>>]
    <3>1. IsFiniteSet(S)
      BY <2>1, <2>2, FS_Product
    <3>2. f \in Surjection(S, T)
      BY DEF Surjection
    <3> HIDE DEF S, T, f
    <3>3. IsFiniteSet(T)
      BY <3>1, <3>2, FS_Surjection
    <3>4. QED
      BY <3>3 DEF S, T
  <2>4. TriesLeft \subseteq
          {<<p[1][1], p[1][2], p[2]>> : p \in (Members \X Releases) \X (1 .. MaxTries)}
    <3>1. ASSUME NEW r \in Members, NEW s \in Releases, NEW n \in 1 .. MaxTries
          PROVE  \E p \in (Members \X Releases) \X (1 .. MaxTries) :
                    <<r, s, n>> = <<p[1][1], p[1][2], p[2]>>
      <4>1. <<<<r, s>>, n>> \in (Members \X Releases) \X (1 .. MaxTries)
        OBVIOUS
      <4>2. QED
        BY <4>1
    <3>2. QED
      BY <3>1 DEF TriesLeft
  <2>5. IsFiniteSet(TriesLeft) /\ IsFiniteSet(StallsLeft)
    BY <2>2, <2>3, <2>4, FS_Subset DEF StallsLeft
  <2>6. QED
    BY <2>5, FS_CardinalityType
<1>2. /\ source' \in [Members -> [Releases -> Entries]]
      /\ \A r \in Members : Sources(source[r]) /\ Sources(source'[r])
      /\ \A r \in Members : stallCount[r] \in Nat /\ stallCount'[r] \in 0 .. StallLimit + MaxSetbacks
  BY RotationAssumption DEF RotationInv, RotationTypeOK, Entries, SourceStates
<1>3. \A r \in Members, s \in Releases :
        Begun(source[r][s]) \in Nat /\ Begun(source'[r][s]) \in 0 .. MaxTries
  BY <1>2, BegunNumber
<1>4. /\ \A r \in Members, s \in Releases : Begun(source[r][s]) <= Begun(source'[r][s])
      /\ \A r \in Members : stallCount[r] <= stallCount'[r]
  BY StallSpends DEF NoneTakenBack
<1>5. /\ TriesLeft' = {t \in Members \X Releases \X (1 .. MaxTries) :
                         t[3] > Begun(source'[t[1]][t[2]])}
      /\ StallsLeft' = {t \in Members \X (1 .. StallLimit + MaxSetbacks) : t[2] > stallCount'[t[1]]}
  BY DEF TriesLeft, StallsLeft, Begun
<1>6. TriesLeft' \in SUBSET TriesLeft
  <2>1. ASSUME NEW r \in Members, NEW s \in Releases, NEW n \in 1 .. MaxTries,
               n > Begun(source'[r][s])
        PROVE  n > Begun(source[r][s])
    BY <1>3, <1>4, <2>1, RotationAssumption
  <2>2. QED
    BY <1>5, <2>1 DEF TriesLeft
<1>7. StallsLeft' \in SUBSET StallsLeft
  <2>1. ASSUME NEW r \in Members, NEW n \in 1 .. StallLimit + MaxSetbacks, n > stallCount'[r]
        PROVE  n > stallCount[r]
    BY <1>2, <1>4, <2>1, RotationAssumption
  <2>2. QED
    BY <1>5, <2>1 DEF StallsLeft
<1>8. /\ Cardinality(TriesLeft') <= Cardinality(TriesLeft) /\ Cardinality(TriesLeft') \in Nat
      /\ Cardinality(StallsLeft') <= Cardinality(StallsLeft) /\ Cardinality(StallsLeft') \in Nat
      /\ TriesLeft' # TriesLeft => Cardinality(TriesLeft') # Cardinality(TriesLeft)
      /\ StallsLeft' # StallsLeft => Cardinality(StallsLeft') # Cardinality(StallsLeft)
  BY <1>1, <1>6, <1>7, FS_Subset, FS_CardinalityType
<1>9. ASSUME Stall
      PROVE  TriesLeft' # TriesLeft \/ StallsLeft' # StallsLeft
  <2>1. ASSUME NEW r \in Members, NEW s \in Releases,
               Begun(source[r][s]) < Begun(source'[r][s])
        PROVE  TriesLeft' # TriesLeft
    <3> DEFINE t == <<r, s, Begun(source'[r][s])>>
    <3>1. Begun(source'[r][s]) \in 1 .. MaxTries
      BY <1>3, <2>1, RotationAssumption
    <3>2. t \in TriesLeft
      BY <2>1, <3>1 DEF TriesLeft
    <3>3. t \notin TriesLeft'
      BY <1>3, <1>5, <3>1
    <3>4. QED
      BY <3>2, <3>3
  <2>2. ASSUME NEW r \in Members, stallCount[r] < stallCount'[r]
        PROVE  StallsLeft' # StallsLeft
    <3> DEFINE t == <<r, stallCount'[r]>>
    <3>1. stallCount'[r] \in 1 .. StallLimit + MaxSetbacks
      BY <1>2, <2>2, RotationAssumption
    <3>2. t \in StallsLeft
      BY <2>2, <3>1 DEF StallsLeft
    <3>3. t \notin StallsLeft'
      BY <1>2, <1>5, <3>1, RotationAssumption
    <3>4. QED
      BY <3>2, <3>3
  <2>3. QED
    BY <1>9, <2>1, <2>2, StallSpends
<1>10. Budget' = Cardinality(TriesLeft') + Cardinality(StallsLeft')
  BY DEF Budget
<1>11. QED
  BY <1>1, <1>8, <1>9, <1>10 DEF Budget

StallsSpend == [][Budget' <= Budget /\ (Stall => Budget' < Budget)]_rotationVars

(* Every stall uses up a try of some source or one of a row's stalls, of    *)
(* which there are maxSourceTries for each source of a row and, for each    *)
(* row, the limit of stalls and one for every write that was refused, crash *)
(* or resumption, and no step gives one back: neither the indexer nor a     *)
(* cooldown, an init that fails or a swarm that comes and goes can keep the *)
(* rotation going for ever.                                                  *)
THEOREM StallsRunOut ==
    ASSUME IsFiniteSet(Members), IsFiniteSet(Releases)
    PROVE  RotationSpec => StallsSpend
<1>1. RotationInv /\ RotationInv' /\ [RotationNext]_rotationVars =>
        [Budget' <= Budget /\ (Stall => Budget' < Budget)]_rotationVars
  BY BudgetSpent
<1>2. QED
  BY <1>1, RotationInvHolds, PTL DEF RotationSpec, StallsSpend

-----------------------------------------------------------------------------
(* The three side by side: a step of one leaves the variables of the others *)
(* alone, so what each never does alone it never does beside the others.    *)

LEMMA DownloadsKeepApart == DownloadsSpec => Spec /\ RotationSpec /\ DockSpec
<1>1. DownloadsInit => Init /\ RotationInit /\ DockInit
  BY DEF DownloadsInit
<1>2. [DownloadsNext]_<<focus, vars, rotationVars, dockVars>> =>
        [Next]_vars /\ [RotationNext]_rotationVars /\ [DockNext]_dockVars
  BY DEF DownloadsNext, On
<1>3. QED
  BY <1>1, <1>2, PTL DEF DownloadsSpec, Spec, RotationSpec, DockSpec

(* Every variable of the download manager keeps its type.                   *)
THEOREM DownloadsTyped == DownloadsSpec => []TypesOK
<1>1. TypeOK /\ RotationTypeOK /\ DockTypeOK => TypesOK
  BY DEF TypesOK
<1>2. QED
  BY <1>1, DownloadsKeepApart, TypesHold, RotationTyped, DockTypesHold, PTL

=============================================================================
