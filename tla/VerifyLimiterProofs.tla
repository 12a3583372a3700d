------------------------ MODULE VerifyLimiterProofs ------------------------
(* Proofs about VerifyLimiter for every set of callers and every limits.   *)
EXTENDS VerifyLimiter, FiniteSetTheorems, TLAPS

(* A broadcast changes who is parked and who is woken, never who holds a slot. *)
LEMMA BroadcastKeepsHolders ==
    ASSUME NEW cs \in [Callers -> CallerStates]
    PROVE  /\ broadcastLocked(cs) \in [Callers -> CallerStates]
           /\ \A c \in Callers : broadcastLocked(cs)[c] # "parked"
           /\ \A c \in Callers : broadcastLocked(cs)[c] = "holding" <=> cs[c] = "holding"
BY DEF broadcastLocked, CallerStates

LEMMA NormalizedLimit ==
    ASSUME NEW n \in Int
    PROVE  normalizeVerifyLimit(n) \in Nat \ {0}
BY DEF normalizeVerifyLimit

LEMMA HoldersFinite == IsFiniteSet(Holders)
BY CallersAssumption, FS_Subset DEF Holders

(* Type correctness: in particular the cap is at least one in every state. *)
THEOREM TypeCorrect == Spec => []TypeOK
<1>1. Init => TypeOK
  <2> SUFFICES ASSUME Init PROVE TypeOK
    OBVIOUS
  <2>1. PICK n \in Limits : limit = normalizeVerifyLimit(n)
    BY DEF Init
  <2>2. n \in Int
    BY LimitsAssumption
  <2>3. limit \in Nat \ {0}
    BY <2>1, <2>2, NormalizedLimit
  <2>4. QED
    BY <2>3 DEF Init, TypeOK, CallerStates
<1>2. TypeOK /\ [Next]_vars => TypeOK'
  <2> SUFFICES ASSUME TypeOK, [Next]_vars PROVE TypeOK'
    OBVIOUS
  <2> USE DEF TypeOK
  <2>1. ASSUME NEW c \in Callers, Refuse(c) PROVE TypeOK'
    BY <2>1 DEF Refuse, CallerStates
  <2>2. ASSUME NEW c \in Callers, Take(c) PROVE TypeOK'
    BY <2>2 DEF Take, CallerStates
  <2>3. ASSUME NEW c \in Callers, Park(c) PROVE TypeOK'
    BY <2>3 DEF Park, CallerStates
  <2>4. ASSUME NEW c \in Callers, ContextDone(c) PROVE TypeOK'
    BY <2>4 DEF ContextDone, CallerStates
  <2>5. ASSUME NEW c \in Callers, Release(c) PROVE TypeOK'
    <3>1. [caller EXCEPT ![c] = "idle"] \in [Callers -> CallerStates]
      BY DEF CallerStates
    <3>2. caller' \in [Callers -> CallerStates]
      BY <2>5, <3>1, BroadcastKeepsHolders DEF Release
    <3>3. active' \in Nat
      BY <2>5 DEF Release
    <3>4. QED
      BY <2>5, <3>2, <3>3 DEF Release
  <2>6. ASSUME NEW n \in Limits, SetLimit(n) PROVE TypeOK'
    <3>1. n \in Int
      BY LimitsAssumption
    <3>2. limit' \in Nat \ {0}
      BY <2>6, <3>1, NormalizedLimit DEF SetLimit
    <3>3. caller' \in [Callers -> CallerStates]
      BY <2>6, BroadcastKeepsHolders DEF SetLimit
    <3>4. QED
      BY <2>6, <3>2, <3>3 DEF SetLimit
  <2>7. CASE Shutdown
    BY <2>7, BroadcastKeepsHolders DEF Shutdown
  <2>8. CASE UNCHANGED vars
    BY <2>8 DEF vars
  <2>9. QED
    BY <2>1, <2>2, <2>3, <2>4, <2>5, <2>6, <2>7, <2>8 DEF Next
<1>3. QED
  BY <1>1, <1>2, PTL DEF Spec

(* Nobody sleeps while there is a slot to take or after Shutdown, whatever *)
(* the number of callers and however often the cap changes: the invariant  *)
(* is inductive because every step that frees a slot, raises the cap or    *)
(* closes the limiter also empties the set of parked callers.              *)
THEOREM WakeupsNotLost == Spec => []NoLostWakeup
<1>1. Init => NoLostWakeup
  BY DEF Init, NoLostWakeup, Parked
<1>2. TypeOK /\ NoLostWakeup /\ [Next]_vars => NoLostWakeup'
  <2> SUFFICES ASSUME TypeOK, NoLostWakeup, [Next]_vars PROVE NoLostWakeup'
    OBVIOUS
  <2> USE DEF TypeOK, NoLostWakeup, Parked
  <2>1. ASSUME NEW c \in Callers, Refuse(c) PROVE NoLostWakeup'
    <3>1. Parked' \subseteq Parked
      BY <2>1 DEF Refuse
    <3>2. QED
      BY <2>1, <3>1 DEF Refuse
  <2>2. ASSUME NEW c \in Callers, Take(c) PROVE NoLostWakeup'
    <3>1. Parked = {}
      BY <2>2 DEF Take
    <3>2. Parked' = {}
      BY <2>2, <3>1 DEF Take
    <3>3. QED
      BY <3>2
  <2>3. ASSUME NEW c \in Callers, Park(c) PROVE NoLostWakeup'
    BY <2>3 DEF Park
  <2>4. ASSUME NEW c \in Callers, ContextDone(c) PROVE NoLostWakeup'
    <3>1. Parked' \subseteq Parked
      BY <2>4 DEF ContextDone
    <3>2. QED
      BY <2>4, <3>1 DEF ContextDone
  <2>5. ASSUME NEW c \in Callers, Release(c) PROVE NoLostWakeup'
    <3>1. [caller EXCEPT ![c] = "idle"] \in [Callers -> CallerStates]
      BY DEF CallerStates
    <3>2. Parked' = {}
      BY <2>5, <3>1, BroadcastKeepsHolders DEF Release
    <3>3. QED
      BY <3>2
  <2>6. ASSUME NEW n \in Limits, SetLimit(n) PROVE NoLostWakeup'
    <3>1. Parked' = {}
      BY <2>6, BroadcastKeepsHolders DEF SetLimit
    <3>2. QED
      BY <3>1
  <2>7. CASE Shutdown
    <3>1. Parked' = {}
      BY <2>7, BroadcastKeepsHolders DEF Shutdown
    <3>2. QED
      BY <3>1
  <2>8. CASE UNCHANGED vars
    BY <2>8 DEF vars
  <2>9. QED
    BY <2>1, <2>2, <2>3, <2>4, <2>5, <2>6, <2>7, <2>8 DEF Next
<1>3. QED
  BY <1>1, <1>2, TypeCorrect, PTL DEF Spec

(* The counter equals the number of goroutines inside a hash pass, so no   *)
(* slot is ever leaked or freed twice.                                     *)
THEOREM SlotsCounted == Spec => []HoldersCounted
<1>1. Init => HoldersCounted
  <2>1. Init => Holders = {}
    BY DEF Init, Holders
  <2>2. QED
    BY <2>1, FS_EmptySet DEF Init, HoldersCounted
<1>2. TypeOK /\ HoldersCounted /\ [Next]_vars => HoldersCounted'
  <2> SUFFICES ASSUME TypeOK, HoldersCounted, [Next]_vars PROVE HoldersCounted'
    OBVIOUS
  <2> USE DEF TypeOK
  <2>1. ASSUME NEW c \in Callers, Refuse(c) \/ Park(c) \/ ContextDone(c)
        PROVE HoldersCounted'
    <3>1. Holders' = Holders /\ active' = active
      BY <2>1 DEF Refuse, Park, ContextDone, Holders
    <3>2. QED
      BY <3>1 DEF HoldersCounted
  <2>2. ASSUME NEW c \in Callers, Take(c) PROVE HoldersCounted'
    <3>1. c \notin Holders /\ Holders' = Holders \cup {c}
      BY <2>2 DEF Take, Holders
    <3>2. Cardinality(Holders') = Cardinality(Holders) + 1
      BY <3>1, HoldersFinite, FS_AddElement
    <3>3. QED
      BY <2>2, <3>2 DEF Take, HoldersCounted
  <2>3. ASSUME NEW c \in Callers, Release(c) PROVE HoldersCounted'
    <3>1. [caller EXCEPT ![c] = "idle"] \in [Callers -> CallerStates]
      BY DEF CallerStates
    <3>2. c \in Holders /\ Holders' = Holders \ {c}
      BY <2>3, <3>1, BroadcastKeepsHolders DEF Release, Holders
    <3>3. Cardinality(Holders') = Cardinality(Holders) - 1
      BY <3>2, HoldersFinite, FS_RemoveElement
    <3>4. Cardinality(Holders) > 0
      BY <3>2, HoldersFinite, FS_EmptySet, FS_CardinalityType
    <3>5. QED
      BY <2>3, <3>3, <3>4 DEF Release, HoldersCounted
  <2>4. ASSUME NEW n \in Limits, SetLimit(n) PROVE HoldersCounted'
    <3>1. Holders' = Holders /\ active' = active
      BY <2>4, BroadcastKeepsHolders DEF SetLimit, Holders
    <3>2. QED
      BY <3>1 DEF HoldersCounted
  <2>5. CASE Shutdown
    <3>1. Holders' = Holders /\ active' = active
      BY <2>5, BroadcastKeepsHolders DEF Shutdown, Holders
    <3>2. QED
      BY <3>1 DEF HoldersCounted
  <2>6. CASE UNCHANGED vars
    BY <2>6 DEF vars, HoldersCounted, Holders
  <2>7. QED
    BY <2>1, <2>2, <2>3, <2>4, <2>5, <2>6 DEF Next
<1>3. QED
  BY <1>1, <1>2, TypeCorrect, PTL DEF Spec

(* Whatever SetLimit does, admission alone never takes the number of        *)
(* running hash passes further above the cap.                               *)
THEOREM ExcessDrains == Spec => ExcessOnlyDrains
<1>1. TypeOK /\ [Next]_vars => (active > limit => active' <= active)
  <2> SUFFICES ASSUME TypeOK, [Next]_vars, active > limit PROVE active' <= active
    OBVIOUS
  <2> USE DEF TypeOK
  <2>1. ASSUME NEW c \in Callers, Take(c) PROVE FALSE
    BY <2>1 DEF Take
  <2>2. ASSUME NEW c \in Callers, Release(c) PROVE active' <= active
    BY <2>2 DEF Release
  <2>3. ASSUME NEW c \in Callers, Refuse(c) \/ Park(c) \/ ContextDone(c)
        PROVE active' <= active
    BY <2>3 DEF Refuse, Park, ContextDone
  <2>4. ASSUME NEW n \in Limits, SetLimit(n) PROVE active' <= active
    BY <2>4 DEF SetLimit
  <2>5. CASE Shutdown
    BY <2>5 DEF Shutdown
  <2>6. CASE UNCHANGED vars
    BY <2>6 DEF vars
  <2>7. QED
    BY <2>1, <2>2, <2>3, <2>4, <2>5, <2>6 DEF Next
<1>2. TypeOK /\ [Next]_vars => [active > limit => active' <= active]_vars
  BY <1>1
<1>3. QED
  BY <1>2, TypeCorrect, PTL DEF Spec, ExcessOnlyDrains
=============================================================================
