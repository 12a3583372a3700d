------------------------- MODULE PieceVerifyProofs -------------------------
(* Passes over the files of a torrent, for any goroutines, files and caps.     *)
EXTENDS PieceVerify, FiniteSetTheorems, TLAPS

PassStep(c) ==
    \/ ForgetClaim(c) \/ AlreadyClaimed(c) \/ Claim(c)
    \/ AcquireSlot(c) \/ WaitForSlot(c) \/ NoSlot(c)
    \/ HashDone(c) \/ HashInterrupted(c) \/ DropClaim(c)

LookupStep(c) == \E f \in Files : VerifyFile(c, f) \/ RecheckFile(c, f)

OutsideStep ==
    \/ DropTorrent \/ purgeVerifiedFiles \/ AddTorrent
    \/ \E n \in Limits : SetVerifyLimit(n)
    \/ CloseLimiter

LEMMA Cases ==
    Next => \/ \E c \in Callers : LookupStep(c) \/ PassStep(c)
            \/ OutsideStep
BY DEF Next, LookupStep, PassStep, OutsideStep

-----------------------------------------------------------------------------
\* What a pass, a drop or a shutdown does to the limiter is a step of the
\* limiter or leaves it alone.
LEMMA StepOfLimiter == [Next]_vars => [L!Next]_L!vars
<1> SUFFICES ASSUME [Next]_vars PROVE L!Next \/ UNCHANGED L!vars
    OBVIOUS
<1> USE DEF limiterVars, L!vars
<1>1. ASSUME NEW c \in Callers, LookupStep(c) PROVE UNCHANGED L!vars
    BY <1>1 DEF LookupStep, VerifyFile, RecheckFile, Lookup
<1>2. ASSUME NEW c \in Callers, PassStep(c) PROVE L!Next \/ UNCHANGED L!vars
    <2>1. CASE ForgetClaim(c) \/ AlreadyClaimed(c) \/ Claim(c) \/ DropClaim(c)
        BY <2>1 DEF ForgetClaim, AlreadyClaimed, Claim, DropClaim
    <2>2. CASE AcquireSlot(c) \/ WaitForSlot(c) \/ NoSlot(c)
        BY <2>2 DEF AcquireSlot, WaitForSlot, NoSlot, L!Next
    <2>3. CASE HashDone(c) \/ HashInterrupted(c)
        BY <2>3 DEF HashDone, HashInterrupted, L!Next
    <2>4. QED
        BY <1>2, <2>1, <2>2, <2>3 DEF PassStep
<1>3. CASE OutsideStep
    BY <1>3 DEF OutsideStep, DropTorrent, purgeVerifiedFiles, AddTorrent, SetVerifyLimit,
                CloseLimiter, L!Next
<1>4. QED
    BY <1>1, <1>2, <1>3, Cases DEF vars

-----------------------------------------------------------------------------
LEMMA Broadcast ==
    ASSUME NEW cs \in [Callers -> L!CallerStates]
    PROVE  L!broadcastLocked(cs) \in [Callers -> L!CallerStates]
BY DEF L!broadcastLocked, L!CallerStates

LEMMA Normalized == \A n \in Limits : L!normalizeVerifyLimit(n) \in Nat \ {0}
BY LimiterAssumption DEF L!normalizeVerifyLimit

LEMMA LimiterTyped == L!TypeOK /\ [L!Next]_L!vars => L!TypeOK'
<1> SUFFICES ASSUME L!TypeOK, L!Next \/ UNCHANGED L!vars PROVE L!TypeOK'
    OBVIOUS
<1> USE DEF L!TypeOK
<1>1. ASSUME NEW c \in Callers, L!Refuse(c) \/ L!Take(c) \/ L!Park(c) \/ L!ContextDone(c)
      PROVE  L!TypeOK'
    BY <1>1 DEF L!Refuse, L!Take, L!Park, L!ContextDone, L!CallerStates
<1>2. ASSUME NEW c \in Callers, L!Release(c) PROVE L!TypeOK'
    <2>1. [caller EXCEPT ![c] = "idle"] \in [Callers -> L!CallerStates]
        BY DEF L!CallerStates
    <2>2. caller' \in [Callers -> L!CallerStates]
        BY <1>2, <2>1, Broadcast DEF L!Release
    <2>3. active' \in Nat
        BY <1>2 DEF L!Release
    <2>4. QED
        BY <1>2, <2>2, <2>3 DEF L!Release
<1>3. ASSUME NEW n \in Limits, L!SetLimit(n) PROVE L!TypeOK'
    BY <1>3, Broadcast, Normalized DEF L!SetLimit
<1>4. CASE L!Shutdown
    BY <1>4, Broadcast DEF L!Shutdown
<1>5. CASE UNCHANGED L!vars
    BY <1>5 DEF L!vars
<1>6. QED
    BY <1>1, <1>2, <1>3, <1>4, <1>5 DEF L!Next

LEMMA PassesTyped ==
    ASSUME pass \in [Callers -> Passes], NEW c \in Callers, NEW pc \in Steps
    PROVE  GoTo(c, pc) \/ Return(c) => pass' \in [Callers -> Passes]
<1>1. NoPass \in Passes
    BY FilesAssumption DEF NoPass, Passes, Steps
<1>2. QED
    BY <1>1 DEF GoTo, Return, Passes

(* Type correctness; hashed \subseteq claims says that what is remembered of a *)
(* finished pass goes when its claim goes.                                     *)
THEOREM TypeCorrect == Spec => []TypeOK
<1>1. Init => TypeOK
    <2>1. ASSUME Init PROVE L!TypeOK
        <3>1. PICK n \in Limits : limit = L!normalizeVerifyLimit(n)
            BY <2>1 DEF Init, L!Init
        <3>2. limit \in Nat \ {0}
            BY <3>1, Normalized
        <3>3. QED
            BY <2>1, <3>2 DEF Init, L!Init, L!TypeOK, L!CallerStates
    <2>2. NoPass \in Passes
        BY FilesAssumption DEF NoPass, Passes, Steps
    <2>3. QED
        BY <2>1, <2>2 DEF Init, TypeOK
<1>2. TypeOK /\ [Next]_vars => TypeOK'
    <2> SUFFICES ASSUME TypeOK, [Next]_vars PROVE TypeOK'
        OBVIOUS
    <2>1. L!TypeOK'
        BY StepOfLimiter, LimiterTyped DEF TypeOK
    <2> DEFINE Rest == /\ claims \subseteq Files /\ hashed \subseteq claims
                       /\ live \in BOOLEAN /\ purging \in BOOLEAN
                       /\ pass \in [Callers -> Passes]
    <2>2. Rest
        BY DEF TypeOK
    <2>3. ASSUME NEW c \in Callers, LookupStep(c) PROVE Rest'
        <3>1. PICK f \in Files, n \in {"claim", "forget"} : Lookup(c, f, n)
            BY <2>3 DEF LookupStep, VerifyFile, RecheckFile
        <3>2. [pc |-> n, file |-> f] \in Passes
            BY DEF Passes, Steps
        <3>3. QED
            BY <2>2, <3>1, <3>2 DEF Lookup
    <2>4. ASSUME NEW c \in Callers, PassStep(c) PROVE Rest'
        <3> DEFINE f == pass[c].file
        <3> /\ f \in Files
            /\ \A pc \in Steps : GoTo(c, pc) \/ Return(c) => pass' \in [Callers -> Passes]
            BY <2>2, PassesTyped DEF Passes
        <3> HIDE DEF f
        <3>1. CASE ForgetClaim(c) \/ DropClaim(c)
            <4>1. pass' \in [Callers -> Passes] /\ UNCHANGED <<live, purging>>
                BY <3>1 DEF ForgetClaim, DropClaim, Steps
            <4>2. claims' = claims \ {f} /\ hashed' = hashed \ {f}
                BY <3>1 DEF ForgetClaim, DropClaim, Unclaim, f
            <4>3. QED
                BY <2>2, <4>1, <4>2
        <3>2. CASE AlreadyClaimed(c) \/ AcquireSlot(c) \/ NoSlot(c) \/ HashInterrupted(c)
            <4>1. pass' \in [Callers -> Passes] /\ UNCHANGED <<claims, hashed, live, purging>>
                BY <3>2 DEF AlreadyClaimed, AcquireSlot, NoSlot, HashInterrupted, Steps
            <4>2. QED
                BY <2>2, <4>1
        <3>3. CASE WaitForSlot(c)
            BY <2>2, <3>3 DEF WaitForSlot
        <3>4. CASE Claim(c)
            <4>1. pass' \in [Callers -> Passes] /\ UNCHANGED <<hashed, live, purging>>
                BY <3>4 DEF Claim, Steps
            <4>2. claims' = claims \cup {f}
                BY <3>4 DEF Claim, f
            <4>3. QED
                BY <2>2, <4>1, <4>2
        <3>5. CASE HashDone(c)
            <4>1. pass' \in [Callers -> Passes] /\ UNCHANGED <<claims, live, purging>>
                BY <3>5 DEF HashDone, Steps
            <4>2. hashed' = hashed \cup ({f} \cap claims)
                BY <3>5 DEF HashDone, f
            <4>3. QED
                BY <2>2, <4>1, <4>2
        <3>6. QED
            BY <2>4, <3>1, <3>2, <3>3, <3>4, <3>5 DEF PassStep
    <2>5. ASSUME OutsideStep PROVE Rest'
        BY <2>2, <2>5 DEF OutsideStep, DropTorrent, purgeVerifiedFiles, AddTorrent, SetVerifyLimit,
                          CloseLimiter, Unclaim
    <2>6. ASSUME UNCHANGED vars PROVE Rest'
        BY <2>2, <2>6 DEF vars
    <2>7. Rest'
        BY <2>3, <2>4, <2>5, <2>6, Cases
    <2>8. QED
        BY <2>1, <2>7 DEF TypeOK
<1>3. QED
    BY <1>1, <1>2, PTL DEF Spec

-----------------------------------------------------------------------------
Hashing == {c \in Callers : At(c, "hash")}

LEMMA HashingFinite == IsFiniteSet(Hashing)
BY LimiterAssumption, FS_Subset DEF Hashing

(* The limiter's counter is the number of passes that hash, whatever ends      *)
(* them: the deferred release runs on each way out of the loop, once.          *)
THEOREM SlotsMatchPasses == Spec => []SlotPerHashingPass
<1>1. Init => SlotPerHashingPass
    <2>1. Init => Hashing = {} /\ active = 0
        BY DEF Init, L!Init, Hashing, At, NoPass
    <2>2. QED
        BY <2>1, FS_EmptySet DEF SlotPerHashingPass, Hashing
<1>2. TypeOK /\ SlotPerHashingPass /\ [Next]_vars => SlotPerHashingPass'
    <2> SUFFICES ASSUME TypeOK, SlotPerHashingPass, [Next]_vars PROVE SlotPerHashingPass'
        OBVIOUS
    <2> pass \in [Callers -> Passes]
        BY DEF TypeOK
    <2>1. active = Cardinality(Hashing)
        BY DEF SlotPerHashingPass, Hashing
    <2>2. SUFFICES active' = Cardinality(Hashing')
        BY DEF SlotPerHashingPass, Hashing
    <2>3. ASSUME Hashing' = Hashing, active' = active PROVE active' = Cardinality(Hashing')
        BY <2>1, <2>3
    <2>4. ASSUME NEW c \in Callers, LookupStep(c) PROVE active' = Cardinality(Hashing')
        <3>1. PICK f \in Files, n \in {"claim", "forget"} : Lookup(c, f, n)
            BY <2>4 DEF LookupStep, VerifyFile, RecheckFile
        <3>2. Hashing' = Hashing /\ active' = active
            BY <3>1 DEF Lookup, Hashing, At, limiterVars
        <3>3. QED
            BY <2>3, <3>2
    <2>5. ASSUME NEW c \in Callers, PassStep(c) PROVE active' = Cardinality(Hashing')
        <3>1. CASE AcquireSlot(c)
            <4>1. c \notin Hashing /\ Hashing' = Hashing \cup {c} /\ active' = active + 1
                BY <3>1 DEF AcquireSlot, GoTo, Hashing, At, Passes, L!Take
            <4>2. QED
                BY <2>1, <4>1, HashingFinite, FS_AddElement
        <3>2. CASE HashDone(c) \/ HashInterrupted(c)
            <4>1. /\ c \in Hashing /\ Hashing' = Hashing \ {c}
                  /\ active' = IF active > 0 THEN active - 1 ELSE active
                BY <3>2 DEF HashDone, HashInterrupted, Return, GoTo, NoPass, Hashing, At, Passes,
                            L!Release
            <4>2. Cardinality(Hashing) # 0 /\ Cardinality(Hashing) \in Nat
                BY <4>1, HashingFinite, FS_EmptySet, FS_CardinalityType
            <4>3. QED
                BY <2>1, <4>1, <4>2, HashingFinite, FS_RemoveElement
        <3>3. CASE ForgetClaim(c) \/ AlreadyClaimed(c) \/ Claim(c) \/ DropClaim(c)
            <4>1. Hashing' = Hashing /\ active' = active
                BY <3>3 DEF ForgetClaim, AlreadyClaimed, Claim, DropClaim, Return, GoTo, NoPass,
                            Hashing, At, Passes, limiterVars
            <4>2. QED
                BY <2>3, <4>1
        <3>4. CASE WaitForSlot(c) \/ NoSlot(c)
            <4>1. Hashing' = Hashing /\ active' = active
                BY <3>4 DEF WaitForSlot, NoSlot, GoTo, Hashing, At, Passes, L!Park, L!Refuse,
                            L!ContextDone
            <4>2. QED
                BY <2>3, <4>1
        <3>5. QED
            BY <2>5, <3>1, <3>2, <3>3, <3>4 DEF PassStep
    <2>6. CASE OutsideStep
        BY <2>3, <2>6 DEF OutsideStep, DropTorrent, purgeVerifiedFiles, AddTorrent, SetVerifyLimit,
                          CloseLimiter, L!SetLimit, L!Shutdown, limiterVars, Hashing, At
    <2>7. CASE UNCHANGED vars
        BY <2>3, <2>7 DEF vars, Hashing, At
    <2>8. QED
        BY <2>4, <2>5, <2>6, <2>7, Cases
<1>3. QED
    BY <1>1, <1>2, TypeCorrect, PTL DEF Spec

-----------------------------------------------------------------------------
WorkSteps == {"acquire", "hash", "abort"}
Justified(f) == (\E c \in Callers : pass[c].pc \in WorkSteps /\ pass[c].file = f) \/ f \in hashed

\* Only the goroutine that steps can take away what justifies a claim.
LEMMA JustifiedKept ==
    ASSUME ClaimJustified, TypeOK, NEW c \in Callers,
           \A d \in Callers \ {c} : pass'[d] = pass[d],
           \A f \in claims' : f \in claims \/ Justified(f)',
           \A f \in claims' : f \in hashed => f \in hashed',
           pass[c].pc \in WorkSteps =>
             \/ pass'[c].pc \in WorkSteps /\ pass'[c].file = pass[c].file
             \/ pass[c].file \notin claims' \/ pass[c].file \in hashed'
    PROVE  ClaimJustified'
<1>1. \A f \in claims : Justified(f)
    BY DEF ClaimJustified, InFlight, Justified, WorkSteps
<1>2. SUFFICES ASSUME NEW f \in claims', ~Justified(f)' PROVE FALSE
    BY DEF ClaimJustified, InFlight, Justified, WorkSteps
<1>3. f \in claims /\ f \notin hashed
    BY <1>2 DEF Justified
<1>4. PICK d \in Callers : pass[d].pc \in WorkSteps /\ pass[d].file = f
    BY <1>1, <1>3 DEF Justified
<1>5. CASE d = c
    <2>1. pass'[d].pc \in WorkSteps /\ pass'[d].file = f
        BY <1>2, <1>4, <1>5 DEF Justified
    <2>2. QED
        BY <1>2, <2>1 DEF Justified
<1>6. CASE d # c
    BY <1>2, <1>4, <1>6 DEF Justified
<1>7. QED
    BY <1>5, <1>6

(* No claim outlives an unfinished pass, though rechecks and drops take claims *)
(* away from passes that still run: each pass either hashes a file that is     *)
(* still claimed to its end, or takes the claim with it.                       *)
THEOREM ClaimsJustified == Spec => []ClaimJustified
<1>1. Init => ClaimJustified
    BY DEF Init, ClaimJustified
<1>2. TypeOK /\ ClaimJustified /\ [Next]_vars => ClaimJustified'
    <2> SUFFICES ASSUME TypeOK, ClaimJustified, [Next]_vars PROVE ClaimJustified'
        OBVIOUS
    <2> pass \in [Callers -> Passes]
        BY DEF TypeOK
    <2> USE DEF WorkSteps
    <2>1. ASSUME NEW c \in Callers, LookupStep(c) PROVE ClaimJustified'
        <3>1. PICK f \in Files, n \in {"claim", "forget"} : Lookup(c, f, n)
            BY <2>1 DEF LookupStep, VerifyFile, RecheckFile
        <3>2. QED
            BY <3>1, JustifiedKept DEF Lookup, At
    <2>2. ASSUME NEW c \in Callers, PassStep(c) PROVE ClaimJustified'
        <3>1. CASE ForgetClaim(c)
            BY <3>1, JustifiedKept DEF ForgetClaim, GoTo, At, Unclaim, Passes
        <3>2. CASE AlreadyClaimed(c)
            BY <3>2, JustifiedKept DEF AlreadyClaimed, Return, At
        <3>3. CASE Claim(c)
            <4>1. pass'[c].pc = "acquire" /\ pass'[c].file = pass[c].file
                  /\ \A d \in Callers \ {c} : pass'[d] = pass[d]
                BY <3>3 DEF Claim, GoTo, Passes
            <4>2. \A f \in claims' : f \in claims \/ Justified(f)'
                <5>1. PICK g : g = pass[c].file /\ Justified(g)'
                  BY <4>1 DEF Justified
                <5>2. claims' = claims \cup {g}
                  BY <3>3, <5>1 DEF Claim
                <5>3. QED
                  BY <5>1, <5>2
            <4>3. QED
                BY <3>3, <4>1, <4>2, JustifiedKept DEF Claim
        <3>4. CASE AcquireSlot(c) \/ NoSlot(c) \/ HashInterrupted(c)
            BY <3>4, JustifiedKept DEF AcquireSlot, NoSlot, HashInterrupted, GoTo, Passes
        <3>5. CASE WaitForSlot(c)
            BY <3>5, JustifiedKept DEF WaitForSlot
        <3>6. CASE HashDone(c)
            BY <3>6, JustifiedKept DEF HashDone, Return
        <3>7. CASE DropClaim(c)
            BY <3>7, JustifiedKept DEF DropClaim, Return, Unclaim
        <3>8. QED
            BY <2>2, <3>1, <3>2, <3>3, <3>4, <3>5, <3>6, <3>7 DEF PassStep
    <2>3. CASE OutsideStep
        <3>1. (claims' = claims /\ hashed' = hashed) \/ claims' = claims \ Files
            BY <2>3 DEF OutsideStep, DropTorrent, purgeVerifiedFiles, AddTorrent, SetVerifyLimit,
                        CloseLimiter, Unclaim
        <3>2. UNCHANGED pass
            BY <2>3 DEF OutsideStep, DropTorrent, purgeVerifiedFiles, AddTorrent, SetVerifyLimit,
                        CloseLimiter
        <3>3. QED
            BY <3>1, <3>2 DEF TypeOK, ClaimJustified, InFlight
    <2>4. CASE UNCHANGED vars
        BY <2>4 DEF vars, ClaimJustified, InFlight
    <2>5. QED
        BY <2>1, <2>2, <2>3, <2>4, Cases
<1>3. QED
    BY <1>1, <1>2, TypeCorrect, PTL DEF Spec

-----------------------------------------------------------------------------
\* A step that frees a slot, gives the limiter room or closes it leaves nobody asleep.
LEMMA WakeupKept == L!TypeOK /\ L!NoLostWakeup /\ [L!Next]_L!vars => L!NoLostWakeup'
<1> SUFFICES ASSUME L!TypeOK, L!NoLostWakeup, L!Next \/ UNCHANGED L!vars PROVE L!NoLostWakeup'
    OBVIOUS
<1> USE DEF L!TypeOK, L!NoLostWakeup, L!Parked
<1>1. ASSUME L!Parked' = {} PROVE L!NoLostWakeup'
    BY <1>1
<1>2. ASSUME NEW c \in Callers, L!Take(c) PROVE L!NoLostWakeup'
    <2>1. L!Parked = {}
        BY <1>2 DEF L!Take
    <2>2. L!Parked' = {}
        BY <1>2, <2>1 DEF L!Take
    <2>3. QED
        BY <1>1, <2>2
<1>3. ASSUME NEW c \in Callers, L!Refuse(c) \/ L!ContextDone(c) PROVE L!NoLostWakeup'
    BY <1>3 DEF L!Refuse, L!ContextDone
<1>4. ASSUME NEW c \in Callers, L!Park(c) PROVE L!NoLostWakeup'
    BY <1>4 DEF L!Park
<1>5. ASSUME NEW cs \in [Callers -> L!CallerStates], caller' = L!broadcastLocked(cs)
      PROVE  L!NoLostWakeup'
    <2>1. L!Parked' = {}
        BY <1>5 DEF L!broadcastLocked
    <2>2. QED
        BY <1>1, <2>1
<1>6. ASSUME NEW c \in Callers, L!Release(c) PROVE L!NoLostWakeup'
    <2>1. [caller EXCEPT ![c] = "idle"] \in [Callers -> L!CallerStates]
        BY DEF L!CallerStates
    <2>2. QED
        BY <1>5, <1>6, <2>1 DEF L!Release
<1>7. ASSUME NEW n \in Limits, L!SetLimit(n) PROVE L!NoLostWakeup'
    BY <1>5, <1>7 DEF L!SetLimit
<1>8. CASE L!Shutdown
    BY <1>5, <1>8 DEF L!Shutdown
<1>9. CASE UNCHANGED L!vars
    BY <1>9 DEF L!vars
<1>10. QED
    BY <1>2, <1>3, <1>4, <1>6, <1>7, <1>8, <1>9 DEF L!Next

(* An unfinished claim is never stuck: if every pass over its file sleeps, the *)
(* limiter is open and full, and then a pass is hashing that will wake them.   *)
THEOREM ClaimsNotStuck == Spec => []ClaimsGoOn
<1>1. Init => L!NoLostWakeup
    BY DEF Init, L!Init, L!NoLostWakeup, L!Parked
<1>2. TypeOK /\ L!NoLostWakeup /\ [Next]_vars => L!NoLostWakeup'
    BY StepOfLimiter, WakeupKept DEF TypeOK
<1>3. TypeOK /\ L!NoLostWakeup /\ SlotPerHashingPass /\ ClaimJustified => ClaimsGoOn
    <2> SUFFICES ASSUME TypeOK, L!NoLostWakeup, SlotPerHashingPass, ClaimJustified,
                        NEW f \in claims \ hashed, ~Awake(f)
                 PROVE  ~closed /\ active >= limit /\ \E c \in Callers : At(c, "hash")
        BY DEF ClaimsGoOn
    <2>1. PICK c \in InFlight(f) : TRUE
        BY DEF ClaimJustified
    <2>2. c \in L!Parked
        BY <2>1 DEF Awake, InFlight, L!Parked
    <2>3. ~closed /\ active >= limit
        BY <2>2 DEF L!NoLostWakeup
    <2>4. active > 0 /\ active = Cardinality(Hashing)
        BY <2>3 DEF TypeOK, L!TypeOK, SlotPerHashingPass, Hashing
    <2>5. Hashing # {}
        BY <2>4, FS_EmptySet
    <2>6. QED
        BY <2>3, <2>5 DEF Hashing
<1>4. QED
    BY <1>1, <1>2, <1>3, TypeCorrect, SlotsMatchPasses, ClaimsJustified, PTL DEF Spec
=============================================================================
