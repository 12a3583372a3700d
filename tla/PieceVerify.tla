---------------------------- MODULE PieceVerify ----------------------------
(***************************************************************************)
(* Verifying the on-disk pieces of one torrent's files                     *)
(* (internal/streamer/streamer_verify.go).  A pass over a file claims the  *)
(* file in verifiedFiles, takes a slot of the piece-hash limiter, hashes,  *)
(* and gives the slot back.  A pass that does not reach the end removes    *)
(* the claim.  The claim of a pass that does reach it stays, so that later *)
(* calls of VerifyFile return at once, until the torrent is dropped.       *)
(*                                                                         *)
(* s.mu guards the table of active torrents, verifiedMu the claims, l.mu   *)
(* the limiter, and no two are held together: each critical section is one *)
(* step, and everything else happens between them.                         *)
(***************************************************************************)
EXTENDS Integers, FiniteSets

CONSTANTS
    Callers,      \* goroutines that verify or recheck
    Limits,       \* arguments of SetVerifyLimit
    Files         \* the files of the torrent

ASSUME FilesAssumption == Files # {}
ASSUME LimiterAssumption ==
    IsFiniteSet(Callers) /\ Limits \subseteq Int /\ Limits # {}

VARIABLES
    limit, active, closed, caller,   \* the limiter, s.verifyLim
    claims,       \* s.verifiedFiles, the keys of this torrent
    live,         \* the torrent is in s.active
    purging,      \* dropped, and purgeVerifiedFiles is still to run
    hashed,       \* claimed files that some pass has hashed to the end
    pass          \* what each goroutine is doing

limiterVars == <<limit, active, closed, caller>>
vars == <<limit, active, closed, caller, claims, live, purging, hashed, pass>>

L == INSTANCE VerifyLimiter

Steps == {"none", "forget", "claim", "acquire", "hash", "abort"}

Passes == [pc : Steps, file : Files]
NoPass == [pc |-> "none", file |-> CHOOSE f \in Files : TRUE]

At(c, pc)   == pass[c].pc = pc
GoTo(c, pc) == pass' = [pass EXCEPT ![c].pc = pc]
Return(c)   == pass' = [pass EXCEPT ![c] = NoPass]

-----------------------------------------------------------------------------
Init ==
    /\ L!Init
    /\ claims = {}
    /\ live = TRUE
    /\ purging = FALSE
    /\ hashed = {}
    /\ pass = [c \in Callers |-> NoPass]

(* VerifyFile and RecheckFile look the torrent up under s.mu and keep the   *)
(* handle; with the torrent not active they return an error.                *)
Lookup(c, f, next) ==
    /\ At(c, "none")
    /\ live
    /\ pass' = [pass EXCEPT ![c] = [pc |-> next, file |-> f]]
    /\ UNCHANGED <<limiterVars, claims, live, purging, hashed>>

VerifyFile(c, f)  == Lookup(c, f, "claim")
RecheckFile(c, f) == Lookup(c, f, "forget")

Unclaim(S) == claims' = claims \ S /\ hashed' = hashed \ S

(* RecheckFile releases the claim first, whoever holds it. *)
ForgetClaim(c) ==
    /\ At(c, "forget")
    /\ Unclaim({pass[c].file})
    /\ GoTo(c, "claim")
    /\ UNCHANGED <<limiterVars, live, purging>>

AlreadyClaimed(c) ==
    /\ At(c, "claim")
    /\ pass[c].file \in claims
    /\ Return(c)
    /\ UNCHANGED <<limiterVars, claims, live, purging, hashed>>

Claim(c) ==
    /\ At(c, "claim")
    /\ pass[c].file \notin claims
    /\ claims' = claims \cup {pass[c].file}
    /\ GoTo(c, "acquire")
    /\ UNCHANGED <<limiterVars, live, purging, hashed>>

AcquireSlot(c) ==
    /\ At(c, "acquire")
    /\ L!Take(c)
    /\ GoTo(c, "hash")
    /\ UNCHANGED <<claims, live, purging, hashed>>

WaitForSlot(c) ==
    /\ At(c, "acquire")
    /\ L!Park(c)
    /\ UNCHANGED <<claims, live, purging, hashed, pass>>

NoSlot(c) ==
    /\ At(c, "acquire")
    /\ L!Refuse(c) \/ L!ContextDone(c)
    /\ GoTo(c, "abort")
    /\ UNCHANGED <<claims, live, purging, hashed>>

(* The loop reached its end: `completed' is set, only the slot is returned. *)
HashDone(c) ==
    /\ At(c, "hash")
    /\ L!Release(c)
    /\ hashed' = hashed \cup ({pass[c].file} \cap claims)
    /\ Return(c)
    /\ UNCHANGED <<claims, live, purging>>

(* mutant: the early return keeps the slot *)
HashInterruptedKeepsSlot(c) ==
    /\ At(c, "hash")
    /\ GoTo(c, "abort")
    /\ UNCHANGED <<limiterVars, claims, live, purging, hashed>>

(* ctx was canceled between two pieces, or a recheck met an I/O error.  The *)
(* deferred calls run in reverse order: the slot first, then the claim.     *)
HashInterrupted(c) ==
    /\ At(c, "hash")
    /\ L!Release(c)
    /\ GoTo(c, "abort")
    /\ UNCHANGED <<claims, live, purging, hashed>>

(* mutant: the claim of the unfinished pass stays *)
DropClaimNot(c) ==
    /\ At(c, "abort")
    /\ Return(c)
    /\ UNCHANGED <<limiterVars, claims, live, purging, hashed>>

DropClaim(c) ==
    /\ At(c, "abort")
    /\ Unclaim({pass[c].file})
    /\ Return(c)
    /\ UNCHANGED <<limiterVars, live, purging>>

(* drop: out of s.active, then t.Drop(), then purgeVerifiedFiles.  A        *)
(* goroutine that got hold of the torrent before keeps hashing it.          *)
DropTorrent ==
    /\ live /\ ~purging
    /\ live' = FALSE
    /\ purging' = TRUE
    /\ UNCHANGED <<limiterVars, claims, hashed, pass>>

purgeVerifiedFiles ==
    /\ purging
    /\ purging' = FALSE
    /\ Unclaim(Files)
    /\ UNCHANGED <<limiterVars, live, pass>>

AddTorrent ==
    /\ ~live
    /\ live' = TRUE
    /\ UNCHANGED <<limiterVars, claims, purging, hashed, pass>>

SetVerifyLimit(n) == L!SetLimit(n) /\ UNCHANGED <<claims, live, purging, hashed, pass>>
CloseLimiter      == L!Shutdown    /\ UNCHANGED <<claims, live, purging, hashed, pass>>

Next ==
    \/ \E c \in Callers :
        \/ \E f \in Files : VerifyFile(c, f) \/ RecheckFile(c, f)
        \/ ForgetClaim(c) \/ AlreadyClaimed(c) \/ Claim(c)
        \/ AcquireSlot(c) \/ WaitForSlot(c) \/ NoSlot(c)
        \/ HashDone(c) \/ HashInterrupted(c) \/ DropClaim(c)
    \/ DropTorrent \/ purgeVerifiedFiles \/ AddTorrent
    \/ \E n \in Limits : SetVerifyLimit(n)
    \/ CloseLimiter

Spec == Init /\ [][Next]_vars

-----------------------------------------------------------------------------
InFlight(f) == {c \in Callers : pass[c].pc \in {"acquire", "hash", "abort"} /\ pass[c].file = f}

TypeOK ==
    /\ L!TypeOK
    /\ claims \subseteq Files /\ hashed \subseteq claims
    /\ live \in BOOLEAN /\ purging \in BOOLEAN
    /\ pass \in [Callers -> Passes]

(* The limiter's counter is the number of passes that are hashing, through  *)
(* give-ups, interrupted passes, drops and shutdown: none leaks a slot.     *)
SlotPerHashingPass == active = Cardinality({c \in Callers : At(c, "hash")})

(* A claim does not outlive an unfinished pass: a claimed file is being     *)
(* worked on or was hashed to the end; otherwise every later VerifyFile     *)
(* would be a no-op and the bytes on disk be downloaded again.  Rechecks,   *)
(* drops and interruptions take claims from under each other.               *)
ClaimJustified == \A f \in claims : InFlight(f) # {} \/ f \in hashed

(* A claim keeps every other call from verifying its file, so it must not   *)
(* hang: a pass works on it that is awake, or all its passes sleep and wait *)
(* for a slot somebody is really hashing with, and not for a limiter that   *)
(* was closed, was given room by SetLimit, or lost the slot of a pass that  *)
(* was interrupted.                                                         *)
Awake(f) == \E c \in InFlight(f) : caller[c] # "parked"

ClaimsGoOn == \A f \in claims \ hashed :
    Awake(f) \/ (~closed /\ active >= limit /\ \E c \in Callers : At(c, "hash"))

(* "this map tracks only currently-active torrents": without a torrent and  *)
(* without a call in progress there is no claim.                            *)
ClaimsOnlyActive ==
    ~live /\ ~purging /\ (\A c \in Callers : At(c, "none")) => claims = {}
=============================================================================
