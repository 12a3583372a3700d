------------------------------ MODULE MCServer ------------------------------
(***************************************************************************)
(* The piece-hash limiter, the lifetime of the loaded torrents, the HLS    *)
(* sessions and the refresh tokens of an account.  They have no common     *)
(* state and do not call each other, so one run checks them side by side:  *)
(* a behaviour is one of a single component, named by `focus', while the   *)
(* others stay in their initial state.                                     *)
(***************************************************************************)
EXTENDS VerifyLimiter, TorrentLifetime, HlsSessions, Sessions, TLC

CONSTANTS c1, c2, c3, a1, pr, r1, r2, k1, k2, b1

\* Three goroutines, caps that rise, fall and have to be normalised.
MCCallers == {c1, c2, c3}
MCLimits  == {0, 1, 2}

\* Two requests for the same stream, one of which also asks for another.
MCAsks == {<<r1, k1>>, <<r2, k1>>, <<r2, k2>>}

\* Two tabs of one browser.
MCTabs == {<<b1, 1>>, <<b1, 2>>}

VARIABLE focus

On(part) == focus = part /\ UNCHANGED focus

ServerInit ==
    /\ focus \in {"limiter", "lifetime", "hls", "sessions"}
    /\ Init /\ LifetimeInit /\ HlsInit /\ SessionsInit
    /\ focus # "limiter" => limit = 1
    /\ focus # "lifetime" => ~seedTracker
    /\ focus # "sessions" => account = "active"

ServerNext ==
    \/ On("limiter")  /\ Next         /\ UNCHANGED <<lifetimeVars, hlsVars, sessionVars>>
    \/ On("lifetime") /\ LifetimeNext /\ UNCHANGED <<vars, hlsVars, sessionVars>>
    \/ On("hls")      /\ HlsNext      /\ UNCHANGED <<vars, lifetimeVars, sessionVars>>
    \/ On("sessions") /\ SessionsNext /\ UNCHANGED <<vars, lifetimeVars, hlsVars>>

(* No fair action can be taken in the initial state of its component, so    *)
(* fairness asks nothing of a component at rest.                            *)
ServerSpec ==
    /\ ServerInit /\ [][ServerNext]_<<focus, vars, lifetimeVars, hlsVars, sessionVars>>
    /\ Fairness /\ LifetimeFairness /\ SessionsFairness

TypesOK == TypeOK /\ LifetimeTypeOK /\ HlsTypeOK /\ SessionsTypeOK
=============================================================================
