--------------------------- MODULE TorrentPromise ---------------------------
(* What the streamer promises of one torrent, whatever the paths that tear it   *)
(* down: while a player holds a lease that is still trusted, or a background    *)
(* download has registered it, the torrent leaves the active set only because   *)
(* somebody wiped the cache by hand.  TorrentLifetime implements it.            *)

VARIABLES
  loaded,     \* the torrent is registered in the active set
  watched,    \* a player holds a lease younger than the lease's lifetime
  kept,       \* a background download protects the torrent
  ended       \* how it last left the active set

promiseVars == <<loaded, watched, kept, ended>>

Init ==
  /\ ~loaded
  /\ ~watched
  /\ kept \in BOOLEAN
  /\ ended = "never"

Load == ~loaded /\ loaded' /\ ~watched' /\ UNCHANGED <<kept, ended>>

\* Viewers come and go, leases age and downloads register: the torrent stays.
Use ==
  /\ watched' \in BOOLEAN
  /\ kept' \in BOOLEAN
  /\ watched' => loaded
  /\ UNCHANGED <<loaded, ended>>

Unload(why) ==
  /\ loaded
  /\ ~loaded'
  /\ ~watched'
  /\ ended' = why
  /\ UNCHANGED kept

\* The grace timer, the idle reaper, the health probe, an explicit stop.
Teardown == ~watched /\ ~kept /\ Unload("teardown")

\* Clearing the cache, or one entry of it, is the user's decision.
Wipe == Unload("wipe")

Next == Load \/ Use \/ Teardown \/ Wipe

Spec == Init /\ [][Next]_promiseVars
=============================================================================
