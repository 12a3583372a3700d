---------------------------- MODULE LocalStream -----------------------------
(***************************************************************************)
(* The registry of open local files (internal/localstream) and those who   *)
(* read through it: direct play, and HLS sessions, which outlive the       *)
(* request that opened the file for them.  One file, so one key of the     *)
(* registry for each of the two ways; HLS has a session per kind of player *)
(* and all of them share the key.                                          *)
(***************************************************************************)
EXTENDS Naturals

CONSTANTS
  Players,   \* kinds of HLS player, each with a session of its own
  Plays,     \* requests under way
  Sources,   \* sessions of the registry, each with an open file
  NoHandle   \* nothing

ASSUME StreamAssumption == NoHandle \notin Sources

VARIABLES
  source,    \* per source: closed or not, its key, and when it was last read
  slot,      \* the registry's map
  play,      \* per request: where it is, its source and its player
  reader     \* per player: the source its HLS session reads from

streamVars == <<source, slot, play, reader>>

Ways == {"hls", "direct"}

NoPlay == [at |-> "out", source |-> NoHandle, player |-> NoHandle]

StreamTypeOK ==
  /\ source \in [Sources -> [at : {"new", "open", "closed"}, way : Ways,
                             read : {"never", "lately", "long ago"}]]
  /\ slot \in [Ways -> Sources \cup {NoHandle}]
  /\ play \in [Plays -> [at : {"out", "asking", "building", "serving"},
                         source : Sources \cup {NoHandle}, player : Players \cup {NoHandle}]]
  /\ reader \in [Players -> Sources \cup {NoHandle}]

StreamInit ==
  /\ source = [s \in Sources |-> [at |-> "new", way |-> "hls", read |-> "never"]]
  /\ slot = [w \in Ways |-> NoHandle]
  /\ play = [p \in Plays |-> NoPlay]
  /\ reader = [k \in Players |-> NoHandle]

-----------------------------------------------------------------------------
(* The registry; each of its methods is one critical section.              *)

IsOpen(s)  == source[s].at = "open"
Mapped(s)  == \E w \in Ways : slot[w] = s
Close(S)   == source' = [s \in Sources |-> IF s \in S THEN [source[s] EXCEPT !.at = "closed"]
                                           ELSE source[s]]

(* The newest session takes the key; the one it displaces stays open.      *)
OpenSolo(w, s) ==
  /\ source[s].at = "new"
  /\ source' = [source EXCEPT ![s] = [at |-> "open", way |-> w, read |-> "never"]]
  /\ slot' = [slot EXCEPT ![w] = s]

(* mutant: only the session that still has the key is closed *)
ReleaseMapped(s) ==
  LET w == source[s].way
  IN  IF slot[w] = s THEN Close({s}) /\ slot' = [slot EXCEPT ![w] = NoHandle]
      ELSE UNCHANGED <<source, slot>>

(* mutant: whoever has the key is closed *)
ReleaseKey(s) ==
  LET w == source[s].way
  IN  Close({slot[w]}) /\ slot' = [slot EXCEPT ![w] = NoHandle]

Release(s) ==
  /\ Close({s})
  /\ slot' = [w \in Ways |-> IF slot[w] = s THEN NoHandle ELSE slot[w]]

(* Idle is a minute without a read; a session that was never read is not.  *)
Idle == {s \in Sources : Mapped(s) /\ source[s].read = "long ago"}

reap ==
  /\ Idle # {}
  /\ Close(Idle)
  /\ slot' = [w \in Ways |-> IF slot[w] \in Idle THEN NoHandle ELSE slot[w]]
  /\ UNCHANGED <<play, reader>>

Read(s) ==
  /\ IsOpen(s)
  /\ source' = [source EXCEPT ![s].read = "lately"]
  /\ UNCHANGED <<slot, play, reader>>

AMinutePasses(s) ==
  /\ IsOpen(s) /\ source[s].read = "lately"
  /\ source' = [source EXCEPT ![s].read = "long ago"]
  /\ UNCHANGED <<slot, play, reader>>

-----------------------------------------------------------------------------
(* Direct play: open, serve, release.                                      *)

OpenDirect(p, s) ==
  /\ play[p].at = "out"
  /\ OpenSolo("direct", s)
  /\ play' = [play EXCEPT ![p] = [NoPlay EXCEPT !.at = "serving", !.source = s]]
  /\ UNCHANGED reader

ReadDirect(p) == play[p].at = "serving" /\ Read(play[p].source)

EndDirect(p) ==
  /\ play[p].at = "serving"
  /\ Release(play[p].source)
  /\ play' = [play EXCEPT ![p] = NoPlay]
  /\ UNCHANGED reader

-----------------------------------------------------------------------------
(* HLS.  The file is opened before the manager is asked, and GetOrStart    *)
(* takes it over.  Closing it there has no effect: closeIfCloser closes    *)
(* what is an io.Closer, and a session of the registry is not.             *)

Building(k) == \E p \in Plays : play[p].at = "building" /\ play[p].player = k

startLocalHLSSession(p, k, s) ==
  /\ play[p].at = "out"
  /\ OpenSolo("hls", s)
  /\ play' = [play EXCEPT ![p] = [at |-> "asking", source |-> s, player |-> k]]
  /\ UNCHANGED reader

(* The session is there, and has its own source. *)
FindsSession(p) ==
  /\ play[p].at = "asking" /\ reader[play[p].player] # NoHandle
  /\ play' = [play EXCEPT ![p] = NoPlay]
  /\ UNCHANGED <<source, slot, reader>>

BeginsBuild(p) ==
  /\ play[p].at = "asking" /\ reader[play[p].player] = NoHandle
  /\ ~Building(play[p].player)
  /\ play' = [play EXCEPT ![p].at = "building"]
  /\ UNCHANGED <<source, slot, reader>>

BuildSucceeds(p) ==
  /\ play[p].at = "building"
  /\ reader' = [reader EXCEPT ![play[p].player] = play[p].source]
  /\ play' = [play EXCEPT ![p] = NoPlay]
  /\ UNCHANGED <<source, slot>>

(* The build failed, or the client went while another request was building. *)
closeSource(p) ==
  /\ \/ play[p].at = "building"
     \/ play[p].at = "asking" /\ Building(play[p].player)
  /\ Release(play[p].source)
  /\ play' = [play EXCEPT ![p] = NoPlay]
  /\ UNCHANGED reader

ReadSession(k) == reader[k] # NoHandle /\ Read(reader[k])

(* The session is closed, collected as idle, or reaped after it failed.    *)
StopSession(k) ==
  /\ reader[k] # NoHandle
  /\ reader' = [reader EXCEPT ![k] = NoHandle]
  /\ UNCHANGED <<source, slot, play>>

-----------------------------------------------------------------------------
PlayStep(p) ==
  \/ \E s \in Sources : OpenDirect(p, s) \/ \E k \in Players : startLocalHLSSession(p, k, s)
  \/ ReadDirect(p) \/ EndDirect(p)
  \/ FindsSession(p) \/ BeginsBuild(p) \/ BuildSucceeds(p) \/ closeSource(p)

StreamNext ==
  \/ \E p \in Plays : PlayStep(p)
  \/ \E k \in Players : ReadSession(k) \/ StopSession(k)
  \/ \E s \in Sources : AMinutePasses(s)
  \/ reap

StreamSpec == StreamInit /\ [][StreamNext]_streamVars

-----------------------------------------------------------------------------
InUse(s) == (\E p \in Plays : play[p].source = s) \/ \E k \in Players : reader[k] = s

(* Whoever reads keeps the file: it is closed under a reader only after a  *)
(* minute without a read, never because somebody else played the same file *)
(* and left (registry.go:82-85 and 93-95).                                 *)
ReadersKeepHandle == \A s \in Sources :
  InUse(s) /\ source[s].read # "long ago" => IsOpen(s)

(* A file opened for direct play is closed by the request that opened it,  *)
(* also when a later request has taken its key and the reaper cannot see   *)
(* it any more (registry.go:82-84).                                        *)
DirectHandlesEnd == \A s \in Sources :
  IsOpen(s) /\ source[s].way = "direct" => InUse(s)

(* Every open file has somebody who will close it: it is in the map, where *)
(* the reaper sees it, or in use ("so a closed player doesn't leak file    *)
(* handles", registry.go:20).  A source of HLS that lost its key has not.  *)
NoHandleLeaks == \A s \in Sources : IsOpen(s) => Mapped(s) \/ InUse(s)
=============================================================================
