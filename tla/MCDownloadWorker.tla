-------------------------- MODULE MCDownloadWorker --------------------------
EXTENDS DownloadWorker, TLC

CONSTANTS r1, r2, t1, t2, u1, u2, i1, i2, i3, m1, m2

OneRow  == {r1}
TwoRows == {r1, r2}

\* two files of one torrent of one user; two users with the same torrent; two torrents
OneUser       == r1 :> u1 @@ r2 :> u1
TwoUsers      == r1 :> u1 @@ r2 :> u2
OneTorrent    == r1 :> t1 @@ r2 :> t1
TwoTorrents   == r1 :> t1 @@ r2 :> t2
Normal        == r1 :> 2 @@ r2 :> 2
HighFirst     == r1 :> 3 @@ r2 :> 2

NoWhole  == {}
WholeRow == {r1}

OneInit    == {i1}
TwoInits   == {i1, i2}
ThreeInits == {i1, i2, i3}
OneMove    == {m1}
TwoMoves   == {m1, m2}

SwapRows == Permutations({r1, r2})
=============================================================================
