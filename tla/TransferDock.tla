---------------------------- MODULE TransferDock ----------------------------
(* Moving finished files: the jobs of the transfer dock (internal/transfer), the *)
(* copy they make (a scratch name, then the final one, then the source goes), the *)
(* row whose file_path must follow, and the intent kept in the database so that   *)
(* a restart finishes what a crash cut off.  Three kinds of job share the dock:   *)
(* the move after a download, the promotion to the library, and the move a user   *)
(* makes in the Local tab.  A torrent of several files moves file by file: the    *)
(* model follows any one of them, and the others show as failures before or after *)
(* it.  Writes to the database that fail are ignored by the code and go on.       *)
EXTENDS Naturals, FiniteSets

CONSTANTS
  Items,       \* downloads; an item also names the place in the cache it comes from
  Folders,     \* those of several files
  Dests,       \* final names under the library
  NoFile,      \* what is at a place that holds no file
  Jobs,        \* bound: transfer jobs ever submitted
  Slots,       \* jobs that run at a time
  MaxTrouble   \* bound: crashes, failed copies and writes, and cancellations

ASSUME DockAssumption ==
  NoFile \notin Items /\ Folders \subseteq Items /\ Slots \in Nat \ {0} /\ MaxTrouble \in Nat

Places == Items \union Dests

VARIABLES
  files,      \* whose file each place holds; of a folder, the file that is followed
  torn,       \* places whose file is incomplete
  row,        \* file_path of the item's row (its cache place before completion)
  completed,  \* items whose row is `completed'
  jobs,       \* the jobs: what they move, where they are, what the dock shows
  intent,     \* jobs the database knows about: row `moving', or pending_transfers
  shared,     \* history: items of transfers that had a place in common
  astray,     \* history: items a transfer has left with a row that nothing will mend
  trouble

dockVars == <<files, torn, row, completed, jobs, intent, shared, astray, trouble>>

NoJob == [kind |-> "none", item |-> NoFile, from |-> NoFile, to |-> NoFile,
          copied |-> NoFile, pc |-> "free", status |-> "none"]

JobSteps == {"running", "writing", "copied", "placed", "moved", "pointed", "failed"}

Holding == {j \in Jobs : jobs[j].pc \in JobSteps}
Unfinished == {j \in Jobs : jobs[j].pc \in JobSteps \union {"queued", "lost"}} \union intent
Visible == {"queued", "running", "done", "failed", "canceled"}

DockTypeOK ==
  /\ files \in [Places -> Items \union {NoFile}] /\ torn \subseteq Places
  /\ row \in [Items -> Places] /\ completed \subseteq Items
  /\ jobs \in [Jobs -> [kind : {"none", "completion", "promote", "move"},
                        item : Items \union {NoFile}, from : Places \union {NoFile},
                        to : Dests \union {NoFile}, copied : Items \union {NoFile},
                        pc : JobSteps \union {"free", "queued", "lost", "over"},
                        status : Visible \union {"none"}]]
  /\ intent \subseteq Jobs /\ shared \subseteq Items /\ astray \subseteq Items
  /\ trouble \in 0..MaxTrouble

DockInit ==
  /\ files = [p \in Places |-> IF p \in Items THEN p ELSE NoFile]
  /\ torn = {} /\ row = [d \in Items |-> d] /\ completed = {}
  /\ jobs = [j \in Jobs |-> NoJob] /\ intent = {} /\ shared = {} /\ astray = {} /\ trouble = 0

Trouble == trouble < MaxTrouble /\ trouble' = trouble + 1

(***************************************************************************)
(* Submitting.  The reconciler has run before the server listens.          *)
(***************************************************************************)

\* Whose files a transfer of d may get in the way of: those of unfinished transfers
\* with a place in common, or of the same folder, the one that is there, and the one
\* it takes for its own.
InTheWay(d, from, to) ==
  {jobs[k].item : k \in {k \in Unfinished : \/ jobs[k].to \in {from, to}
                                            \/ jobs[k].from = to
                                            \/ jobs[k].item = d /\ d \in Folders}}
  \union ({files[to]} \ {NoFile}) \union ({files[from]} \ {NoFile, d})

Submit(j, kind, d, to) ==
  /\ jobs[j].pc = "free" /\ \A k \in Jobs : jobs[k].pc # "lost"
  /\ \A k \in Jobs : k < j => jobs[k].pc # "free"
  /\ jobs' = [jobs EXCEPT ![j] = [NoJob EXCEPT !.kind = kind, !.item = d, !.from = row[d],
                                               !.to = to, !.pc = "queued", !.status = "queued"]]
  /\ shared' = IF InTheWay(d, row[d], to) = {} THEN shared
               ELSE shared \union InTheWay(d, row[d], to) \union {d}
  /\ UNCHANGED <<files, torn, row, completed, astray>>

\* checkCompletion makes the row `moving' and submits; DownloadWorker has when.
\* A place that holds another download's file is not refused.
SubmitCompletion(j, d, to) ==
  /\ d \notin completed
  /\ \A k \in Unfinished : jobs[k].item # d
  /\ Submit(j, "completion", d, to)
  /\ intent' = intent \union {j} /\ UNCHANGED trouble

\* A folder is there while it has any file.
MayHold(p, d) == files[p] # NoFile \/ d \in Folders

hasPendingPromoteIntent(from, to) ==
  \E k \in intent : jobs[k].kind = "promote" /\ jobs[k].from = from /\ jobs[k].to = to

\* promotePreparePlan: a place that is taken is refused, unless an interrupted
\* promotion of the same file to it is on record.  The promotion goes on when the
\* record cannot be written.
PromoteDownload(j, d, to) ==
  /\ d \in completed /\ row[d] # to
  /\ MayHold(row[d], d)
  /\ files[to] = NoFile \/ hasPendingPromoteIntent(row[d], to)
  /\ Submit(j, "promote", d, to)
  /\ \/ intent' = intent \union {j} /\ UNCHANGED trouble
     \/ Trouble /\ UNCHANGED intent

LocalMove(j, d, to) ==
  /\ d \in completed /\ row[d] # to
  /\ MayHold(row[d], d) /\ files[to] = NoFile
  /\ Submit(j, "move", d, to)
  /\ UNCHANGED <<intent, trouble>>

(***************************************************************************)
(* The job.  A canceled one still waits for its slot and runs.             *)
(***************************************************************************)

Goto(j, pc) == jobs' = [jobs EXCEPT ![j].pc = pc]
SameBooks == UNCHANGED <<row, completed, intent, shared, astray>>
SameDisk == UNCHANGED <<files, torn>>

Begin(j) ==
  /\ jobs[j].pc = "queued" /\ Cardinality(Holding) < Slots
  /\ jobs' = [jobs EXCEPT ![j].pc = "running",
                          ![j].status = IF @ = "queued" THEN "running" ELSE @]
  /\ SameDisk /\ SameBooks /\ UNCHANGED trouble

InFolder(j) == jobs[j].item \in Folders

\* Within one filesystem; a folder is not renamed onto one that has files.
Rename(j) ==
  LET from == jobs[j].from  to == jobs[j].to IN
  /\ jobs[j].pc = "running" /\ files[from] # NoFile
  /\ InFolder(j) /\ jobs[j].kind # "completion" => files[to] = NoFile
  /\ files' = [files EXCEPT ![from] = NoFile, ![to] = files[from]]
  /\ torn' = IF from \in torn THEN (torn \ {from}) \union {to} ELSE torn \ {to}
  /\ Goto(j, "moved") /\ SameBooks /\ UNCHANGED trouble

SameFile(p, q) == files[p] = files[q] /\ q \notin torn

\* A destination of the same size was copied before: the source goes.  Files of
\* two items, and an incomplete one, may have the same size by chance.
AlreadyThere(j) ==
  LET from == jobs[j].from  to == jobs[j].to IN
  /\ jobs[j].pc = "running" /\ files[to] # NoFile
  /\ files[from] # NoFile \/ jobs[j].kind = "completion"
  /\ files' = [files EXCEPT ![from] = NoFile]
  /\ torn' = torn \ {from}
  /\ Goto(j, "moved") /\ SameBooks /\ UNCHANGED trouble

\* A copy of a folder goes through the files it finds there: one that an earlier
\* try has moved is not among them.
Skip(j) ==
  /\ jobs[j].pc = "running" /\ jobs[j].kind # "completion" /\ InFolder(j)
  /\ files[jobs[j].from] = NoFile
  /\ Goto(j, "moved") /\ SameDisk /\ SameBooks /\ UNCHANGED trouble

Open(j) ==
  /\ jobs[j].pc = "running" /\ files[jobs[j].from] # NoFile
  /\ ~SameFile(jobs[j].from, jobs[j].to)
  /\ jobs' = [jobs EXCEPT ![j].pc = "writing", ![j].copied = files[jobs[j].from]]
  /\ SameDisk /\ SameBooks /\ UNCHANGED trouble

SourceGone(j) ==
  /\ jobs[j].pc = "running" /\ files[jobs[j].from] = NoFile
  /\ jobs[j].kind = "completion" => files[jobs[j].to] = NoFile
  /\ Goto(j, "failed") /\ SameDisk /\ SameBooks /\ UNCHANGED trouble

\* Only the move after a download looks at the job's context, between two reads and
\* between two files.
Stops(j) ==
  \/ jobs[j].kind = "completion" /\ jobs[j].status = "canceled" /\ UNCHANGED trouble
  \/ Trouble

Abort(j) ==
  /\ jobs[j].pc = "writing" /\ Stops(j)
  /\ Goto(j, "failed") /\ SameDisk /\ SameBooks

\* Another file of the folder is not moved, before this one or after it.
OtherFileFails(j) ==
  /\ jobs[j].pc \in {"running", "moved"} /\ InFolder(j) /\ Stops(j)
  /\ Goto(j, "failed") /\ SameDisk /\ SameBooks

CopyEnds(j) ==
  /\ jobs[j].pc = "writing"
  /\ Goto(j, "copied") /\ SameDisk /\ SameBooks /\ UNCHANGED trouble

(* mutant: the error of the last rename is ignored *)
RenameFailsUnseen(j) ==
  jobs[j].pc = "copied" /\ Trouble /\ Goto(j, "placed") /\ SameDisk /\ SameBooks

RenameFails(j) ==
  /\ jobs[j].pc = "copied" /\ Trouble
  /\ Goto(j, "failed") /\ SameDisk /\ SameBooks

\* The scratch name depends on the destination only: a second copy to the same
\* place truncates and overwrites the first one's bytes.
Place(j) ==
  LET to == jobs[j].to IN
  /\ jobs[j].pc = "copied"
  /\ files' = [files EXCEPT ![to] = jobs[j].copied]
  /\ torn' \in {torn \ {to}} \union
       {torn \union {to} : k \in {k \in Jobs \ {j} : jobs[k].to = to /\ jobs[k].pc = "writing"}}
  /\ Goto(j, "placed") /\ SameBooks /\ UNCHANGED trouble

Unlink(j) ==
  LET from == jobs[j].from IN
  /\ jobs[j].pc = "placed"
  /\ IF files[from] # NoFile
     THEN files' = [files EXCEPT ![from] = NoFile] /\ torn' = torn \ {from} /\ Goto(j, "moved")
     ELSE SameDisk /\ Goto(j, "failed")
  /\ SameBooks /\ UNCHANGED trouble

UnlinkFails(j) ==
  /\ jobs[j].pc = "placed" /\ Trouble
  /\ Goto(j, "failed") /\ SameDisk /\ SameBooks

\* SetFilePath, after the last file; a local move relinks the rows that still name
\* the old place.
Point(j) ==
  LET d == jobs[j].item IN
  /\ jobs[j].pc = "moved"
  /\ row' = IF jobs[j].kind = "move" /\ row[d] # jobs[j].from
            THEN row ELSE [row EXCEPT ![d] = jobs[j].to]
  /\ Goto(j, "pointed") /\ SameDisk /\ UNCHANGED <<completed, intent, shared, astray, trouble>>

\* The write is refused, and the job goes on as if it had been made.
PointFails(j) ==
  /\ jobs[j].pc = "moved" /\ Trouble
  /\ astray' = astray \union {jobs[j].item}
  /\ Goto(j, "pointed") /\ SameDisk /\ UNCHANGED <<row, completed, intent, shared>>

\* finish: the dock keeps showing `canceled'.
Finished(j, status) ==
  jobs' = [jobs EXCEPT ![j].pc = "over",
                       ![j].status = IF @ = "canceled" THEN @ ELSE status]

Settle(j) ==
  /\ jobs[j].pc = "pointed"
  /\ completed' = IF jobs[j].kind = "completion" THEN completed \union {jobs[j].item} ELSE completed
  /\ intent' = intent \ {j}
  /\ Finished(j, "done") /\ SameDisk /\ UNCHANGED <<row, shared, astray, trouble>>

\* The row stays `moving', or the record of the promotion stays.
SettleUnrecorded(j) ==
  /\ jobs[j].pc = "pointed" /\ j \in intent /\ Trouble
  /\ Finished(j, "done") /\ SameDisk /\ SameBooks

Retry(j) ==
  /\ jobs[j].pc = "failed" /\ jobs[j].kind = "completion" /\ jobs[j].status # "canceled"
  /\ Trouble
  /\ Goto(j, "running") /\ SameDisk /\ SameBooks

\* Some files of the folder are at the destination, and the row names the old place.
Halfway(j) == jobs[j].pc = "failed" /\ InFolder(j) /\ files[jobs[j].from] = NoFile

\* The row of a download is set to `failed'; the intent of a promotion stays.
GiveUp(j) ==
  /\ jobs[j].pc = "failed"
  /\ intent' = IF jobs[j].kind = "completion" THEN intent \ {j} ELSE intent
  /\ astray' = IF Halfway(j) /\ j \notin intent' THEN astray \union {jobs[j].item} ELSE astray
  /\ Finished(j, "failed") /\ SameDisk /\ UNCHANGED <<row, completed, shared, trouble>>

Cancel(j) ==
  /\ jobs[j].status \in {"queued", "running"} /\ jobs[j].pc # "lost" /\ Trouble
  /\ jobs' = [jobs EXCEPT ![j].status = "canceled"]
  /\ SameDisk /\ SameBooks

(***************************************************************************)
(* A new process: the dock is empty, the disk and the database are not.    *)
(***************************************************************************)

\* What is not on record is cut where it is.
CutShort == {j \in Jobs \ intent : jobs[j].pc = "moved" \/ Halfway(j)}

Restart ==
  /\ Trouble
  /\ astray' = astray \union {jobs[j].item : j \in CutShort}
  /\ jobs' = [j \in Jobs |->
       IF jobs[j].pc = "free" THEN jobs[j]
       ELSE [jobs[j] EXCEPT !.status = "none", !.pc = IF j \in intent THEN "lost" ELSE "over"]]
  /\ SameDisk /\ UNCHANGED <<row, completed, intent, shared>>

(* mutant: the entry is cleared, the row left alone *)
repointNot(j) == row

repoint(j) == IF files[jobs[j].to] = NoFile THEN row ELSE [row EXCEPT ![jobs[j].item] = jobs[j].to]

\* reconcilePromote: a promotion whose source is gone is taken for done if its
\* destination is there.
TakeForDone(j) ==
  /\ jobs[j].pc = "lost" /\ jobs[j].kind = "promote" /\ files[jobs[j].from] = NoFile
  /\ \/ row' = repoint(j) /\ UNCHANGED <<astray, trouble>>
     \/ Trouble /\ astray' = astray \union {jobs[j].item} /\ UNCHANGED row
  /\ intent' = intent \ {j} /\ Goto(j, "over")
  /\ SameDisk /\ UNCHANGED <<completed, shared>>

\* RescueStuckMoving, or the promotion is submitted again.
Resume(j) ==
  /\ jobs[j].pc = "lost"
  /\ jobs[j].kind = "promote" => MayHold(jobs[j].from, jobs[j].item)
  /\ jobs' = [jobs EXCEPT ![j].pc = "queued", ![j].status = "queued"]
  /\ SameDisk /\ SameBooks /\ UNCHANGED trouble

JobStep(j) ==
  \/ Begin(j) \/ Rename(j) \/ AlreadyThere(j) \/ Skip(j) \/ Open(j) \/ SourceGone(j)
  \/ Abort(j) \/ OtherFileFails(j) \/ CopyEnds(j) \/ RenameFails(j) \/ Place(j)
  \/ Unlink(j) \/ UnlinkFails(j) \/ Point(j) \/ PointFails(j) \/ Settle(j)
  \/ SettleUnrecorded(j) \/ Retry(j) \/ GiveUp(j) \/ TakeForDone(j) \/ Resume(j)

DockNext ==
  \/ \E j \in Jobs : JobStep(j) \/ Cancel(j)
  \/ \E j \in Jobs, d \in Items, to \in Dests :
       SubmitCompletion(j, d, to) \/ PromoteDownload(j, d, to) \/ LocalMove(j, d, to)
  \/ Restart

DockSpec == DockInit /\ [][DockNext]_dockVars
-----------------------------------------------------------------------------
(* At every moment, whatever is interrupted, there is a complete copy of every *)
(* file whose transfers had no place in common with another unfinished one.    *)
WholeCopyExists ==
  \A d \in Items \ shared : \E p \in Places : files[p] = d /\ p \notin torn

(* The row leads to the file: it names it, or a transfer that the database     *)
(* remembers (or that is still running) goes from what it names to the file.   *)
(* Where transfers had no place in common, only three things in the code break *)
(* this: a refused write of the row's path, a folder given up halfway by a job *)
(* that is not on record, and a restart in the middle of one.                  *)
RowFindsFile ==
  \A d \in Items \ (shared \union astray) :
    \/ files[row[d]] = d
    \/ \E j \in intent \union Holding :
         jobs[j].item = d /\ jobs[j].from = row[d] /\ files[jobs[j].to] = d
=============================================================================
