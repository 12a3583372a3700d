------------------------- MODULE TransferDockProofs -------------------------
(* Proofs about the transfer dock, for any downloads, places, jobs, slots   *)
(* and number of crashes.                                                   *)
EXTENDS TransferDock, TLAPS

Steps == JobSteps \union {"free", "queued", "lost", "over"}

Job == [kind : {"none", "completion", "promote", "move"}, item : Items \union {NoFile},
        from : Places \union {NoFile}, to : Dests \union {NoFile}, copied : Items \union {NoFile},
        pc : Steps, status : Visible \union {"none"}]

(* A job that is not free says what it moves, and no other is remembered.   *)
Submitted ==
  \A j \in Jobs :
    /\ jobs[j].pc # "free" => /\ jobs[j].item \in Items /\ jobs[j].from \in Places /\ jobs[j].to \in Dests
                              /\ jobs[j].kind # "none"
    /\ j \in intent => jobs[j].pc # "free"

DockTyped == DockTypeOK /\ Submitted

(* The step leaves every other job alone, and what j is to move.            *)
SamePlans(j) ==
  /\ \A k \in Jobs \ {j} : jobs'[k] = jobs[k]
  /\ jobs'[j].kind = jobs[j].kind /\ jobs'[j].item = jobs[j].item
  /\ jobs'[j].from = jobs[j].from /\ jobs'[j].to = jobs[j].to

(* Job j, which was submitted, goes on to the step pc.                      *)
GoesTo(j, pc) == jobs' \in [Jobs -> Job] /\ SamePlans(j) /\ jobs[j].pc # "free" /\ jobs'[j].pc = pc

LEMMA StepNames ==
  /\ JobSteps \subseteq Steps /\ {"free", "queued", "lost", "over"} \subseteq Steps
  /\ "free" \notin JobSteps \union {"queued", "lost", "over"}
  /\ {"queued", "running", "done", "failed", "canceled"} \subseteq Visible
BY DEF Steps, JobSteps, Visible

LEMMA JobsTyped == DockTypeOK => jobs \in [Jobs -> Job]
BY DEF DockTypeOK, Job, Steps

LEMMA GotoIs ==
  ASSUME DockTypeOK, NEW j \in Jobs, NEW pc \in Steps, Goto(j, pc), jobs[j].pc # "free"
  PROVE  GoesTo(j, pc) /\ jobs'[j].copied = jobs[j].copied
<1>1. jobs \in [Jobs -> Job] /\ jobs' = [jobs EXCEPT ![j].pc = pc]
  BY JobsTyped DEF Goto
<1> QED BY <1>1 DEF Job, SamePlans, GoesTo

LEMMA FinishedIs ==
  ASSUME DockTypeOK, NEW j \in Jobs, NEW status \in Visible, Finished(j, status), jobs[j].pc # "free"
  PROVE  GoesTo(j, "over")
<1>1. jobs \in [Jobs -> Job]
  BY JobsTyped
<1>2. jobs' = [jobs EXCEPT ![j] = [jobs[j] EXCEPT !.pc = "over",
                 !.status = IF @ = "canceled" THEN @ ELSE status]]
  BY DEF Finished
<1>3. [jobs[j] EXCEPT !.pc = "over", !.status = IF @ = "canceled" THEN @ ELSE status] \in Job
  BY <1>1, StepNames DEF Job
<1> QED BY <1>1, <1>2, <1>3 DEF Job, SamePlans, GoesTo

(* The steps of a job, each with the place it starts from and leads to.     *)
LEMMA StepIs ==
  ASSUME DockTyped, NEW j \in Jobs
  PROVE  /\ Begin(j) => jobs[j].pc = "queued" /\ GoesTo(j, "running")
         /\ Rename(j) => jobs[j].pc = "running" /\ GoesTo(j, "moved")
         /\ AlreadyThere(j) => jobs[j].pc = "running" /\ GoesTo(j, "moved")
         /\ Skip(j) => jobs[j].pc = "running" /\ GoesTo(j, "moved")
         /\ Open(j) => /\ jobs[j].pc = "running" /\ GoesTo(j, "writing")
                       /\ jobs'[j].copied = files[jobs[j].from]
         /\ SourceGone(j) => jobs[j].pc = "running" /\ GoesTo(j, "failed")
         /\ Abort(j) => jobs[j].pc = "writing" /\ GoesTo(j, "failed")
         /\ OtherFileFails(j) => jobs[j].pc \in {"running", "moved"} /\ GoesTo(j, "failed")
         /\ CopyEnds(j) => /\ jobs[j].pc = "writing" /\ GoesTo(j, "copied")
                           /\ jobs'[j].copied = jobs[j].copied
         /\ RenameFails(j) => jobs[j].pc = "copied" /\ GoesTo(j, "failed")
         /\ Place(j) => jobs[j].pc = "copied" /\ GoesTo(j, "placed")
         /\ Unlink(j) => jobs[j].pc = "placed" /\ (GoesTo(j, "moved") \/ GoesTo(j, "failed"))
         /\ UnlinkFails(j) => jobs[j].pc = "placed" /\ GoesTo(j, "failed")
         /\ Point(j) => jobs[j].pc = "moved" /\ GoesTo(j, "pointed")
         /\ PointFails(j) => jobs[j].pc = "moved" /\ GoesTo(j, "pointed")
         /\ Settle(j) => jobs[j].pc = "pointed" /\ GoesTo(j, "over")
         /\ SettleUnrecorded(j) => jobs[j].pc = "pointed" /\ GoesTo(j, "over")
         /\ Retry(j) => jobs[j].pc = "failed" /\ GoesTo(j, "running")
         /\ GiveUp(j) => jobs[j].pc = "failed" /\ GoesTo(j, "over")
         /\ TakeForDone(j) => jobs[j].pc = "lost" /\ GoesTo(j, "over")
         /\ Resume(j) => jobs[j].pc = "lost" /\ GoesTo(j, "queued")
<1> USE DEF DockTyped
<1>1. jobs \in [Jobs -> Job] /\ {"moved", "failed", "placed", "copied", "running", "writing", "pointed"} \subseteq Steps
  BY JobsTyped DEF Steps, JobSteps
<1>2. Begin(j) => jobs[j].pc = "queued" /\ GoesTo(j, "running")
  <2>1. [jobs[j] EXCEPT !.pc = "running", !.status = IF @ = "queued" THEN "running" ELSE @] \in Job
    BY <1>1, StepNames DEF Job
  <2>2. Begin(j) => jobs' = [jobs EXCEPT ![j] = [jobs[j] EXCEPT !.pc = "running",
                                  !.status = IF @ = "queued" THEN "running" ELSE @]]
    BY DEF Begin
  <2> QED BY <1>1, <2>1, <2>2 DEF Begin, Job, SamePlans, GoesTo
<1>3. Open(j) => jobs[j].pc = "running" /\ GoesTo(j, "writing") /\ jobs'[j].copied = files[jobs[j].from]
  <2> SUFFICES ASSUME Open(j)
               PROVE  jobs[j].pc = "running" /\ GoesTo(j, "writing") /\ jobs'[j].copied = files[jobs[j].from]
    OBVIOUS
  <2>1. jobs[j].pc = "running" /\ files[jobs[j].from] \in Items \union {NoFile}
    BY DEF Open, Submitted, DockTypeOK
  <2>2. PICK c \in Items \union {NoFile} : c = files[jobs[j].from]
    BY <2>1
  <2>3. jobs' = [jobs EXCEPT ![j] = [jobs[j] EXCEPT !.pc = "writing", !.copied = c]]
    BY <2>2 DEF Open
  <2> QED BY <1>1, <2>1, <2>2, <2>3 DEF Job, SamePlans, GoesTo
<1>4. /\ Resume(j) => jobs[j].pc = "lost" /\ GoesTo(j, "queued")
      /\ TakeForDone(j) => jobs[j].pc = "lost" /\ GoesTo(j, "over")
  <2>1. [jobs[j] EXCEPT !.pc = "queued", !.status = "queued"] \in Job
    BY <1>1, StepNames DEF Job
  <2>2. Resume(j) => jobs' = [jobs EXCEPT ![j] = [jobs[j] EXCEPT !.pc = "queued", !.status = "queued"]]
    BY DEF Resume
  <2>3. jobs[j].pc = "lost" /\ jobs' = [jobs EXCEPT ![j] = [jobs[j] EXCEPT !.pc = "queued", !.status = "queued"]]
          => GoesTo(j, "queued")
    BY <1>1, <2>1 DEF Job, SamePlans, GoesTo
  <2> QED BY <2>2, <2>3, GotoIs, StepNames DEF Resume, TakeForDone
<1>5. /\ Settle(j) => jobs[j].pc = "pointed" /\ GoesTo(j, "over")
      /\ SettleUnrecorded(j) => jobs[j].pc = "pointed" /\ GoesTo(j, "over")
      /\ GiveUp(j) => jobs[j].pc = "failed" /\ GoesTo(j, "over")
  BY FinishedIs, StepNames DEF Settle, SettleUnrecorded, GiveUp
<1>6. /\ Rename(j) => jobs[j].pc = "running" /\ GoesTo(j, "moved")
      /\ AlreadyThere(j) => jobs[j].pc = "running" /\ GoesTo(j, "moved")
      /\ SourceGone(j) => jobs[j].pc = "running" /\ GoesTo(j, "failed")
      /\ Skip(j) => jobs[j].pc = "running" /\ GoesTo(j, "moved")
      /\ Abort(j) => jobs[j].pc = "writing" /\ GoesTo(j, "failed")
      /\ OtherFileFails(j) => jobs[j].pc \in {"running", "moved"} /\ GoesTo(j, "failed")
  BY <1>1, GotoIs DEF Rename, AlreadyThere, SourceGone, Skip, Abort, OtherFileFails
<1>7. /\ CopyEnds(j) => jobs[j].pc = "writing" /\ GoesTo(j, "copied") /\ jobs'[j].copied = jobs[j].copied
      /\ RenameFails(j) => jobs[j].pc = "copied" /\ GoesTo(j, "failed")
      /\ Place(j) => jobs[j].pc = "copied" /\ GoesTo(j, "placed")
      /\ Unlink(j) => jobs[j].pc = "placed" /\ (GoesTo(j, "moved") \/ GoesTo(j, "failed"))
  BY <1>1, GotoIs DEF CopyEnds, RenameFails, Place, Unlink
<1>8. /\ UnlinkFails(j) => jobs[j].pc = "placed" /\ GoesTo(j, "failed")
      /\ Point(j) => jobs[j].pc = "moved" /\ GoesTo(j, "pointed")
      /\ PointFails(j) => jobs[j].pc = "moved" /\ GoesTo(j, "pointed")
      /\ Retry(j) => jobs[j].pc = "failed" /\ GoesTo(j, "running")
  BY <1>1, GotoIs DEF UnlinkFails, Point, PointFails, Retry
<1> QED BY <1>2, <1>3, <1>4, <1>5, <1>6, <1>7, <1>8

LEMMA CancelIs ==
  ASSUME DockTyped, NEW j \in Jobs, Cancel(j)
  PROVE  jobs' \in [Jobs -> Job] /\ SamePlans(j) /\ jobs'[j].pc = jobs[j].pc /\ jobs'[j].copied = jobs[j].copied
<1>1. jobs \in [Jobs -> Job]
  BY JobsTyped DEF DockTyped
<1>2. [jobs[j] EXCEPT !.status = "canceled"] \in Job
  BY <1>1, StepNames DEF Job
<1>3. jobs' = [jobs EXCEPT ![j] = [jobs[j] EXCEPT !.status = "canceled"]]
  BY DEF Cancel
<1> QED BY <1>1, <1>2, <1>3 DEF Job, SamePlans

(* A job that is submitted was free, and moves the file its row names.      *)
LEMMA SubmitIs ==
  ASSUME DockTyped, NEW j \in Jobs, NEW kind \in {"completion", "promote", "move"},
         NEW d \in Items, NEW to \in Dests, Submit(j, kind, d, to)
  PROVE  /\ jobs' \in [Jobs -> Job] /\ jobs[j].pc = "free" /\ jobs'[j].pc = "queued"
         /\ \A k \in Jobs \ {j} : jobs'[k] = jobs[k]
         /\ jobs'[j].kind = kind /\ jobs'[j].item = d /\ jobs'[j].from = row[d] /\ jobs'[j].to = to
         /\ row[d] \in Places /\ to \in Places
<1>1. jobs \in [Jobs -> Job] /\ row[d] \in Places /\ to \in Places
  BY JobsTyped DEF DockTyped, DockTypeOK, Places
<1>2. NoJob \in Job
  BY StepNames DEF NoJob, Job
<1>3. PICK f \in Places : f = row[d]
  BY <1>1
<1>4. PICK r \in Job : r = NoJob
  BY <1>2
<1> DEFINE q == [r EXCEPT !.kind = kind, !.item = d, !.from = f, !.to = to, !.pc = "queued", !.status = "queued"]
<1>5. q \in Job /\ q.kind = kind /\ q.item = d /\ q.from = f /\ q.to = to /\ q.pc = "queued"
  BY StepNames DEF Job
<1>6. jobs' = [jobs EXCEPT ![j] = q] /\ jobs[j].pc = "free"
  BY <1>3, <1>4 DEF Submit
<1> HIDE DEF q
<1> QED BY <1>1, <1>3, <1>5, <1>6

LEMMA RestartIs ==
  ASSUME DockTyped, Restart
  PROVE  /\ jobs' \in [Jobs -> Job]
         /\ \A k \in Jobs : /\ jobs'[k].kind = jobs[k].kind /\ jobs'[k].item = jobs[k].item
                            /\ jobs'[k].from = jobs[k].from /\ jobs'[k].to = jobs[k].to
                            /\ jobs'[k].pc = IF jobs[k].pc = "free" THEN "free"
                                             ELSE IF k \in intent THEN "lost" ELSE "over"
<1>1. jobs \in [Jobs -> Job]
  BY JobsTyped DEF DockTyped
<1> DEFINE After(k) == [jobs[k] EXCEPT !.status = "none", !.pc = IF k \in intent THEN "lost" ELSE "over"]
<1>2. jobs' = [k \in Jobs |-> IF jobs[k].pc = "free" THEN jobs[k] ELSE After(k)]
  BY DEF Restart
<1>3. \A k \in Jobs : /\ After(k) \in Job
                      /\ After(k).kind = jobs[k].kind /\ After(k).item = jobs[k].item
                      /\ After(k).from = jobs[k].from /\ After(k).to = jobs[k].to
                      /\ After(k).pc = IF k \in intent THEN "lost" ELSE "over"
  BY <1>1, StepNames DEF Job
<1> HIDE DEF After
<1> QED BY <1>1, <1>2, <1>3

(* Types of everything but the jobs.                                        *)
BooksTyped ==
  /\ files \in [Places -> Items \union {NoFile}] /\ torn \subseteq Places
  /\ row \in [Items -> Places] /\ completed \subseteq Items
  /\ intent \subseteq Jobs /\ shared \subseteq Items /\ astray \subseteq Items
  /\ trouble \in 0..MaxTrouble

LEMMA DockTypes == DockTypeOK <=> BooksTyped /\ jobs \in [Jobs -> Job]
BY DEF DockTypeOK, BooksTyped, Job, Steps

LEMMA TroubleTyped == BooksTyped /\ Trouble => trouble' \in 0..MaxTrouble
BY DockAssumption DEF BooksTyped, Trouble

LEMMA JobBooks ==
  ASSUME DockTyped, NEW j \in Jobs, jobs[j].pc # "free", JobStep(j)
  PROVE  BooksTyped'
<1>1. /\ BooksTyped /\ jobs[j].item \in Items /\ jobs[j].from \in Places /\ jobs[j].to \in Places
      /\ jobs[j].copied \in Items \union {NoFile}
  BY DockTypes DEF DockTyped, Submitted, Places, Job
<1>2. CASE Begin(j) \/ Skip(j) \/ Open(j) \/ SourceGone(j) \/ CopyEnds(j)
  BY <1>1, <1>2 DEF Begin, Skip, Open, SourceGone, CopyEnds, SameDisk, SameBooks, BooksTyped
<1>3. CASE Abort(j) \/ OtherFileFails(j) \/ RenameFails(j) \/ UnlinkFails(j) \/ SettleUnrecorded(j) \/ Retry(j)
  BY <1>1, <1>3, TroubleTyped
     DEF Abort, OtherFileFails, Stops, RenameFails, UnlinkFails, SettleUnrecorded, Retry,
         SameDisk, SameBooks, BooksTyped
<1>4. CASE Rename(j)
  BY <1>1, <1>4 DEF Rename, SameBooks, BooksTyped
<1>5. CASE AlreadyThere(j)
  BY <1>1, <1>5 DEF AlreadyThere, SameBooks, BooksTyped
<1>6. CASE Place(j)
  BY <1>1, <1>6 DEF Place, SameBooks, BooksTyped
<1>7. CASE Unlink(j)
  BY <1>1, <1>7 DEF Unlink, SameDisk, SameBooks, BooksTyped
<1>8. CASE Point(j)
  BY <1>1, <1>8 DEF Point, SameDisk, BooksTyped
<1>11. CASE PointFails(j)
  BY <1>1, <1>11, TroubleTyped DEF PointFails, SameDisk, BooksTyped
<1>9. CASE Settle(j) \/ GiveUp(j)
  BY <1>1, <1>9 DEF Settle, GiveUp, SameDisk, BooksTyped
<1>10. CASE Resume(j)
  BY <1>1, <1>10 DEF Resume, SameDisk, SameBooks, BooksTyped
<1>12. CASE TakeForDone(j)
  BY <1>1, <1>12, TroubleTyped DEF TakeForDone, repoint, SameDisk, BooksTyped
<1> QED BY <1>2, <1>3, <1>4, <1>5, <1>6, <1>7, <1>8, <1>9, <1>10, <1>11, <1>12 DEF JobStep

LEMMA StepTyped == DockTyped /\ [DockNext]_dockVars => DockTyped'
<1> SUFFICES ASSUME DockTyped, [DockNext]_dockVars PROVE DockTyped'
  OBVIOUS
<1>1. BooksTyped /\ jobs \in [Jobs -> Job]
  BY DockTypes DEF DockTyped
<1>2. ASSUME NEW j \in Jobs, NEW pc \in Steps \ {"free"}, BooksTyped', GoesTo(j, pc),
             intent' \subseteq intent
      PROVE  DockTyped'
  BY <1>2, DockTypes DEF GoesTo, SamePlans, DockTyped, Submitted, DockTypeOK, BooksTyped, Job, Steps
<1>3. ASSUME NEW j \in Jobs, JobStep(j) PROVE DockTyped'
  <2>1. jobs[j].pc # "free" /\ \E pc \in Steps \ {"free"} : GoesTo(j, pc)
    BY <1>3, StepIs DEF JobStep, Steps, JobSteps
  <2>2. intent' \subseteq intent
    BY <1>3 DEF JobStep, Begin, Rename, AlreadyThere, Skip, Open, SourceGone, Abort, OtherFileFails, CopyEnds,
         RenameFails, Place, Unlink, UnlinkFails, Point, PointFails, Settle, SettleUnrecorded, Retry, GiveUp,
         TakeForDone, Resume, SameBooks
  <2> QED BY <1>2, <1>3, <2>1, <2>2, JobBooks
<1>4. ASSUME NEW j \in Jobs, Cancel(j) PROVE DockTyped'
  <2>1. BooksTyped'
    BY <1>1, <1>4, TroubleTyped DEF Cancel, SameDisk, SameBooks, BooksTyped
  <2>2. Submitted'
    BY <1>4, CancelIs DEF Cancel, SameBooks, SamePlans, DockTyped, Submitted
  <2> QED BY <1>4, <2>1, <2>2, CancelIs DEF DockTyped, DockTypeOK, BooksTyped, Job, Steps
<1>5. ASSUME NEW j \in Jobs, NEW d \in Items, NEW to \in Dests,
             SubmitCompletion(j, d, to) \/ PromoteDownload(j, d, to) \/ LocalMove(j, d, to)
      PROVE  DockTyped'
  <2>1. PICK kind \in {"completion", "promote", "move"} : Submit(j, kind, d, to)
    BY <1>5 DEF SubmitCompletion, PromoteDownload, LocalMove
  <2>2. intent' \subseteq intent \union {j}
    BY <1>5 DEF SubmitCompletion, PromoteDownload, LocalMove
  <2>3. InTheWay(d, row[d], to) \subseteq Items
    <3>1. \A k \in Unfinished : jobs[k].item \in Items
      BY <1>1 DEF DockTyped, Submitted, Unfinished, BooksTyped, JobSteps
    <3> QED BY <1>1, <3>1, <2>1, SubmitIs DEF InTheWay, BooksTyped
  <2>6. trouble' \in 0..MaxTrouble
    BY <1>1, <1>5, TroubleTyped DEF SubmitCompletion, PromoteDownload, LocalMove, BooksTyped
  <2>4. BooksTyped'
    BY <1>1, <2>1, <2>2, <2>3, <2>6 DEF Submit, BooksTyped
  <2>5. Submitted'
    BY <2>1, <2>2, SubmitIs DEF DockTyped, Submitted
  <2> QED BY <2>1, <2>4, <2>5, SubmitIs DEF DockTyped, DockTypeOK, BooksTyped, Job, Steps
<1>6. CASE Restart
  <2>3. \A j \in CutShort : jobs[j].item \in Items
    BY <1>1 DEF CutShort, Halfway, BooksTyped, DockTyped, Submitted
  <2>1. BooksTyped'
    BY <1>1, <1>6, <2>3, TroubleTyped DEF Restart, SameDisk, BooksTyped
  <2>2. Submitted'
    <3>1. intent' = intent
      BY <1>6 DEF Restart
    <3> QED BY <1>6, <3>1, RestartIs DEF DockTyped, Submitted
  <2> QED BY <1>6, <2>1, <2>2, RestartIs DEF DockTyped, DockTypeOK, BooksTyped, Job, Steps
<1>7. CASE UNCHANGED dockVars
  BY <1>7 DEF dockVars, DockTyped, DockTypeOK, Submitted
<1> QED BY <1>3, <1>4, <1>5, <1>6, <1>7 DEF DockNext

LEMMA InitTyped == DockInit => DockTyped
<1> SUFFICES ASSUME DockInit PROVE DockTyped
  OBVIOUS
<1>1. NoJob \in Job /\ NoJob.pc = "free"
  BY StepNames DEF NoJob, Job
<1>2. jobs \in [Jobs -> Job] /\ \A j \in Jobs : jobs[j].pc = "free"
  BY <1>1 DEF DockInit
<1>3. BooksTyped
  BY DockAssumption DEF DockInit, BooksTyped, Places
<1>4. Submitted
  BY <1>2 DEF DockInit, Submitted
<1> QED BY <1>2, <1>3, <1>4, DockTypes DEF DockTyped

(* Every place, row, job and history has its type in every state.           *)
THEOREM DockTypesHold == DockSpec => []DockTypeOK
<1>1. DockSpec => []DockTyped
  BY InitTyped, StepTyped, PTL DEF DockSpec
<1>2. DockTyped => DockTypeOK
  BY DEF DockTyped
<1> QED BY <1>1, <1>2, PTL

----------------------------------------------------------------------------
(* A file whose transfers had no place in common with another's is its own  *)
(* jobs' business: no other job reads, overwrites or removes it.            *)
Alone(k) == jobs[k].item \notin shared

Apart(k, l) ==
  /\ jobs[k].to \notin {jobs[l].from, jobs[l].to} /\ jobs[l].to # jobs[k].from
  /\ jobs[k].item \in Folders => jobs[l].item # jobs[k].item

AloneApart == \A k, l \in Unfinished : k # l /\ Alone(k) => Apart(k, l)

Own(k, c) == (Alone(k) \/ c \notin shared) => c = jobs[k].item

OwnPlaces ==
  \A k \in Unfinished : \A p \in {jobs[k].from, jobs[k].to} : files[p] # NoFile => Own(k, files[p])

OwnCopy(k) == jobs[k].pc \in {"writing", "copied"} => jobs[k].copied \in Items /\ Own(k, jobs[k].copied)

Arrived(k) ==
  Alone(k) /\ (jobs[k].pc = "placed" \/ (jobs[k].pc = "moved" /\ jobs[k].item \notin astray)) =>
    files[jobs[k].to] = jobs[k].item

(* A file of a folder is at one end of its transfer.                        *)
Within(k) ==
  k \in Unfinished /\ Alone(k) /\ jobs[k].item \in Folders \ astray =>
    files[jobs[k].from] = jobs[k].item \/ files[jobs[k].to] = jobs[k].item

(* A download that was moved, and not marked as completed, may be submitted *)
(* from the place it is to move to.                                         *)
ToItself(k) ==
  k \in Unfinished /\ jobs[k].from = jobs[k].to /\ Alone(k) =>
    /\ files[jobs[k].to] = NoFile /\ jobs[k].kind = "completion"
    /\ jobs[k].pc \notin {"writing", "copied", "placed", "moved", "pointed"}

Remembered(k) ==
  /\ jobs[k].pc \in JobSteps \union {"queued", "lost"} /\ jobs[k].kind = "completion" => k \in intent
  /\ k \in intent => jobs[k].kind # "move"

JobInv(k) == OwnCopy(k) /\ Arrived(k) /\ Within(k) /\ ToItself(k) /\ Remembered(k)

Whole == \A p \in torn : files[p] = NoFile \/ files[p] \in shared

Somewhere == \A d \in Items \ shared : \E p \in Places : files[p] = d

(* Job j has moved the file, or will find it moved, and the row is to follow. *)
Leads(j, d) ==
  /\ jobs[j].item = d /\ jobs[j].from = row[d] /\ files[jobs[j].to] = d
  /\ \/ jobs[j].pc = "moved"
     \/ jobs[j].pc = "lost" /\ j \in intent /\ jobs[j].kind \in {"completion", "promote"}
     \/ /\ jobs[j].pc \in {"queued", "running"} /\ j \in intent
        /\ jobs[j].kind = "completion" \/ d \in Folders
     \/ jobs[j].pc = "failed" /\ d \in Folders
     \/ jobs[j].pc = "over" /\ j \in intent /\ jobs[j].kind = "promote" /\ d \in Folders

RowLeads == \A d \in Items \ (shared \union astray) : files[row[d]] = d \/ \E j \in Jobs : Leads(j, d)

DockInv ==
  /\ DockTyped /\ AloneApart /\ OwnPlaces /\ \A k \in Jobs : JobInv(k)
  /\ Whole /\ Somewhere /\ RowLeads

(* A step of job j: what it does to the books, and to the disk.             *)
Moves(j) ==
  /\ SamePlans(j) /\ UNCHANGED shared
  /\ \A k \in Jobs \ {j} : k \in intent' <=> k \in intent
  /\ j \in Unfinished' => j \in Unfinished

Disk(j) ==
  /\ j \in Unfinished \/ UNCHANGED files
  /\ \A p \in Places : \/ files'[p] = files[p]
                       \/ p = jobs[j].from /\ files'[p] = NoFile
                       \/ p = jobs[j].to /\ files'[p] \in Items /\ Own(j, files'[p])

LEMMA InFlight ==
  ASSUME DockTyped, NEW k \in Unfinished
  PROVE  /\ k \in Jobs /\ jobs[k].pc # "free"
         /\ jobs[k].item \in Items /\ jobs[k].from \in Places /\ jobs[k].to \in Places
BY DEF DockTyped, DockTypeOK, Submitted, Unfinished, JobSteps, Places

LEMMA MovesUnfinished ==
  ASSUME DockInv, DockTyped', NEW j \in Jobs, Moves(j)
  PROVE  /\ Unfinished' \subseteq Unfinished
         /\ \A k \in Jobs : /\ jobs'[k].item = jobs[k].item /\ jobs'[k].from = jobs[k].from
                            /\ jobs'[k].to = jobs[k].to /\ jobs'[k].kind = jobs[k].kind
<1>1. \A k \in Jobs : /\ jobs'[k].item = jobs[k].item /\ jobs'[k].from = jobs[k].from
                      /\ jobs'[k].to = jobs[k].to /\ jobs'[k].kind = jobs[k].kind
  BY DEF Moves, SamePlans
<1>2. Unfinished' \subseteq Jobs
  BY DEF DockTyped, DockTypeOK, Unfinished
<1>3. ASSUME NEW k \in Jobs \ {j}, k \in Unfinished' PROVE k \in Unfinished
  BY <1>3 DEF Moves, SamePlans, Unfinished
<1> QED BY <1>1, <1>2, <1>3 DEF Moves

LEMMA OthersKeep ==
  ASSUME DockInv, DockTyped', NEW j \in Jobs, Moves(j), Disk(j), astray \subseteq astray'
  PROVE  AloneApart' /\ OwnPlaces' /\ \A k \in Jobs \ {j} : JobInv(k)'
<1>1. /\ Unfinished' \subseteq Unfinished /\ shared' = shared
      /\ \A k \in Jobs : /\ jobs'[k].item = jobs[k].item /\ jobs'[k].from = jobs[k].from
                         /\ jobs'[k].to = jobs[k].to /\ jobs'[k].kind = jobs[k].kind
  BY MovesUnfinished DEF Moves
<1>2. DockTyped /\ \A k \in Unfinished : k \in Jobs /\ jobs[k].from \in Places /\ jobs[k].to \in Places
  BY InFlight DEF DockInv
<1>3. AloneApart'
  BY <1>1, <1>2 DEF DockInv, AloneApart, Alone, Apart
<1>4. ASSUME NEW k \in Unfinished, k # j, UNCHANGED files \/ Apart(k, j)
      PROVE  files'[jobs[k].to] = files[jobs[k].to]
  BY <1>2, <1>4 DEF Apart, Disk
<1>5. ASSUME NEW k \in Unfinished', NEW p \in {jobs[k].from, jobs[k].to}, files'[p] # NoFile
      PROVE  Own(k, files'[p])
  <2>1. k \in Unfinished /\ k \in Jobs /\ p \in Places
    BY <1>1, <1>2, <1>5
  <2>2. CASE files'[p] = files[p]
    BY <1>5, <2>1, <2>2 DEF DockInv, OwnPlaces
  <2>3. CASE p = jobs[j].to /\ Own(j, files'[p]) /\ j \in Unfinished
    <3>1. CASE k = j
      BY <2>3, <3>1
    <3>2. ASSUME k # j, Alone(k) \/ files'[p] \notin shared PROVE FALSE
      <4>1. CASE Alone(k)
        BY <2>1, <2>3, <3>2, <4>1 DEF DockInv, AloneApart, Apart
      <4>2. CASE files'[p] \notin shared
        BY <2>1, <2>3, <3>2, <4>2 DEF DockInv, AloneApart, Apart, Own, Alone
      <4> QED BY <3>2, <4>1, <4>2
    <3> QED BY <3>1, <3>2 DEF Own
  <2> QED BY <1>5, <2>1, <2>2, <2>3 DEF Disk
<1>6. OwnPlaces'
  BY <1>1, <1>2, <1>5 DEF OwnPlaces, Own, Alone
<1>7. ASSUME NEW k \in Jobs \ {j} PROVE JobInv(k)'
  <2>1. JobInv(k) /\ jobs'[k] = jobs[k] /\ (k \in intent' <=> k \in intent)
    BY DEF DockInv, Moves, SamePlans
  <2>2. k \in Unfinished /\ Alone(k) => files'[jobs[k].to] = files[jobs[k].to]
    BY <1>4 DEF DockInv, AloneApart, Disk
  <2>3. jobs[k].pc \in {"placed", "moved"} => k \in Unfinished
    BY DEF Unfinished, JobSteps
  <2>6. ASSUME k \in Unfinished, Alone(k), jobs[k].item \in Folders, files[jobs[k].from] = jobs[k].item
        PROVE  files'[jobs[k].from] = files[jobs[k].from]
    <3>1. jobs[k].from \in Places /\ jobs[k].item # NoFile
      BY <1>2, <2>6, DockAssumption
    <3>2. CASE j \in Unfinished
      <4>1. Apart(k, j)
        BY <2>6, <3>2 DEF DockInv, AloneApart
      <4>2. jobs[j].from # jobs[k].from
        BY <2>6, <3>1, <3>2, <4>1 DEF DockInv, OwnPlaces, Own, Alone, Apart
      <4> QED BY <3>1, <4>1, <4>2 DEF Apart, Disk
    <3> QED BY <3>2 DEF Disk
  <2>7. Within(k)'
    BY <1>1, <2>1, <2>2, <2>6 DEF JobInv, Within, Alone
  <2>4. OwnCopy(k)' /\ Remembered(k)'
    BY <1>1, <2>1 DEF JobInv, OwnCopy, Own, Alone, Remembered
  <2>5. Arrived(k)' /\ ToItself(k)'
    BY <1>1, <2>1, <2>2, <2>3 DEF JobInv, Arrived, ToItself, Alone
  <2> QED BY <2>4, <2>5, <2>7 DEF JobInv
<1> QED BY <1>3, <1>6, <1>7

LEMMA OthersLead ==
  ASSUME DockInv, DockTyped', NEW j \in Jobs, Moves(j), Disk(j),
         NEW d \in Items \ (shared \union astray), row'[d] = row[d],
         NEW k \in Jobs \ {j}, Leads(k, d)
  PROVE  Leads(k, d)'
<1>1. k \in Unfinished /\ Alone(k)
  BY DEF Leads, Unfinished, JobSteps, Alone
<1>2. jobs[k].to \in Places
  BY <1>1, InFlight DEF DockInv
<1>3. j \in Unfinished => Apart(k, j)
  BY <1>1 DEF DockInv, AloneApart
<1>4. files'[jobs[k].to] = files[jobs[k].to]
  BY <1>2, <1>3 DEF Apart, Disk
<1> QED BY <1>4 DEF Leads, Moves, SamePlans

(* Steps that leave the disk and the rows alone.                            *)
LEMMA QuietKeeps ==
  ASSUME DockInv, DockTyped', NEW j \in Jobs, Moves(j), JobInv(j)',
         UNCHANGED <<files, torn, row>>, astray \subseteq astray',
         \A d \in Items \ (shared \union astray') : Leads(j, d) /\ files[row[d]] # d => Leads(j, d)'
  PROVE  DockInv'
<1>1. Disk(j)
  BY DEF Disk
<1>2. AloneApart' /\ OwnPlaces' /\ \A k \in Jobs : JobInv(k)'
  BY <1>1, OthersKeep
<1>3. Whole' /\ Somewhere'
  BY DEF DockInv, Moves, Whole, Somewhere
<1>4. ASSUME NEW d \in Items \ (shared \union astray'), files[row[d]] # d
      PROVE  \E k \in Jobs : Leads(k, d)'
  <2>1. PICK k \in Jobs : Leads(k, d)
    BY <1>4 DEF DockInv, RowLeads
  <2>2. k # j => Leads(k, d)'
    BY <1>1, <2>1, OthersLead
  <2> QED BY <1>4, <2>1, <2>2
<1>5. RowLeads'
  BY <1>4 DEF RowLeads, Moves
<1> QED BY <1>2, <1>3, <1>5 DEF DockInv

(* What a step of job j does to the books, whatever it does to the disk.    *)
LEMMA GoesOn ==
  ASSUME DockInv, NEW j \in Jobs, NEW pc, GoesTo(j, pc),
         UNCHANGED shared, intent' = intent \/ intent' = intent \ {j},
         j \in Unfinished
  PROVE  Moves(j)
<1>1. \A k \in Jobs \ {j} : k \in intent' <=> k \in intent
  OBVIOUS
<1> QED BY <1>1 DEF GoesTo, Moves

LEMMA BusyIsInFlight ==
  ASSUME DockTyped, NEW j \in Jobs, jobs[j].pc \in JobSteps \union {"queued", "lost"}
  PROVE  j \in Unfinished
BY DEF Unfinished

QuietStep(j) ==
  \/ Begin(j) \/ SourceGone(j) \/ Open(j) \/ CopyEnds(j) \/ Abort(j) \/ RenameFails(j)
  \/ UnlinkFails(j) \/ Settle(j) \/ SettleUnrecorded(j) \/ GiveUp(j) \/ Retry(j)
  \/ Skip(j) \/ OtherFileFails(j) \/ PointFails(j) \/ Resume(j)
  \/ Unlink(j) /\ UNCHANGED files

LEMMA QuietSteps ==
  ASSUME DockInv, DockTyped', NEW j \in Jobs, QuietStep(j)
  PROVE  DockInv'
<1>1. DockTyped /\ JobInv(j) /\ j \in Jobs
  BY DEF DockInv
<1>2. PICK pc \in Steps :
        /\ GoesTo(j, pc)
        /\ \/ jobs[j].pc = "queued" /\ pc = "running" /\ intent' = intent
           \/ jobs[j].pc = "running" /\ pc = "failed" /\ intent' = intent
                /\ (SourceGone(j) \/ jobs[j].item \in Folders)
           \/ jobs[j].pc = "running" /\ pc = "moved" /\ intent' = intent /\ Skip(j)
           \/ jobs[j].pc = "running" /\ pc = "writing" /\ intent' = intent /\ Open(j)
                /\ jobs'[j].copied = files[jobs[j].from]
           \/ jobs[j].pc = "writing" /\ pc = "copied" /\ intent' = intent
                /\ jobs'[j].copied = jobs[j].copied
           \/ jobs[j].pc \in {"writing", "copied", "placed"} /\ pc = "failed" /\ intent' = intent
           \/ jobs[j].pc = "moved" /\ pc = "failed" /\ intent' = intent /\ jobs[j].item \in Folders
           \/ jobs[j].pc = "moved" /\ pc = "pointed" /\ intent' = intent /\ jobs[j].item \in astray'
           \/ jobs[j].pc = "pointed" /\ pc = "over" /\ (intent' = intent \/ intent' = intent \ {j})
                /\ (jobs[j].kind = "completion" => intent' = intent \ {j} \/ j \in intent)
           \/ jobs[j].pc = "failed" /\ pc = "over" /\ GiveUp(j)
                /\ intent' = IF jobs[j].kind = "completion" THEN intent \ {j} ELSE intent
           \/ jobs[j].pc = "failed" /\ pc = "running" /\ intent' = intent /\ jobs[j].kind = "completion"
           \/ jobs[j].pc = "lost" /\ pc = "queued" /\ intent' = intent
                /\ (jobs[j].kind = "promote" => files[jobs[j].from] # NoFile \/ jobs[j].item \in Folders)
  <2>1. {"running", "failed", "writing", "copied", "over", "queued", "moved", "pointed"} \subseteq Steps
    BY DEF Steps, JobSteps
  <2>2. CASE Begin(j) \/ SourceGone(j) \/ Open(j) \/ CopyEnds(j) \/ Skip(j)
    BY <1>1, <2>1, <2>2, StepIs DEF Begin, SourceGone, Open, CopyEnds, Skip, SameBooks
  <2>3. CASE Abort(j) \/ RenameFails(j) \/ UnlinkFails(j) \/ Retry(j) \/ OtherFileFails(j)
    BY <1>1, <2>1, <2>3, StepIs DEF Abort, RenameFails, UnlinkFails, Retry, OtherFileFails, InFolder, SameBooks
  <2>4. CASE Settle(j) \/ SettleUnrecorded(j)
    BY <1>1, <2>1, <2>4, StepIs DEF Settle, SettleUnrecorded, SameBooks
  <2>7. CASE GiveUp(j)
    BY <1>1, <2>1, <2>7, StepIs DEF GiveUp
  <2>8. CASE PointFails(j)
    BY <1>1, <2>1, <2>8, StepIs DEF PointFails
  <2>5. CASE Unlink(j) /\ UNCHANGED files
    <3>1. jobs[j].from \in Places
      BY <1>1, <2>5 DEF Unlink, DockTyped, Submitted
    <3>2. Goto(j, "failed")
      BY <1>1, <2>5, <3>1, DockAssumption DEF Unlink, DockTyped, DockTypeOK
    <3> QED BY <1>1, <2>1, <2>5, <3>2, GotoIs DEF Unlink, SameBooks, DockTyped
  <2>6. CASE Resume(j)
    BY <1>1, <2>1, <2>6, StepIs DEF Resume, MayHold, SameBooks
  <2> QED BY <2>2, <2>3, <2>4, <2>5, <2>6, <2>7, <2>8 DEF QuietStep
<1>3. UNCHANGED <<files, torn, row, shared>> /\ astray \subseteq astray'
  <2>1. CASE Unlink(j)
    <3>1. jobs[j].from \in Places
      BY <1>1, <2>1 DEF Unlink, DockTyped, Submitted
    <3>2. UNCHANGED files
      BY <2>1, StepIs, <1>1 DEF QuietStep, Begin, SourceGone, Open, CopyEnds, Abort, RenameFails, UnlinkFails, Settle,
         SettleUnrecorded, GiveUp, Retry, Skip, OtherFileFails, PointFails, Resume, SameDisk
    <3>3. files[jobs[j].from] = NoFile
      BY <1>1, <2>1, <3>1, <3>2 DEF Unlink, DockTyped, DockTypeOK
    <3> QED BY <2>1, <3>3 DEF Unlink, SameDisk, SameBooks
  <2>2. CASE ~Unlink(j)
    BY <2>2 DEF QuietStep, Begin, SourceGone, Open, CopyEnds, Abort, RenameFails, UnlinkFails, Settle,
                SettleUnrecorded, GiveUp, Retry, Skip, OtherFileFails, PointFails, Resume, SameDisk, SameBooks
  <2> QED BY <2>1, <2>2
<1>4. j \in Unfinished /\ Moves(j)
  <2>1. j \in Unfinished
    BY <1>1, <1>2, BusyIsInFlight DEF JobSteps
  <2>2. intent' = intent \/ intent' = intent \ {j}
    BY <1>2
  <2> QED BY <1>2, <1>3, <2>1, <2>2, GoesOn
<1>5. /\ jobs'[j].pc = pc /\ jobs'[j].item = jobs[j].item /\ jobs'[j].kind = jobs[j].kind
      /\ jobs'[j].from = jobs[j].from /\ jobs'[j].to = jobs[j].to
      /\ jobs[j].item \in Items /\ jobs[j].from \in Places /\ jobs[j].to \in Places
  BY <1>1, <1>2, <1>4, InFlight DEF GoesTo, SamePlans
<1>6. /\ files[jobs[j].from] \in Items \union {NoFile}
      /\ files[jobs[j].from] # NoFile => Own(j, files[jobs[j].from])
  BY <1>1, <1>4, <1>5 DEF DockTyped, DockTypeOK, DockInv, OwnPlaces
<1>7. Open(j) => files[jobs[j].from] # NoFile
  BY DEF Open
<1>8. OwnCopy(j)'
  BY <1>1, <1>2, <1>3, <1>5, <1>6, <1>7 DEF JobInv, OwnCopy, Own, Alone
<1>13. Skip(j) => files[jobs[j].from] = NoFile /\ jobs[j].kind # "completion" /\ jobs[j].item \in Folders
  BY DEF Skip, InFolder
<1>9. Arrived(j)' /\ Within(j)'
  <2>1. Within(j)' /\ Within(j)
    BY <1>1, <1>3, <1>4, <1>5, MovesUnfinished DEF JobInv, Within, Alone
  <2>2. pc \in {"placed", "moved"} => pc = "moved" /\ Skip(j)
    BY <1>2
  <2>3. Skip(j) /\ Alone(j) /\ jobs[j].item \notin astray => files[jobs[j].to] = jobs[j].item
    BY <1>4, <1>5, <1>13, <2>1, DockAssumption DEF Within
  <2> QED BY <1>3, <1>5, <2>1, <2>2, <2>3 DEF Arrived, Alone
<1>10. ToItself(j)'
  BY <1>1, <1>2, <1>3, <1>4, <1>5, <1>7, <1>13, MovesUnfinished DEF JobInv, ToItself, Alone
<1>11. Remembered(j)'
  <2>1. jobs[j].pc \in JobSteps \union {"queued", "lost"} /\ "over" \notin JobSteps \union {"queued", "lost"}
    BY <1>2 DEF JobSteps
  <2> QED BY <1>1, <1>2, <1>5, <2>1 DEF JobInv, Remembered
<1>12. ASSUME NEW d \in Items \ (shared \union astray'), Leads(j, d), files[row[d]] # d PROVE Leads(j, d)'
  <2>1. /\ Alone(j) /\ jobs[j].from = row[d] /\ files[jobs[j].from] # d /\ files[jobs[j].to] = d
        /\ d # NoFile /\ jobs[j].item = d
    BY <1>12, DockAssumption DEF Leads, Alone
  <2>2. files[jobs[j].from] = NoFile
    BY <1>6, <1>12, <2>1 DEF Own, Leads
  <2>3. jobs[j].pc \in {"queued", "running", "moved", "failed", "lost"}
    BY <1>2, <1>12 DEF Leads
  <2>4. ~SourceGone(j) \/ jobs[j].kind # "completion"
    BY <2>1 DEF SourceGone
  <2>5. jobs'[j].item = d /\ jobs'[j].from = row'[d] /\ files'[jobs'[j].to] = d
    BY <1>3, <1>5, <2>1
  <2>6. CASE jobs[j].pc = "failed"
    <3>1. d \in Folders /\ jobs[j].kind # "none" /\ jobs[j].kind \in {"none", "completion", "promote", "move"}
      BY <1>1, <1>12, <2>6, JobsTyped DEF Leads, DockTyped, Submitted, Job
    <3>2. CASE pc = "running"
      <4>1. j \in intent
        BY <1>1, <1>2, <2>6, <3>2 DEF JobInv, Remembered, JobSteps
      <4> QED BY <1>2, <1>5, <2>5, <2>6, <3>1, <3>2, <4>1 DEF Leads
    <3>3. CASE pc # "running"
      <4>1. pc = "over" /\ GiveUp(j) /\ intent' = IF jobs[j].kind = "completion" THEN intent \ {j} ELSE intent
        BY <1>2, <2>6, <3>3
      <4>2. Halfway(j)
        BY <2>1, <2>2, <2>6, <3>1 DEF Halfway, InFolder
      <4>3. j \in intent'
        BY <1>12, <2>1, <4>1, <4>2 DEF GiveUp
      <4>4. jobs[j].kind = "promote"
        BY <1>1, <3>1, <4>1, <4>3 DEF JobInv, Remembered
      <4> QED BY <1>5, <2>5, <3>1, <4>1, <4>3, <4>4 DEF Leads
    <3> QED BY <3>2, <3>3
  <2>7. CASE jobs[j].pc # "failed"
    BY <1>2, <1>3, <1>5, <1>7, <1>12, <2>1, <2>2, <2>3, <2>4, <2>5, <2>7 DEF Leads
  <2> QED BY <2>6, <2>7
<1> QED BY <1>3, <1>4, <1>8, <1>9, <1>10, <1>11, <1>12, QuietKeeps DEF JobInv

(* The row follows the file.                                                *)
LEMMA FollowKeeps ==
  ASSUME DockInv, DockTyped', NEW j \in Unfinished, Moves(j), JobInv(j)',
         UNCHANGED <<files, torn, astray>>,
         row' = [row EXCEPT ![jobs[j].item] = jobs[j].to],
         Alone(j) /\ jobs[j].item \notin astray => files[jobs[j].to] = jobs[j].item
  PROVE  DockInv'
<1>1. j \in Jobs /\ jobs[j].item \in Items /\ row \in [Items -> Places]
  BY InFlight DEF DockInv, DockTyped, DockTypeOK
<1>2. Disk(j)
  BY DEF Disk
<1>3. AloneApart' /\ OwnPlaces' /\ \A k \in Jobs : JobInv(k)'
  BY <1>1, <1>2, OthersKeep
<1>4. Whole' /\ Somewhere'
  BY DEF DockInv, Moves, Whole, Somewhere
<1>5. ASSUME NEW d \in Items \ (shared \union astray)
      PROVE  files'[row'[d]] = d \/ \E k \in Jobs : Leads(k, d)'
  <2>1. CASE jobs[j].item = d
    BY <1>1, <1>5, <2>1 DEF Alone
  <2>2. CASE jobs[j].item # d
    <3>1. row'[d] = row[d]
      BY <1>1, <2>2
    <3>2. CASE files[row[d]] = d
      BY <3>1, <3>2
    <3>3. ASSUME NEW k \in Jobs, Leads(k, d) PROVE Leads(k, d)'
      BY <1>1, <1>2, <2>2, <3>1, <3>3, OthersLead DEF Leads
    <3> QED BY <3>2, <3>3 DEF DockInv, RowLeads
  <2> QED BY <2>1, <2>2
<1>6. RowLeads'
  BY <1>5 DEF RowLeads, Moves
<1> QED BY <1>3, <1>4, <1>6 DEF DockInv

LEMMA PointKeeps ==
  ASSUME DockInv, DockTyped', NEW j \in Jobs, Point(j)
  PROVE  DockInv'
<1>1. DockTyped /\ JobInv(j) /\ jobs[j].pc = "moved" /\ GoesTo(j, "pointed")
  BY StepIs DEF DockInv
<1>2. UNCHANGED <<files, torn, completed, intent, shared, astray>>
  BY DEF Point, SameDisk
<1>3. j \in Unfinished /\ Moves(j)
  BY <1>1, <1>2, BusyIsInFlight, GoesOn DEF JobSteps
<1>4. JobInv(j)'
  <2>1. OwnCopy(j)' /\ Arrived(j)'
    BY <1>1 DEF GoesTo, OwnCopy, Arrived
  <2>2. ToItself(j)' /\ Remembered(j)'
    BY <1>1, <1>2, <1>3 DEF GoesTo, SamePlans, JobInv, ToItself, Alone, Remembered, JobSteps
  <2>3. Within(j)'
    BY <1>1, <1>2, <1>3 DEF GoesTo, SamePlans, JobInv, Within, Alone
  <2> QED BY <2>1, <2>2, <2>3 DEF JobInv
<1>5. CASE row' = [row EXCEPT ![jobs[j].item] = jobs[j].to]
  BY <1>1, <1>2, <1>3, <1>4, <1>5, FollowKeeps DEF JobInv, Arrived
<1>6. CASE row' = row /\ row[jobs[j].item] # jobs[j].from
  <2>1. \A d : ~Leads(j, d)
    BY <1>6 DEF Leads
  <2> QED BY <1>2, <1>3, <1>4, <1>6, <2>1, QuietKeeps
<1> QED BY <1>5, <1>6 DEF Point

(* A promotion whose source is gone is taken for done.                      *)
LEMMA TakenKeeps ==
  ASSUME DockInv, DockTyped', NEW j \in Jobs, TakeForDone(j)
  PROVE  DockInv'
<1>1. DockTyped /\ jobs[j].pc = "lost" /\ Goto(j, "over") /\ files[jobs[j].from] = NoFile
      /\ intent' = intent \ {j} /\ UNCHANGED <<files, torn, completed, shared>>
  BY DEF DockInv, TakeForDone, SameDisk
<1>2. GoesTo(j, "over") /\ j \in Unfinished
  BY <1>1, GotoIs, BusyIsInFlight, StepNames DEF DockTyped
<1>3. Moves(j)
  BY <1>1, <1>2, GoesOn
<1>4. JobInv(j)'
  <2>1. jobs'[j].pc = "over" /\ j \notin Unfinished' /\ j \notin intent'
    BY <1>1, <1>2 DEF GoesTo, Unfinished, JobSteps
  <2> QED BY <2>1 DEF JobInv, OwnCopy, Arrived, Within, ToItself, Remembered, JobSteps
<1>7. CASE astray' = astray \union {jobs[j].item} /\ row' = row
  <2>1. \A d \in Items \ (shared \union astray') : ~Leads(j, d)
    BY <1>7 DEF Leads
  <2> QED BY <1>1, <1>3, <1>4, <1>7, <2>1, QuietKeeps
<1>8. CASE row' = repoint(j) /\ astray' = astray
  <2> USE <1>8
  <2>5. CASE files[jobs[j].to] = NoFile
    <3>1. row' = row
      BY <2>5 DEF repoint
    <3>2. \A d \in Items : ~Leads(j, d)
      BY <2>5, DockAssumption DEF Leads
    <3> QED BY <1>1, <1>3, <1>4, <3>1, <3>2, QuietKeeps
  <2>6. CASE files[jobs[j].to] # NoFile
    <3>1. row' = [row EXCEPT ![jobs[j].item] = jobs[j].to]
      BY <2>6 DEF repoint
    <3>2. Alone(j) => files[jobs[j].to] = jobs[j].item
      BY <1>2, <2>6 DEF DockInv, OwnPlaces, Own
    <3> QED BY <1>1, <1>2, <1>3, <1>4, <3>1, <3>2, FollowKeeps
  <2> QED BY <2>5, <2>6
<1> QED BY <1>7, <1>8 DEF TakeForDone

(* Steps that change the disk: job j keeps its own file, or moves it.       *)
LEMMA DiskKeeps ==
  ASSUME DockInv, DockTyped', NEW j \in Unfinished, Moves(j), Disk(j), JobInv(j)', Whole',
         UNCHANGED <<row, astray>>,
         Alone(j) => \A p \in Places : files[p] = jobs[j].item =>
           \/ files'[p] = jobs[j].item
           \/ p = jobs[j].from /\ jobs'[j].pc = "moved" /\ files'[jobs[j].to] = jobs[j].item,
         \A d \in Items \ (shared \union astray) : Leads(j, d) /\ files[row[d]] # d => Leads(j, d)'
  PROVE  DockInv'
<1>1. /\ j \in Jobs /\ jobs[j].to \in Places
      /\ row \in [Items -> Places] /\ shared' = shared
      /\ jobs'[j].item = jobs[j].item /\ jobs'[j].from = jobs[j].from /\ jobs'[j].to = jobs[j].to
  BY InFlight DEF DockInv, DockTyped, DockTypeOK, Moves, SamePlans
<1>2. AloneApart' /\ OwnPlaces' /\ \A k \in Jobs : JobInv(k)'
  BY <1>1, OthersKeep
<1>3. ASSUME NEW d \in Items \ shared, NEW p \in Places, files[p] = d, files'[p] # d
      PROVE  /\ p = jobs[j].from /\ jobs[j].item = d
             /\ jobs'[j].pc = "moved" /\ files'[jobs[j].to] = d
  <2>1. p \in {jobs[j].from, jobs[j].to}
    BY <1>3 DEF Disk
  <2>2. Own(j, d)
    BY <1>3, <2>1, DockAssumption DEF DockInv, OwnPlaces
  <2>3. jobs[j].item = d /\ Alone(j)
    BY <2>2 DEF Own, Alone
  <2> QED BY <1>3, <2>3
<1>4. Somewhere'
  <2> SUFFICES ASSUME NEW d \in Items \ shared PROVE \E p \in Places : files'[p] = d
    BY <1>1 DEF Somewhere
  <2>1. PICK p \in Places : files[p] = d
    BY DEF DockInv, Somewhere
  <2> QED BY <1>1, <1>3, <2>1
<1>5. ASSUME NEW d \in Items \ (shared \union astray)
      PROVE  files'[row'[d]] = d \/ \E k \in Jobs : Leads(k, d)'
  <2>1. CASE files[row[d]] = d
    <3>1. row[d] \in Places
      BY <1>1
    <3>2. files'[row[d]] # d => Leads(j, d)'
      BY <1>1, <1>3, <2>1, <3>1 DEF Leads
    <3> QED BY <1>1, <3>2
  <2>2. CASE files[row[d]] # d
    <3>1. PICK k \in Jobs : Leads(k, d)
      BY <2>2 DEF DockInv, RowLeads
    <3>2. k # j => Leads(k, d)'
      BY <1>1, <3>1, OthersLead
    <3> QED BY <2>2, <3>1, <3>2
  <2> QED BY <2>1, <2>2
<1>6. RowLeads'
  BY <1>1, <1>5 DEF RowLeads
<1> QED BY <1>2, <1>4, <1>6 DEF DockInv

(* What all of these steps have in common.                                  *)
LEMMA OnDisk ==
  ASSUME DockInv, NEW j \in Jobs, NEW pc \in JobSteps, GoesTo(j, pc), SameBooks,
         jobs[j].pc \in JobSteps
  PROVE  /\ j \in Unfinished /\ Moves(j) /\ JobInv(j) /\ Remembered(j)'
         /\ jobs[j].item \in Items /\ jobs[j].from \in Places /\ jobs[j].to \in Places
         /\ files \in [Places -> Items \union {NoFile}] /\ NoFile \notin Items
         /\ files[jobs[j].from] # NoFile => Own(j, files[jobs[j].from])
         /\ files[jobs[j].to] # NoFile => Own(j, files[jobs[j].to])
         /\ row' = row /\ astray' = astray /\ shared' = shared /\ jobs'[j].pc = pc
         /\ jobs'[j].item = jobs[j].item /\ jobs'[j].from = jobs[j].from
         /\ jobs'[j].to = jobs[j].to /\ jobs'[j].kind = jobs[j].kind
<1>1. DockTyped /\ j \in Unfinished /\ JobInv(j)
  BY BusyIsInFlight DEF DockInv
<1>2. Moves(j)
  BY <1>1, GoesOn DEF SameBooks
<1>3. Remembered(j)'
  BY <1>1 DEF JobInv, Remembered, GoesTo, SamePlans, SameBooks
<1>4. jobs[j].item \in Items /\ jobs[j].from \in Places /\ jobs[j].to \in Places
  BY <1>1, InFlight
<1>5. /\ files[jobs[j].from] # NoFile => Own(j, files[jobs[j].from])
      /\ files[jobs[j].to] # NoFile => Own(j, files[jobs[j].to])
  BY <1>1 DEF DockInv, OwnPlaces
<1> QED BY <1>1, <1>2, <1>3, <1>4, <1>5, DockAssumption
        DEF DockTyped, DockTypeOK, GoesTo, SamePlans, SameBooks

LEMMA RenameKeeps ==
  ASSUME DockInv, DockTyped', NEW j \in Jobs, Rename(j)
  PROVE  DockInv'
<1> DEFINE from == jobs[j].from
           to == jobs[j].to
<1>1. jobs[j].pc = "running" /\ GoesTo(j, "moved") /\ {"moved", "running"} \subseteq JobSteps
  BY StepIs DEF DockInv, JobSteps
<1>2. /\ files[from] # NoFile /\ SameBooks
      /\ files' = [files EXCEPT ![from] = NoFile, ![to] = files[from]]
      /\ torn' = IF from \in torn THEN (torn \ {from}) \union {to} ELSE torn \ {to}
  BY DEF Rename
<1>3. /\ j \in Unfinished /\ Moves(j) /\ JobInv(j) /\ Remembered(j)'
      /\ jobs[j].item \in Items /\ from \in Places /\ to \in Places
      /\ files \in [Places -> Items \union {NoFile}] /\ NoFile \notin Items
      /\ Own(j, files[from])
      /\ row' = row /\ astray' = astray /\ shared' = shared /\ jobs'[j].pc = "moved"
      /\ jobs'[j].item = jobs[j].item /\ jobs'[j].from = from
      /\ jobs'[j].to = to /\ jobs'[j].kind = jobs[j].kind
  BY <1>1, <1>2, OnDisk
<1>4. /\ files'[to] = files[from]
      /\ \A p \in Places : p # to => files'[p] = IF p = from THEN NoFile ELSE files[p]
  BY <1>2, <1>3
<1>5. Disk(j)
  BY <1>2, <1>3, <1>4 DEF Disk
<1>6. Alone(j) => files[from] = jobs[j].item /\ from # to
  BY <1>2, <1>3 DEF Own, JobInv, ToItself
<1>7. JobInv(j)'
  BY <1>3, <1>4, <1>6 DEF JobInv, OwnCopy, Arrived, Within, ToItself, Alone
<1>8. Whole'
  <2>1. torn \subseteq Places /\ \A p \in torn : files[p] = NoFile \/ files[p] \in shared
    BY DEF DockInv, DockTyped, DockTypeOK, Whole
  <2> QED BY <1>2, <1>3, <1>4, <2>1 DEF Whole
<1>9. ASSUME NEW d \in Items \ (shared \union astray), Leads(j, d), files[row[d]] # d PROVE Leads(j, d)'
  BY <1>6, <1>9 DEF Leads, Alone
<1> QED BY <1>3, <1>4, <1>5, <1>6, <1>7, <1>8, <1>9, DiskKeeps

LEMMA AlreadyKeeps ==
  ASSUME DockInv, DockTyped', NEW j \in Jobs, AlreadyThere(j)
  PROVE  DockInv'
<1> DEFINE from == jobs[j].from
           to == jobs[j].to
<1>1. jobs[j].pc = "running" /\ GoesTo(j, "moved") /\ {"moved", "running"} \subseteq JobSteps
  BY StepIs DEF DockInv, JobSteps
<1>2. /\ files[to] # NoFile /\ SameBooks
      /\ files' = [files EXCEPT ![from] = NoFile] /\ torn' = torn \ {from}
  BY DEF AlreadyThere
<1>3. /\ j \in Unfinished /\ Moves(j) /\ JobInv(j) /\ Remembered(j)'
      /\ jobs[j].item \in Items /\ from \in Places /\ to \in Places
      /\ files \in [Places -> Items \union {NoFile}] /\ NoFile \notin Items
      /\ Own(j, files[to])
      /\ row' = row /\ astray' = astray /\ shared' = shared /\ jobs'[j].pc = "moved"
      /\ jobs'[j].item = jobs[j].item /\ jobs'[j].from = from
      /\ jobs'[j].to = to /\ jobs'[j].kind = jobs[j].kind
  BY <1>1, <1>2, OnDisk
<1>4. \A p \in Places : files'[p] = IF p = from THEN NoFile ELSE files[p]
  BY <1>2, <1>3
<1>5. Disk(j)
  BY <1>3, <1>4 DEF Disk
<1>6. Alone(j) => files[to] = jobs[j].item /\ files'[to] = jobs[j].item /\ from # to
  BY <1>2, <1>3, <1>4 DEF Own, JobInv, ToItself
<1>7. JobInv(j)'
  BY <1>3, <1>6 DEF JobInv, OwnCopy, Arrived, Within, ToItself, Alone
<1>8. Whole'
  <2>1. torn \subseteq Places /\ \A p \in torn : files[p] = NoFile \/ files[p] \in shared
    BY DEF DockInv, DockTyped, DockTypeOK, Whole
  <2> QED BY <1>2, <1>3, <1>4, <2>1 DEF Whole
<1>9. ASSUME NEW d \in Items \ (shared \union astray), Leads(j, d), files[row[d]] # d PROVE Leads(j, d)'
  BY <1>3, <1>6, <1>9 DEF Leads, Alone
<1> QED BY <1>3, <1>4, <1>5, <1>6, <1>7, <1>8, <1>9, DiskKeeps

LEMMA PlaceKeeps ==
  ASSUME DockInv, DockTyped', NEW j \in Jobs, Place(j)
  PROVE  DockInv'
<1> DEFINE to == jobs[j].to
           c == jobs[j].copied
<1>1. jobs[j].pc = "copied" /\ GoesTo(j, "placed") /\ {"copied", "placed"} \subseteq JobSteps
  BY StepIs DEF DockInv, JobSteps
<1>2. /\ SameBooks /\ files' = [files EXCEPT ![to] = c]
      /\ torn' \in {torn \ {to}} \union
           {torn \union {to} : k \in {k \in Jobs \ {j} : jobs[k].to = to /\ jobs[k].pc = "writing"}}
  BY DEF Place
<1>3. /\ j \in Unfinished /\ Moves(j) /\ JobInv(j) /\ Remembered(j)'
      /\ jobs[j].item \in Items /\ jobs[j].from \in Places /\ to \in Places
      /\ files \in [Places -> Items \union {NoFile}] /\ NoFile \notin Items
      /\ row' = row /\ astray' = astray /\ shared' = shared /\ jobs'[j].pc = "placed"
      /\ jobs'[j].item = jobs[j].item /\ jobs'[j].from = jobs[j].from
      /\ jobs'[j].to = to /\ jobs'[j].kind = jobs[j].kind
  BY <1>1, <1>2, OnDisk
<1>4. c \in Items /\ Own(j, c) /\ (Alone(j) => c = jobs[j].item)
  BY <1>1, <1>3 DEF JobInv, OwnCopy, Own
<1>5. \A p \in Places : files'[p] = IF p = to THEN c ELSE files[p]
  BY <1>2, <1>3
<1>6. Disk(j)
  BY <1>3, <1>4, <1>5 DEF Disk
<1>7. JobInv(j)'
  BY <1>1, <1>3, <1>4, <1>5 DEF JobInv, OwnCopy, Arrived, Within, ToItself, Alone
<1>8. Whole'
  <2>1. torn \subseteq Places /\ \A p \in torn : files[p] = NoFile \/ files[p] \in shared
    BY DEF DockInv, DockTyped, DockTypeOK, Whole
  <2>2. to \in torn' => c \in shared
    <3> SUFFICES ASSUME to \in torn', c \notin shared PROVE FALSE
      OBVIOUS
    <3>1. PICK k \in Jobs \ {j} : jobs[k].to = to /\ jobs[k].pc = "writing"
      BY <1>2
    <3>2. k \in Unfinished /\ Alone(j)
      BY <1>4, <3>1 DEF Unfinished, JobSteps, Own, Alone
    <3> QED BY <1>3, <3>1, <3>2 DEF DockInv, AloneApart, Apart
  <2>3. \A p \in torn' : p \in Places /\ (p # to => p \in torn)
    BY <1>2, <1>3, <2>1
  <2> QED BY <1>3, <1>5, <2>1, <2>2, <2>3 DEF Whole
<1>9. ASSUME NEW d \in Items \ (shared \union astray), Leads(j, d), files[row[d]] # d PROVE Leads(j, d)'
  BY <1>1, <1>9 DEF Leads
<1> QED BY <1>3, <1>4, <1>5, <1>6, <1>7, <1>8, <1>9, DiskKeeps

LEMMA UnlinkKeeps ==
  ASSUME DockInv, DockTyped', NEW j \in Jobs, Unlink(j)
  PROVE  DockInv'
<1> DEFINE from == jobs[j].from
           to == jobs[j].to
<1>0. CASE files[from] = NoFile
  <2>1. UNCHANGED files
    BY <1>0 DEF Unlink, SameDisk
  <2>2. QuietStep(j)
    BY <2>1 DEF QuietStep
  <2> QED BY <2>2, QuietSteps
<1>a. CASE files[from] # NoFile
  <2>1. jobs[j].pc = "placed" /\ {"moved", "placed"} \subseteq JobSteps /\ DockTyped
    BY DEF Unlink, DockInv, JobSteps
  <2>2. /\ SameBooks /\ Goto(j, "moved")
        /\ files' = [files EXCEPT ![from] = NoFile] /\ torn' = torn \ {from}
    BY <1>a DEF Unlink
  <2>3. GoesTo(j, "moved")
    BY <2>1, <2>2, GotoIs, StepNames DEF DockTyped
  <2>4. /\ j \in Unfinished /\ Moves(j) /\ JobInv(j) /\ Remembered(j)'
        /\ jobs[j].item \in Items /\ from \in Places /\ to \in Places
        /\ files \in [Places -> Items \union {NoFile}] /\ NoFile \notin Items
        /\ row' = row /\ astray' = astray /\ shared' = shared /\ jobs'[j].pc = "moved"
        /\ jobs'[j].item = jobs[j].item /\ jobs'[j].from = from
        /\ jobs'[j].to = to /\ jobs'[j].kind = jobs[j].kind
    BY <2>1, <2>2, <2>3, OnDisk
  <2>5. \A p \in Places : files'[p] = IF p = from THEN NoFile ELSE files[p]
    BY <2>2, <2>4
  <2>6. Disk(j)
    BY <2>4, <2>5 DEF Disk
  <2>7. Alone(j) => files[to] = jobs[j].item /\ files'[to] = jobs[j].item /\ from # to
    BY <2>1, <2>4, <2>5 DEF JobInv, Arrived, ToItself
  <2>8. JobInv(j)'
    BY <2>4, <2>7 DEF JobInv, OwnCopy, Arrived, Within, ToItself, Alone
  <2>9. Whole'
    <3>1. torn \subseteq Places /\ \A p \in torn : files[p] = NoFile \/ files[p] \in shared
      BY DEF DockInv, DockTyped, DockTypeOK, Whole
    <3> QED BY <2>2, <2>4, <2>5, <3>1 DEF Whole
  <2>10. ASSUME NEW d \in Items \ (shared \union astray), Leads(j, d), files[row[d]] # d PROVE Leads(j, d)'
    BY <2>1, <2>10 DEF Leads
  <2> QED BY <2>4, <2>5, <2>6, <2>7, <2>8, <2>9, <2>10, DiskKeeps
<1> QED BY <1>0, <1>a

(* Whose transfers get a place in common is on record.                      *)
LEMMA SubmitKeeps ==
  ASSUME DockInv, DockTyped', NEW j \in Jobs, NEW kind \in {"completion", "promote", "move"},
         NEW d \in Items, NEW to \in Dests, Submit(j, kind, d, to),
         intent' = intent \/ (kind # "move" /\ intent' = intent \union {j}),
         kind = "completion" => j \in intent',
         kind # "completion" => row[d] # to
  PROVE  DockInv'
<1> DEFINE W == InTheWay(d, row[d], to)
<1>1. /\ DockTyped /\ jobs[j].pc = "free" /\ jobs'[j].pc = "queued"
      /\ \A k \in Jobs \ {j} : jobs'[k] = jobs[k]
      /\ jobs'[j].kind = kind /\ jobs'[j].item = d /\ jobs'[j].from = row[d] /\ jobs'[j].to = to
      /\ row[d] \in Places /\ to \in Places
  BY SubmitIs DEF DockInv
<1>2. /\ UNCHANGED <<files, torn, row, completed, astray>>
      /\ shared' = IF W = {} THEN shared ELSE shared \union W \union {d}
  BY DEF Submit
<1>3. shared \subseteq shared' /\ (d \notin shared' => W = {}) /\ W \subseteq shared' /\ (W # {} => d \in shared')
  BY <1>2
<1>4. /\ \A k \in Unfinished : jobs[k].to \in {row[d], to} \/ jobs[k].from = to => jobs[k].item \in W
      /\ files[to] # NoFile => files[to] \in W
      /\ files[row[d]] # NoFile /\ files[row[d]] # d => files[row[d]] \in W
      /\ \A k \in Unfinished : jobs[k].item = d /\ d \in Folders => d \in W
  BY DEF InTheWay
<1> HIDE DEF W
<1>5. /\ j \notin Unfinished /\ Unfinished \subseteq Jobs /\ Unfinished' \subseteq Jobs
      /\ \A k \in Unfinished' : k # j => k \in Unfinished
  BY <1>1 DEF DockTyped, DockTypeOK, Submitted, Unfinished, JobSteps
<1>11. d \in Folders \ (shared' \union astray) => files[row[d]] = d
  <2> SUFFICES ASSUME d \in Folders, d \notin shared', d \notin astray, files[row[d]] # d PROVE FALSE
    OBVIOUS
  <2>1. PICK k \in Jobs : Leads(k, d)
    BY <1>3 DEF DockInv, RowLeads
  <2>2. k \in Unfinished /\ jobs[k].item = d
    BY <2>1 DEF Leads, Unfinished, JobSteps
  <2> QED BY <1>3, <1>4, <2>2
<1>6. AloneApart'
  <2> SUFFICES ASSUME NEW k \in Unfinished', NEW l \in Unfinished', k # l, Alone(k)'
               PROVE  Apart(k, l)'
    BY DEF AloneApart
  <2>1. CASE k # j /\ l # j
    BY <1>1, <1>3, <1>5, <2>1 DEF DockInv, AloneApart, Alone, Apart
  <2>2. CASE k = j
    BY <1>1, <1>3, <1>4, <1>5, <2>2 DEF Alone, Apart
  <2>3. CASE l = j
    BY <1>1, <1>3, <1>4, <1>5, <2>3 DEF Alone, Apart
  <2> QED BY <2>1, <2>2, <2>3
<1>7. OwnPlaces'
  <2> SUFFICES ASSUME NEW k \in Unfinished', NEW p \in {jobs'[k].from, jobs'[k].to}, files[p] # NoFile
               PROVE  Own(k, files[p])'
    BY <1>2 DEF OwnPlaces
  <2>1. CASE k # j
    BY <1>1, <1>2, <1>3, <1>5, <2>1 DEF DockInv, OwnPlaces, Own, Alone
  <2>2. CASE k = j
    BY <1>1, <1>2, <1>3, <1>4, <2>2 DEF Own, Alone
  <2> QED BY <2>1, <2>2
<1>8. ASSUME NEW k \in Jobs PROVE JobInv(k)'
  <2>1. CASE k # j
    <3>1. JobInv(k) /\ jobs'[k] = jobs[k] /\ (k \in intent => k \in intent')
      BY <1>1, <2>1 DEF DockInv
    <3>2. OwnCopy(k)' /\ Arrived(k)' /\ Within(k)'
      BY <1>2, <1>3, <1>5, <2>1, <3>1 DEF JobInv, OwnCopy, Own, Alone, Arrived, Within
    <3>3. ToItself(k)' /\ Remembered(k)'
      BY <1>2, <1>3, <1>5, <2>1, <3>1 DEF JobInv, Alone, ToItself, Remembered
    <3> QED BY <3>2, <3>3 DEF JobInv
  <2>2. CASE k = j
    <3>1. OwnCopy(k)' /\ Arrived(k)' /\ Within(k)'
      BY <1>1, <1>2, <1>3, <1>11, <2>2 DEF OwnCopy, Alone, Arrived, Within
    <3>2. ToItself(k)'
      BY <1>1, <1>2, <1>3, <1>4, <2>2 DEF Alone, ToItself
    <3>3. j \notin intent
      BY <1>1 DEF DockTyped, Submitted
    <3>4. Remembered(k)'
      BY <1>1, <2>2, <3>3 DEF Remembered
    <3> QED BY <3>1, <3>2, <3>4 DEF JobInv
  <2> QED BY <2>1, <2>2
<1>9. Whole' /\ Somewhere'
  BY <1>2, <1>3 DEF DockInv, Whole, Somewhere
<1>10. RowLeads'
  <2> SUFFICES ASSUME NEW e \in Items \ (shared' \union astray)
               PROVE  files[row[e]] = e \/ \E k \in Jobs : Leads(k, e)'
    BY <1>2 DEF RowLeads
  <2>1. ASSUME NEW k \in Jobs, Leads(k, e) PROVE Leads(k, e)'
    <3>1. k # j /\ (k \in intent => k \in intent')
      BY <1>1, <2>1 DEF Leads
    <3> QED BY <1>1, <1>2, <2>1, <3>1 DEF Leads
  <2> QED BY <1>3, <2>1 DEF DockInv, RowLeads
<1> QED BY <1>6, <1>7, <1>8, <1>9, <1>10 DEF DockInv

(* What the database remembers is found again, the rest is cut.             *)
LEMMA RestartKeeps ==
  ASSUME DockInv, DockTyped', Restart
  PROVE  DockInv'
<1>1. /\ DockTyped
      /\ \A k \in Jobs : /\ jobs'[k].kind = jobs[k].kind /\ jobs'[k].item = jobs[k].item
                         /\ jobs'[k].from = jobs[k].from /\ jobs'[k].to = jobs[k].to
                         /\ jobs'[k].pc = IF jobs[k].pc = "free" THEN "free"
                                          ELSE IF k \in intent THEN "lost" ELSE "over"
  BY RestartIs DEF DockInv
<1>2. /\ UNCHANGED <<files, torn, row, completed, intent, shared>> /\ astray \subseteq astray'
      /\ \A j \in Jobs \ intent : jobs[j].pc = "moved" \/ Halfway(j) => jobs[j].item \in astray'
  <2>1. astray' = astray \union {jobs[j].item : j \in CutShort}
    BY DEF Restart
  <2>2. \A j \in Jobs \ intent : jobs[j].pc = "moved" \/ Halfway(j) => j \in CutShort
    BY DEF CutShort
  <2>3. UNCHANGED <<files, torn, row, completed, intent, shared>>
    BY DEF Restart, SameDisk
  <2> QED BY <2>1, <2>2, <2>3
<1>3. Unfinished' \subseteq Unfinished /\ Unfinished \subseteq Jobs
  BY <1>1, <1>2 DEF DockTyped, DockTypeOK, Unfinished, JobSteps
<1>4. AloneApart' /\ OwnPlaces'
  <2>1. AloneApart'
    BY <1>1, <1>2, <1>3 DEF DockInv, AloneApart, Alone, Apart
  <2>2. OwnPlaces'
    BY <1>1, <1>2, <1>3 DEF DockInv, OwnPlaces, Own, Alone
  <2> QED BY <2>1, <2>2
<1>5. ASSUME NEW k \in Jobs PROVE JobInv(k)'
  <2>1. JobInv(k) /\ jobs'[k].pc \in {"free", "lost", "over"} /\ (jobs'[k].pc = "lost" => k \in intent)
    BY <1>1 DEF DockInv
  <2>2. OwnCopy(k)' /\ Arrived(k)'
    BY <1>2, <2>1 DEF OwnCopy, Arrived
  <2>4. Remembered(k)'
    BY <1>1, <1>2, <2>1 DEF JobInv, Remembered, JobSteps
  <2>3. ToItself(k)' /\ Within(k)'
    BY <1>1, <1>2, <1>3, <2>1 DEF JobInv, ToItself, Within, Alone
  <2> QED BY <2>2, <2>3, <2>4 DEF JobInv
<1>6. Whole' /\ Somewhere'
  BY <1>2 DEF DockInv, Whole, Somewhere
<1>7. RowLeads'
  <2> SUFFICES ASSUME NEW e \in Items \ (shared \union astray')
               PROVE  files[row[e]] = e \/ \E k \in Jobs : Leads(k, e)'
    BY <1>2 DEF RowLeads
  <2>1. ASSUME NEW k \in Jobs, Leads(k, e), files[row[e]] # e PROVE Leads(k, e)'
    <3>1. jobs[k].pc # "free" /\ jobs[k].item = e /\ Alone(k) /\ k \in Unfinished
      BY <2>1 DEF Leads, Alone, Unfinished, JobSteps
    <3>2. files[jobs[k].from] = NoFile
      BY <2>1, <3>1, DockAssumption DEF Leads, DockInv, OwnPlaces, Own
    <3>3. k \in intent
      BY <1>2, <2>1, <3>1, <3>2 DEF Leads, Halfway, InFolder
    <3>4. jobs[k].kind \in {"completion", "promote"}
      BY <1>1, <3>1, <3>3, JobsTyped DEF DockInv, JobInv, Remembered, DockTyped, Submitted, Job
    <3> QED BY <1>1, <1>2, <2>1, <3>1, <3>3, <3>4 DEF Leads
  <2> QED BY <1>2, <2>1 DEF DockInv, RowLeads
<1> QED BY <1>4, <1>5, <1>6, <1>7 DEF DockInv

LEMMA CancelKeeps ==
  ASSUME DockInv, DockTyped', NEW j \in Jobs, Cancel(j)
  PROVE  DockInv'
<1>1. /\ SamePlans(j) /\ jobs'[j].pc = jobs[j].pc /\ jobs'[j].copied = jobs[j].copied
      /\ UNCHANGED <<files, torn, row, completed, intent, shared, astray>>
  BY CancelIs DEF DockInv, Cancel, SameDisk, SameBooks
<1>2. Moves(j)
  BY <1>1 DEF Moves, Unfinished
<1>3. JobInv(j) /\ (j \in Unfinished' => j \in Unfinished)
  BY <1>2 DEF DockInv, Moves
<1>4. JobInv(j)'
  BY <1>1, <1>3 DEF SamePlans, JobInv, OwnCopy, Own, Alone, Arrived, Within, ToItself, Remembered
<1>5. \A d : Leads(j, d) => Leads(j, d)'
  BY <1>1 DEF SamePlans, Leads
<1> QED BY <1>1, <1>2, <1>4, <1>5, QuietKeeps

LEMMA NextInv == DockInv /\ [DockNext]_dockVars => DockInv'
<1> SUFFICES ASSUME DockInv, [DockNext]_dockVars PROVE DockInv'
  OBVIOUS
<1>1. DockTyped'
  BY StepTyped DEF DockInv
<1>2. ASSUME NEW j \in Jobs, JobStep(j) PROVE DockInv'
  <2>1. CASE Begin(j) \/ SourceGone(j) \/ Open(j) \/ CopyEnds(j) \/ Abort(j) \/ RenameFails(j)
               \/ UnlinkFails(j) \/ Settle(j) \/ SettleUnrecorded(j) \/ GiveUp(j) \/ Retry(j)
               \/ Skip(j) \/ OtherFileFails(j) \/ PointFails(j) \/ Resume(j)
    BY <1>1, <2>1, QuietSteps DEF QuietStep
  <2>2. CASE Rename(j) \/ AlreadyThere(j) \/ Place(j) \/ Unlink(j) \/ Point(j) \/ TakeForDone(j)
    BY <1>1, <2>2, RenameKeeps, AlreadyKeeps, PlaceKeeps, UnlinkKeeps, PointKeeps, TakenKeeps
  <2> QED BY <1>2, <2>1, <2>2 DEF JobStep
<1>3. ASSUME NEW j \in Jobs, NEW d \in Items, NEW to \in Dests,
             SubmitCompletion(j, d, to) \/ PromoteDownload(j, d, to) \/ LocalMove(j, d, to)
      PROVE  DockInv'
  <2>1. PICK kind \in {"completion", "promote", "move"} :
          /\ Submit(j, kind, d, to)
          /\ intent' = intent \/ (kind # "move" /\ intent' = intent \union {j})
          /\ kind = "completion" => j \in intent'
          /\ kind # "completion" => row[d] # to
    <3>1. CASE SubmitCompletion(j, d, to)
      BY <3>1 DEF SubmitCompletion
    <3>2. CASE PromoteDownload(j, d, to)
      BY <3>2 DEF PromoteDownload
    <3>3. CASE LocalMove(j, d, to)
      BY <3>3 DEF LocalMove
    <3> QED BY <1>3, <3>1, <3>2, <3>3
  <2> QED BY <1>1, <2>1, SubmitKeeps
<1>4. CASE UNCHANGED dockVars
  BY <1>4 DEF dockVars, DockInv, DockTyped, DockTypeOK, Submitted, AloneApart, Alone, Apart, OwnPlaces, Own,
     JobInv, OwnCopy, Arrived, Within, ToItself, Remembered, Whole, Somewhere, RowLeads, Leads, Unfinished
<1> QED BY <1>1, <1>2, <1>3, <1>4, CancelKeeps, RestartKeeps DEF DockNext

LEMMA InitInv == DockInit => DockInv
<1> SUFFICES ASSUME DockInit PROVE DockInv
  OBVIOUS
<1>1. DockTyped
  BY InitTyped
<1>2. Unfinished = {} /\ \A k \in Jobs : jobs[k].pc = "free"
  BY DEF DockInit, NoJob, Unfinished, JobSteps
<1>3. \A d \in Items : d \in Places /\ files[d] = d /\ row[d] = d
  BY DEF DockInit, Places
<1>4. AloneApart /\ OwnPlaces /\ \A k \in Jobs : JobInv(k)
  BY <1>2 DEF DockInit, AloneApart, OwnPlaces, JobInv, OwnCopy, Arrived, Within, ToItself, Remembered, JobSteps
<1>5. Whole /\ Somewhere /\ RowLeads
  BY <1>3 DEF DockInit, Whole, Somewhere, RowLeads
<1> QED BY <1>1, <1>4, <1>5 DEF DockInv

LEMMA Invariance == DockSpec => []DockInv
BY InitInv, NextInv, PTL DEF DockSpec

(* At every moment, whatever crashed or failed, there is a complete copy of *)
(* each file whose transfers had no place in common with another's.         *)
THEOREM CopiesKept == DockSpec => []WholeCopyExists
<1>1. DockInv => WholeCopyExists
  BY DockAssumption DEF DockInv, Somewhere, Whole, WholeCopyExists
<1> QED BY <1>1, Invariance, PTL

(* The row leads to the file, by itself or by a transfer that will be       *)
(* finished, except where the code leaves it behind: a refused write, or a  *)
(* transfer not on record that is cut, or given up, in the middle.          *)
THEOREM RowsLead == DockSpec => []RowFindsFile
<1>1. ASSUME DockInv, NEW d \in Items \ (shared \union astray), NEW j \in Jobs, Leads(j, d)
      PROVE  j \in intent \union Holding
  BY <1>1 DEF DockInv, JobInv, Leads, Holding, JobSteps, Remembered
<1>2. DockInv => RowFindsFile
  BY <1>1 DEF DockInv, RowLeads, RowFindsFile, Leads
<1> QED BY <1>2, Invariance, PTL
=============================================================================
