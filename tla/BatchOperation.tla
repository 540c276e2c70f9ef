---------------------------- MODULE BatchOperation ----------------------------
(***************************************************************************)
(* Adding data sources or identifiers from a file (pages/batch-operation): *)
(* the upload, the polling of its result, the message with the result and  *)
(* its report.  Polls outlive what they were started for, since the only   *)
(* handle to them is a variable of the module.                             *)
(***************************************************************************)
EXTENDS ApiClient, Integers, FiniteSets

CONSTANT MaxUploads     \* bound: files uploaded

BatchAssumption == MaxUploads \in Nat \ {0}

VARIABLES route, ui     \* which page is shown, and the state it keeps

Here == route = "batch"

NoFile == 0
Ids == 1 .. MaxUploads
Stages == {"NotStarted", "Inprogress", "Completed", "Error"}

(* stored: the file id in localStorage; finished: the files the service is *)
(* through with, and how; ids: the number of uploads so far; polls: the    *)
(* running intervals, by file, and whether an earlier visit started them;  *)
(* handle: the file of statusInterval; asking: status queries under way;   *)
(* status, shown, about: the state of the page, the message it shows, and  *)
(* the file the message is about; overlapped: polls or queries of another  *)
(* file, or visit, were left when a new one began; lost: a call that was   *)
(* rejected ended the polling, or an upload; timers: reports that were     *)
(* asked for and are to be deleted; deleted: the reports that were;        *)
(* offered: the results that were shown.                                   *)
Watch(id) == [file |-> id, old |-> FALSE]
Watches == [file : Ids, old : BOOLEAN]

Fresh ==
    [stored |-> NoFile, finished |-> [id \in Ids |-> "running"], ids |-> 0,
     polls |-> {}, handle |-> NoFile, asking |-> {}, status |-> "NotStarted",
     shown |-> "NotStarted", about |-> NoFile, overlapped |-> FALSE, lost |-> FALSE,
     file |-> "none", refused |-> FALSE, uploading |-> FALSE, confirm |-> FALSE, timers |-> 0,
     late |-> FALSE, deleted |-> {}, offered |-> {}]

(* The effect of the first render: a file of an earlier visit is asked     *)
(* about at once and polled.                                               *)
(* Mutant: it is, whether there is a file or not.                          *)
MutantWatched(u) ==
    [u EXCEPT !.asking = @ \cup {Watch(u.stored)}, !.polls = @ \cup {Watch(u.stored)},
              !.handle = u.stored]

Watched(u) ==
    IF u.stored = NoFile THEN u
    ELSE [u EXCEPT !.asking = @ \cup {Watch(u.stored)}, !.polls = @ \cup {Watch(u.stored)},
                   !.handle = u.stored]

Mounted == Fresh

(* updateStatus, and the effect that shows the message of a new status.    *)
(* Mutant: nothing is shown for a file that is in progress.                *)
MutantUpdateStatus(u, status, id) ==
    [u EXCEPT !.status = status, !.about = IF status = "Inprogress" THEN @ ELSE id,
              !.shown = IF status = "Inprogress" THEN @ ELSE status]

UpdateStatus(u, status, id) ==
    IF status = u.status THEN u
    ELSE [u EXCEPT !.status = status, !.shown = status, !.about = id,
                   !.offered = IF status \in {"Completed", "Error"} THEN @ \cup {id} ELSE @]

-----------------------------------------------------------------------------
(***************************************************************************)
(* The file and its upload                                                 *)
(***************************************************************************)
ChangeFile ==
    /\ ~ui.confirm
    /\ \E file \in {"none", "sheet", "other"} \ {ui.file} :
          ui' = [ui EXCEPT !.file = file, !.refused = IF file = "none" THEN @ ELSE file = "other"]

HandleUpload ==
    /\ ~ui.confirm /\ ui.file # "none" /\ ~ui.refused /\ ~ui.uploading /\ ui.ids < MaxUploads
    /\ ui' = [UpdateStatus(ui, "Inprogress", NoFile) EXCEPT
                 !.uploading = TRUE, !.overlapped = @ \/ ui.polls # {} \/ ui.asking # {}]

(* onUploadProgress empties the selection.                                 *)
UploadProgress == ui.uploading /\ ui.file # "none" /\ ui' = [ui EXCEPT !.file = "none"]

(* A new file is polled; the interval of an older one is not cleared, and  *)
(* nothing can clear it any more.                                          *)
(* Mutant: the new one is not polled.                                      *)
MutantUploaded(u, id) ==
    [UpdateStatus(u, "Inprogress", NoFile) EXCEPT
        !.uploading = FALSE, !.ids = id, !.stored = id,
        !.overlapped = @ \/ u.polls # {} \/ u.asking # {}, !.late = @ \/ u.timers > 0]

Uploaded(u, id) ==
    [UpdateStatus(u, "Inprogress", NoFile) EXCEPT
        !.uploading = FALSE, !.ids = id, !.stored = id,
        !.polls = @ \cup {Watch(id)}, !.handle = id,
        !.overlapped = @ \/ u.polls # {} \/ u.asking # {}, !.late = @ \/ u.timers > 0]

(* axios is used directly here: a status other than success takes the      *)
(* message away, a call that fails leaves it.                              *)
UploadAnswered ==
    /\ ui.uploading
    /\ \/ ui' = Uploaded(ui, ui.ids + 1)
       \/ ui' = [UpdateStatus(ui, "NotStarted", NoFile) EXCEPT !.uploading = FALSE]
       \/ ui' = [ui EXCEPT !.uploading = FALSE, !.lost = TRUE]

-----------------------------------------------------------------------------
(***************************************************************************)
(* Polling (queryStatus, every five seconds)                               *)
(***************************************************************************)
Finish ==
    \E id \in 1 .. ui.ids, how \in {"Completed", "Error"} :
        /\ ui.finished[id] = "running"
        /\ ui' = [ui EXCEPT !.finished[id] = how]

(* Bound: one query of an interval is under way.                           *)
Poll == \E watch \in ui.polls \ ui.asking : ui' = [ui EXCEPT !.asking = @ \cup {watch}]

(* clearInterval(statusInterval): whichever file that is of.               *)
Cleared(u) == [u EXCEPT !.polls = @ \ {Watch(u.handle)}]

StatusAnswered ==
    \E watch \in ui.asking :
        LET heard == [ui EXCEPT !.asking = @ \ {watch}]
            how == ui.finished[watch.file]
        IN  \/ how = "running" /\ ui' = heard
            \/ /\ how # "running"
               /\ ui' = IF watch.old THEN Cleared(heard)
                        ELSE UpdateStatus(Cleared(heard), how, watch.file)
            \/ ui' = [Cleared(heard) EXCEPT !.lost = TRUE]

-----------------------------------------------------------------------------
(***************************************************************************)
(* The result                                                              *)
(***************************************************************************)
HasResult == ui.shown \in {"Completed", "Error"}

(* downloadReport: two seconds later a report is deleted, the one of the   *)
(* file that localStorage has then.                                        *)
DownloadReport == HasResult /\ ~ui.confirm /\ ui.timers < 2 /\ ui' = [ui EXCEPT !.timers = @ + 1]

ReportDeleted(u) ==
    [u EXCEPT !.deleted = @ \cup ({u.stored} \ {NoFile}), !.stored = NoFile,
              !.shown = "NotStarted"]

DownloadTimer == ui.timers > 0 /\ ui' = [ReportDeleted(ui) EXCEPT !.timers = @ - 1]

(* The message on progress cannot be dismissed.                            *)
(* Mutant: it can.                                                         *)
MutantDismissible(u) == u.shown # "NotStarted"
Dismissible(u) == u.shown \in {"Completed", "Error"}

OnDismissNotification == Dismissible(ui) /\ ~ui.confirm /\ ui' = [ui EXCEPT !.confirm = TRUE]

CancelDismissal == ui.confirm /\ ui' = [ui EXCEPT !.confirm = FALSE]

(* Polls and timers go on under the dialog.                                *)
ConfirmDismissNotification ==
    /\ ui.confirm
    /\ ui' = [ReportDeleted(ui) EXCEPT !.confirm = FALSE]

(* Leaving and coming back: the interval of the handle is cleared; others, *)
(* and queries under way, tell this visit nothing, but clear its interval. *)
(* Bound: not while a file is uploaded or a timer runs.                    *)
ComeBack ==
    /\ ~ui.uploading /\ ui.timers = 0 /\ ui.status # "NotStarted"
    /\ LET Old(watches) == {[watch EXCEPT !.old = TRUE] : watch \in watches}
           left == Old(ui.polls \ {Watch(ui.handle)})
       IN  ui' = Watched([Fresh EXCEPT
                    !.stored = ui.stored, !.finished = ui.finished, !.ids = ui.ids,
                    !.deleted = ui.deleted, !.offered = ui.offered,
                    !.late = ui.late \/ ui.overlapped,
                    !.polls = left, !.asking = Old(ui.asking),
                    !.overlapped = left # {} \/ ui.asking # {}])

-----------------------------------------------------------------------------
BatchNext ==
    /\ Here
    /\ \/ ChangeFile \/ HandleUpload \/ UploadProgress \/ UploadAnswered
       \/ Finish \/ Poll \/ StatusAnswered
       \/ DownloadReport \/ DownloadTimer
       \/ OnDismissNotification \/ CancelDismissal \/ ConfirmDismissNotification
       \/ ComeBack

-----------------------------------------------------------------------------
TypeOK ==
    Here =>
        /\ {ui.stored, ui.handle, ui.about} \subseteq Ids \cup {NoFile}
        /\ (ui.polls \cup ui.asking) \subseteq Watches
        /\ (ui.deleted \cup ui.offered) \subseteq Ids
        /\ {ui.status, ui.shown} \subseteq Stages /\ ui.timers \in 0 .. 2

(* A result that is shown is the one of the file uploaded last - unless    *)
(* that was uploaded while an older file was being polled, which goes on   *)
(* and reports over it.                                                    *)
ReportsTheLatest == Here /\ HasResult => ui.overlapped \/ ui.about = ui.ids

(* "In progress" is shown only while the file is uploaded or polled -      *)
(* unless a call was rejected, or an older file's poll ended the newer     *)
(* file's.                                                                 *)
ProgressIsWatched ==
    Here /\ ui.shown = "Inprogress" =>
        ui.uploading \/ ui.lost \/ ui.overlapped \/ Watch(ui.handle) \in ui.polls

(* A report is deleted only after its result was shown - unless a new file *)
(* was uploaded after a report was asked for and before it was deleted, or *)
(* while an older file was polled.                                         *)
DeletesShownReports == Here => ui.late \/ ui.overlapped \/ ui.deleted \subseteq ui.offered
=============================================================================
