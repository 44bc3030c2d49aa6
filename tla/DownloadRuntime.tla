----------------------------- MODULE DownloadRuntime -----------------------------
(***************************************************************************)
(* One download of services/workspace/downloadRuntime.ts: its task, which    *)
(* tools and the WebUI start, pause, resume, cancel and remove at any await,  *)
(* the runs of runDownload behind it, and the files they import.  Downloads   *)
(* share nothing but the engine and the closing of the runtime.               *)
(***************************************************************************)
EXTENDS Naturals, Sequences, FiniteSets

CONSTANTS
    Resumers,      \* callers of resume(), each calls it at most once at a time
    MaxTransfers   \* bound: runs of runDownload

ASSUME DownloadAssumption == MaxTransfers \in Nat

VARIABLES
    task,          \* DownloadTaskState, and whether its controller is aborted
    transfer,      \* per run: where it is
    onDisk,        \* the finished download is at completedPath
    foreground,    \* what start() does and what its caller, the owner, was told
    resuming,      \* per caller of resume(): the run whose completion it awaits, or 0
    removing,      \* remove() awaits the deletion of the task's files
    downloadsClosed, \* closed
    storedFiles,   \* the imports in the file store, named by their runs
    reports,       \* observed: the runs whose end was sent to the owner as an event
    staleUse       \* observed: a caller went on with what it had read before its await

downloadVars == <<task, transfer, onDisk, foreground, resuming, removing,
                  downloadsClosed, storedFiles, reports, staleUse>>

Transfers == DOMAIN transfer
Stages == {"opening", "probing", "downloading", "importing", "undoing", "orphaned", "cleaning",
           "done"}

DownloadTypeOK ==
    /\ task \in [status : {"none", "running", "paused", "completed", "failed", "cancelled"},
                 listed : BOOLEAN, retryable : BOOLEAN, notify : BOOLEAN,
                 aborted : BOOLEAN, file : 0 .. MaxTransfers]
    /\ transfer \in Seq(Stages) /\ Len(transfer) <= MaxTransfers
    /\ storedFiles \subseteq Transfers /\ reports \subseteq Transfers
    /\ foreground \in {"idle", "starting", "waiting", "told", "promised"}
    /\ resuming \in [Resumers -> 0 .. MaxTransfers]
    /\ onDisk \in BOOLEAN /\ removing \in BOOLEAN
    /\ downloadsClosed \in BOOLEAN /\ staleUse \in BOOLEAN

DownloadInit ==
    /\ task = [status |-> "none", listed |-> FALSE, retryable |-> FALSE, notify |-> FALSE,
               aborted |-> FALSE, file |-> 0]
    /\ transfer = <<>> /\ onDisk = FALSE
    /\ foreground = "idle" /\ resuming = [c \in Resumers |-> 0]
    /\ removing = FALSE /\ downloadsClosed = FALSE
    /\ storedFiles = {} /\ reports = {} /\ staleUse = FALSE

\* A run ends "done", or "orphaned": its import was to be deleted and was not.
TransferEnded(k) == transfer[k] \in {"done", "orphaned"}

-----------------------------------------------------------------------------
(* The callers.                                                             *)

\* A run with a controller of its own.
BeginTransfer(t) ==
    /\ Len(transfer) < MaxTransfers
    /\ transfer' = Append(transfer, "opening")
    /\ task' = [t EXCEPT !.status = "running", !.retryable = FALSE, !.aborted = FALSE]

\* What start() does before its first await.
CallStart ==
    /\ foreground = "idle" /\ ~downloadsClosed
    /\ foreground' = "starting"
    /\ UNCHANGED <<task, transfer, onDisk, resuming, removing,
                   downloadsClosed, storedFiles, reports, staleUse>>

StartDownload ==
    /\ foreground = "starting"
    /\ BeginTransfer([task EXCEPT !.listed = TRUE])
    /\ foreground' = "waiting" /\ staleUse' = (staleUse \/ downloadsClosed)
    /\ UNCHANGED <<onDisk, resuming, removing, downloadsClosed,
                   storedFiles, reports>>

\* Mutant: the status is read before the wait.
StartReturnsEarlier ==
    /\ foreground = "waiting"
    /\ foreground' = "promised" /\ task' = [task EXCEPT !.notify = TRUE]
    /\ UNCHANGED <<transfer, onDisk, resuming, removing, downloadsClosed, storedFiles,
                   reports, staleUse>>

\* The first run ended or the foreground wait is over: start() tells its
\* caller how the download stands, or promises a callback.
StartReturns ==
    /\ foreground = "waiting"
    /\ foreground' = IF task.status = "running" THEN "promised" ELSE "told"
    /\ task' = [task EXCEPT !.notify = IF task.status = "running" THEN TRUE ELSE @]
    /\ UNCHANGED <<transfer, onDisk, resuming, removing,
                   downloadsClosed, storedFiles, reports, staleUse>>

\* What interrupts a download: it aborts the controller of the task.
InterruptTask(status, retryable) ==
    task' = [task EXCEPT !.status = status, !.retryable = retryable, !.aborted = TRUE]

PauseDownload ==
    /\ task.listed /\ task.status = "running"
    /\ InterruptTask("paused", TRUE)
    /\ UNCHANGED <<transfer, onDisk, foreground, resuming, removing, downloadsClosed,
                   storedFiles, reports, staleUse>>

CancelDownload ==
    /\ task.listed /\ task.status \in {"running", "paused", "failed"}
    /\ InterruptTask("cancelled", FALSE) /\ onDisk' = FALSE
    /\ UNCHANGED <<transfer, foreground, resuming, removing, downloadsClosed, storedFiles,
                   reports, staleUse>>

CloseDownloads ==
    /\ ~downloadsClosed /\ downloadsClosed' = TRUE
    /\ IF task.listed /\ task.status = "running" THEN InterruptTask("paused", TRUE)
       ELSE UNCHANGED task
    /\ UNCHANGED <<transfer, onDisk, foreground, resuming, removing, storedFiles, reports,
                   staleUse>>

Resumable ==
    /\ task.listed /\ ~downloadsClosed
    /\ task.status = "paused" \/ (task.status = "failed" /\ task.retryable)

\* resume() reads the status and waits for the run it knows to end ...
CallResume(c) ==
    /\ resuming[c] = 0 /\ Resumable
    /\ resuming' = [resuming EXCEPT ![c] = Len(transfer)]
    /\ UNCHANGED <<task, transfer, onDisk, foreground, removing,
                   downloadsClosed, storedFiles, reports, staleUse>>

\* ... and then starts the next one without reading the status again.
ResumeDownload(c) ==
    /\ resuming[c] # 0 /\ TransferEnded(resuming[c])
    /\ BeginTransfer(task)
    /\ resuming' = [resuming EXCEPT ![c] = 0]
    /\ staleUse' = (staleUse \/ ~Resumable \/ resuming[c] # Len(transfer))
    /\ UNCHANGED <<onDisk, foreground, removing, downloadsClosed,
                   storedFiles, reports>>

CallRemove ==
    /\ task.listed /\ task.status # "running" /\ ~removing
    /\ removing' = TRUE /\ onDisk' = FALSE
    /\ UNCHANGED <<task, transfer, foreground, resuming, downloadsClosed,
                   storedFiles, reports, staleUse>>

RemoveDownload ==
    /\ removing /\ removing' = FALSE
    /\ task' = [task EXCEPT !.listed = FALSE]
    /\ staleUse' = (staleUse \/ task.status = "running")
    /\ UNCHANGED <<transfer, onDisk, foreground, resuming,
                   downloadsClosed, storedFiles, reports>>

\* Whoever starts, lists or reads a download sweeps old settled ones.
CleanupSettled ==
    /\ task.listed /\ task.status \in {"completed", "failed", "cancelled"}
    /\ task' = [task EXCEPT !.listed = FALSE] /\ onDisk' = FALSE
    /\ UNCHANGED <<transfer, foreground, resuming, removing,
                   downloadsClosed, storedFiles, reports, staleUse>>

-----------------------------------------------------------------------------
(* runDownload.                                                             *)

Reaches(k, stage) == transfer' = [transfer EXCEPT ![k] = stage]

\* throwIfInterrupted, in front of the import.
TurnsToImport(k) ==
    Reaches(k, IF task.status = "running" /\ ~task.aborted
            THEN "importing" ELSE "done")

\* What the engine has downloaded before is imported as it is.
OpenTransfer(k) ==
    /\ transfer[k] = "opening"
    /\ IF onDisk THEN TurnsToImport(k)
       ELSE Reaches(k, "probing")
    /\ UNCHANGED <<task, onDisk, foreground, resuming, removing,
                   downloadsClosed, storedFiles, reports, staleUse>>

Probed(k) ==
    /\ transfer[k] = "probing"
    /\ Reaches(k, "downloading")
    /\ UNCHANGED <<task, onDisk, foreground, resuming, removing,
                   downloadsClosed, storedFiles, reports, staleUse>>

\* The engine may have ended before it noticed that it was aborted.
Downloaded(k) ==
    /\ transfer[k] = "downloading"
    /\ onDisk' = TRUE /\ TurnsToImport(k)
    /\ UNCHANGED <<task, foreground, resuming, removing, downloadsClosed,
                   storedFiles, reports, staleUse>>

\* Mutant: an import completes whatever was asked for meanwhile.
ImportedUnchecked(k) ==
    /\ transfer[k] = "importing"
    /\ storedFiles' = storedFiles \cup {k}
    /\ task' = [task EXCEPT !.status = "completed", !.retryable = FALSE, !.file = k]
    /\ onDisk' = FALSE /\ Reaches(k, "cleaning")
    /\ UNCHANGED <<foreground, resuming, removing, downloadsClosed, reports, staleUse>>

\* The import is not interrupted; what it stored after the download was is
\* deleted again.
Imported(k) ==
    /\ transfer[k] = "importing"
    /\ storedFiles' = storedFiles \cup {k}
    /\ IF task.status = "running"
       THEN /\ task' = [task EXCEPT !.status = "completed", !.retryable = FALSE, !.file = k]
            /\ onDisk' = FALSE /\ Reaches(k, "cleaning")
       ELSE /\ Reaches(k, "undoing") /\ UNCHANGED <<task, onDisk>>
    /\ UNCHANGED <<foreground, resuming, removing, downloadsClosed,
                   reports, staleUse>>

\* A deletion that fails (the file is in use or referenced, the disk) is only
\* logged: the import stays, named by nobody.
ImportUndone(k) ==
    /\ transfer[k] = "undoing"
    /\ \/ storedFiles' = storedFiles \ {k} /\ Reaches(k, "done")
       \/ UNCHANGED storedFiles /\ Reaches(k, "orphaned")
    /\ UNCHANGED <<task, onDisk, foreground, resuming, removing,
                   downloadsClosed, reports, staleUse>>

\* emitEvent, when the owner was promised one.
Report(k) == reports' = reports \cup (IF task.notify THEN {k} ELSE {})

CompletionCleaned(k) ==
    /\ transfer[k] = "cleaning"
    /\ Reaches(k, "done") /\ Report(k)
    /\ UNCHANGED <<task, onDisk, foreground, resuming, removing,
                   downloadsClosed, storedFiles, staleUse>>

\* A proxy, the engine, a limit or the import fails; an aborted engine call
\* ends here too.
TransferFails(k) ==
    /\ transfer[k] \in {"opening", "probing", "downloading", "importing"}
    /\ Reaches(k, "done")
    /\ IF task.status \in {"paused", "cancelled"} THEN UNCHANGED <<task, reports>>
       ELSE /\ \E retryable \in BOOLEAN :
                  task' = [task EXCEPT !.status = "failed", !.retryable = retryable]
            /\ Report(k)
    /\ UNCHANGED <<onDisk, foreground, resuming, removing,
                   downloadsClosed, storedFiles, staleUse>>

TransferStep(k) ==
    \/ OpenTransfer(k) \/ Probed(k) \/ Downloaded(k) \/ Imported(k)
    \/ ImportUndone(k) \/ CompletionCleaned(k) \/ TransferFails(k)

DownloadNext ==
    \/ CallStart \/ StartDownload \/ StartReturns
    \/ PauseDownload \/ CancelDownload \/ CloseDownloads
    \/ \E c \in Resumers : CallResume(c) \/ ResumeDownload(c)
    \/ CallRemove \/ RemoveDownload \/ CleanupSettled
    \/ \E k \in Transfers : TransferStep(k)

DownloadSpec == DownloadInit /\ [][DownloadNext]_downloadVars

\* The engine's requests time out, so every run goes on until it ends.
DownloadFairness == WF_downloadVars(\E k \in Transfers : TransferStep(k))

-----------------------------------------------------------------------------
(* Properties.                                                              *)

\* Whatever its callers do, the file a download names is in the store, and it
\* names one when it completed.  Unless a caller acts on what it read before an
\* await (see staleUse), it stores nothing else but an import that is about to be
\* deleted, or whose deletion failed, and it does not complete once it was
\* paused or cancelled: both win over a concurrent import.
FilesAreAccounted ==
    /\ task.file # 0 => task.file \in storedFiles
    /\ task.status = "completed" => task.file # 0
    /\ ~staleUse =>
        /\ storedFiles =
              {k \in Transfers : k = task.file \/ transfer[k] \in {"undoing", "orphaned"}}
        /\ task.file # 0 <=> task.status = "completed"
        /\ task.status \in {"running", "completed"} => ~task.aborted

\* An owner who is told that the download goes on in the background is called
\* back, unless somebody pauses or cancels the download meanwhile.
PromisedCallbackComes ==
    foreground = "promised" ~> reports # {} \/ task.status \in {"paused", "cancelled"}
=============================================================================
