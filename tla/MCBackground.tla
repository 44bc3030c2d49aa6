------------------------------ MODULE MCBackground ------------------------------
(***************************************************************************)
(* What goes on behind the turns of a session and comes back to it as an     *)
(* instruction or an event: the scheduler and a download.  They share no      *)
(* variable: a behaviour runs one of them.                                    *)
(***************************************************************************)
EXTENDS Scheduler, DownloadRuntime

CONSTANTS r1, r2     \* callers of resume()

VARIABLE working     \* what runs

BackgroundInit == Init /\ DownloadInit /\ working \in {"jobs", "download"}

BackgroundNext ==
    /\ working' = working
    /\ \/ working = "jobs" /\ Next /\ UNCHANGED downloadVars
       \/ working = "download" /\ DownloadNext /\ UNCHANGED vars

\* The fairness of the one that runs; the other one takes no step.
BackgroundSpec ==
    /\ BackgroundInit
    /\ [][BackgroundNext]_<<vars, downloadVars, working>>
    /\ <>[](working = "download") \/ Fairness
    /\ <>[](working = "jobs") \/ DownloadFairness
=============================================================================
