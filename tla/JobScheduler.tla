---------------------------- MODULE JobScheduler ----------------------------
(***************************************************************************)
(* infra/scheduler.py with the two jobs main.py runs on it: the TCN        *)
(* retrain, marked however its subprocess ends, and the regime refit,      *)
(* marked only after a fit, and also run when nothing is fitted yet.  The  *)
(* timestamps live in memory and, as one JSON file, on disk.               *)
(***************************************************************************)
EXTENDS Clock

CONSTANTS RefitEvery,    \* tcn_retrain_days and regime_refit_days
          MaxRestarts    \* bound: restarts of the agent

ASSUME JobAssumption == RefitEvery \in Nat \ {0} /\ MaxRestarts \in Nat

Jobs  == {"tcn_retrain", "regime_refit"}
Never == -1
Blank == [j \in Jobs |-> Never]

VARIABLES lastRun,    \* _state of the running agent
          stateFile,  \* scheduler_state.json
          retraining, \* the retrain subprocess is running (the cycle awaits it)
          fitted,     \* regime.fitted
          pickled,    \* regime_latest.pkl holds a model that loads
          restarts,   \* restarts so far
          finished,   \* history: when each job last finished
          unsaved     \* history: jobs whose last finish a failed write kept off the disk

jobVars == <<lastRun, stateFile, retraining, fitted, pickled, restarts, finished, unsaved>>

JobTypeOK ==
    /\ lastRun \in [Jobs -> Never..Horizon] /\ stateFile \in [Jobs -> Never..Horizon]
    /\ retraining \in BOOLEAN /\ fitted \in BOOLEAN /\ pickled \in BOOLEAN /\ restarts \in 0..MaxRestarts
    /\ finished \in [Jobs -> Never..Horizon] /\ unsaved \subseteq Jobs

JobInit ==
    /\ lastRun = Blank /\ stateFile = Blank
    /\ retraining = FALSE /\ fitted = FALSE /\ pickled = FALSE /\ restarts = 0
    /\ finished = Blank /\ unsaved = {}

Due(j) == lastRun[j] = Never \/ Since(lastRun[j]) >= RefitEvery

\* Mutant of MarkRan: the timestamp reaches the file only when another job is marked.
MarkRanBeforeItself(j) ==
    /\ lastRun' = [lastRun EXCEPT ![j] = now]
    /\ finished' = [finished EXCEPT ![j] = now]
    /\ \/ stateFile' = lastRun /\ unsaved' = {k \in unsaved : lastRun'[k] # finished'[k]}
       \/ stateFile' = stateFile /\ unsaved' = unsaved \cup {j}
       \/ stateFile' = Blank /\ unsaved' = Jobs

\* mark_ran and _save: the whole dictionary is written; an OSError, swallowed, leaves the
\* old file or one cut short, which _load reads as no state at all.
MarkRan(j) ==
    /\ lastRun' = [lastRun EXCEPT ![j] = now]
    /\ finished' = [finished EXCEPT ![j] = now]
    /\ \/ stateFile' = lastRun' /\ unsaved' = {k \in unsaved : lastRun'[k] # finished'[k]}
       \/ stateFile' = stateFile /\ unsaved' = unsaved \cup {j}
       \/ stateFile' = Blank /\ unsaved' = Jobs

\* run_cycle, step 6 (with too little history nothing is fitted and nothing marked).
\* regime.save may raise, which ends the cycle with the model fitted and the job unmarked.
RefitRegime ==
    /\ ~retraining
    /\ ~fitted \/ Due("regime_refit")
    /\ fitted' = TRUE
    /\ \/ pickled' = TRUE /\ MarkRan("regime_refit")
       \/ pickled' = FALSE /\ UNCHANGED <<lastRun, stateFile, finished, unsaved>>
    /\ UNCHANGED <<retraining, restarts, now>>

\* Step 6b: _retrain_tcn awaits the subprocess; succeeded, failed, timed out or without a
\* script, it marks the job.
StartRetrain ==
    /\ ~retraining /\ Due("tcn_retrain")
    /\ retraining' = TRUE
    /\ UNCHANGED <<lastRun, stateFile, fitted, pickled, restarts, finished, unsaved, now>>

FinishRetrain ==
    /\ retraining
    /\ retraining' = FALSE
    /\ MarkRan("tcn_retrain")
    /\ UNCHANGED <<fitted, pickled, restarts, now>>

\* The agent stops between two writes and is started again: the state file and the model
\* are loaded.
RestartAgent ==
    /\ restarts < MaxRestarts /\ restarts' = restarts + 1
    /\ lastRun' = stateFile
    /\ retraining' = FALSE /\ fitted' = pickled
    /\ UNCHANGED <<stateFile, pickled, finished, unsaved, now>>

JobTick == Tick /\ UNCHANGED jobVars

JobNext == RefitRegime \/ StartRetrain \/ FinishRetrain \/ RestartAgent \/ JobTick

JobSpec == now = 0 /\ JobInit /\ [][JobNext]_<<jobVars, now>>

-----------------------------------------------------------------------------
Spaced(j) == finished[j] = Never \/ Since(finished[j]) >= RefitEvery \/ j \in unsaved

\* Safety, action property.  "Keeps last-run timestamps in a JSON file so that intervals
\* survive process restarts": however the restarts fall, a retrain starts RefitEvery after
\* the last one finished, unless a write of the file failed since; and so does a refit of a
\* regime model that is fitted.
IntervalsSurviveRestarts ==
    [][/\ ~retraining /\ retraining' => Spaced("tcn_retrain")
       /\ fitted /\ ~retraining /\ finished' # finished => Spaced("regime_refit")]_<<jobVars, now>>
=============================================================================
