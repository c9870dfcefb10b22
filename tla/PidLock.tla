------------------------------ MODULE PidLock -------------------------------
(***************************************************************************)
(* infra/pid_lock.py: agent processes that guard one data directory with   *)
(* flock on a lock file.  A lock belongs to the inode a process opened,    *)
(* while unlink works on the path, so the two can part.                    *)
(***************************************************************************)
EXTENDS Integers, FiniteSets

CONSTANTS Processes,  \* agent processes started on the same data directory
          MaxInode    \* bound: times the lock file is created

ASSUME PidAssumption == MaxInode \in Nat \ {0}

VARIABLES path,    \* inode the path names, 0 when there is no such file
          proc,    \* what each process is at, and the inode it has open (0: none)
          inodes,  \* inodes created so far
          raced    \* history: a lock was taken around a release in progress

pidVars == <<path, proc, inodes, raced>>

PidTypeOK ==
    /\ inodes \in 0..MaxInode /\ path \in 0..inodes
    /\ proc \in [Processes -> [at : {"out", "opened", "held", "released"}, fd : 0..inodes]]
    /\ raced \in BOOLEAN

Out == [at |-> "out", fd |-> 0]

PidInit == path = 0 /\ proc = [p \in Processes |-> Out] /\ inodes = 0 /\ raced = FALSE

Holders == {p \in Processes : proc[p].at = "held"}

\* A release is between its two steps, or has unlinked the file this process opened.
ReleaseAround(p) == proc[p].fd # path \/ \E q \in Processes : proc[q].at = "released"

\* acquire(): open(path, "w") creates the file when it is not there ...
Open(p) ==
    /\ proc[p].at = "out"
    /\ IF path # 0 THEN UNCHANGED <<path, inodes>>
                   ELSE inodes < MaxInode /\ inodes' = inodes + 1 /\ path' = inodes'
    /\ proc' = [proc EXCEPT ![p] = [at |-> "opened", fd |-> path']]
    /\ UNCHANGED raced

\* Mutant of TryLock: release() of a process that was refused unlinks the file too.
TryLockThenUnlink(p) ==
    /\ proc[p].at = "opened"
    /\ LET taken == \E q \in Holders : proc[q].fd = proc[p].fd IN
       /\ proc' = [proc EXCEPT ![p] = IF taken THEN [at |-> "released", fd |-> 0] ELSE [@ EXCEPT !.at = "held"]]
       /\ raced' = (raced \/ (~taken /\ ReleaseAround(p)))
    /\ UNCHANGED <<path, inodes>>

\* ... and flock(LOCK_EX | LOCK_NB) on what was opened: refused while another has that inode.
TryLock(p) ==
    /\ proc[p].at = "opened"
    /\ LET taken == \E q \in Holders : proc[q].fd = proc[p].fd IN
       /\ proc' = [proc EXCEPT ![p] = IF taken THEN Out ELSE [@ EXCEPT !.at = "held"]]
       /\ raced' = (raced \/ (~taken /\ ReleaseAround(p)))
    /\ UNCHANGED <<path, inodes>>

\* release(): LOCK_UN and close, then unlink of whatever the path names by now.
Unlock(p) ==
    /\ proc[p].at = "held"
    /\ proc' = [proc EXCEPT ![p] = [at |-> "released", fd |-> 0]]
    /\ UNCHANGED <<path, inodes, raced>>

Unlink(p) ==
    /\ proc[p].at = "released"
    /\ proc' = [proc EXCEPT ![p] = Out]
    /\ path' = 0
    /\ UNCHANGED <<inodes, raced>>

\* The kernel drops a dead process's lock; its file stays.
Die(p) ==
    /\ proc[p].at # "out"
    /\ proc' = [proc EXCEPT ![p] = Out]
    /\ UNCHANGED <<path, inodes, raced>>

PidNext == \E p \in Processes : Open(p) \/ TryLock(p) \/ Unlock(p) \/ Unlink(p) \/ Die(p)

PidSpec == PidInit /\ [][PidNext]_pidVars

-----------------------------------------------------------------------------
\* Safety.  The guard of the module's first line ("prevent multiple concurrent agent
\* instances on same DB") holds across refused starts, crashes and restarts: two processes
\* hold it at once only after one took the lock while another was between its LOCK_UN and
\* its unlink, or took it on a file that release had already unlinked.
SingleUnlessReleaseRaced == ~raced => Cardinality(Holders) <= 1
=============================================================================
