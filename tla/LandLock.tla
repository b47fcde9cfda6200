------------------------------- MODULE LandLock -------------------------------
(***************************************************************************)
(* The landing lock: scripts/lib/land/lock.ts over the file-system         *)
(* adapters of scripts/land.ts.  Landings (one process each) of every      *)
(* worktree of a machine compete for one lock file; a lock whose owner is  *)
(* gone is removed ("reaped") under a second file, the reaper.             *)
(*                                                                         *)
(* The code between two system calls is one step; other processes run      *)
(* between any two of them.  existsSync and readFileSync, existsSync and   *)
(* statSync, a read and the pid probe that judges it, and the judgement    *)
(* and the removal it leads to, are therefore separate steps.              *)
(*                                                                         *)
(* A lock record (pid, bootId, startedAt) identifies one landing, so the   *)
(* content of either file is that landing.  Time is abstracted: a file is  *)
(* old once it is more than REAP_STALE_MS old, a landing is expired once   *)
(* now() has reached its deadline.                                         *)
(***************************************************************************)
EXTENDS Naturals, FiniteSets

CONSTANTS
  Landing,      \* the landing processes of the machine
  None,         \* content of a file that does not exist
  Torn,         \* content no parseHolder accepts: a torn or foreign file
  MaxBoot,      \* bound: how often the machine reboots
  CrashInReap,  \* may a process die, or the machine reboot, inside reapStale
  LongPause     \* may a process be suspended between a read and the probe
                \* that judges it while the process it read about exits, or
                \* keep the reaper for more than REAP_STALE_MS

ASSUME TokenAssumption == None \notin Landing /\ Torn \notin Landing /\ None # Torn
ASSUME BoundAssumption == MaxBoot \in Nat
ASSUME EnvAssumption == CrashInReap \in BOOLEAN /\ LongPause \in BOOLEAN

VARIABLES
  lock, reap,        \* the content of land.lock and of land.lock.reap
  lockOld, reapOld,  \* is the file more than REAP_STALE_MS old
  boot,              \* the current boot of the machine
  bootOf,            \* bootId in the record of a landing
  alive,             \* is the process of a landing running
  reused,            \* dead landings whose pid an unrelated process has now
  expired,           \* has now() reached the deadline of a landing
  step,              \* the next system call of a landing
  phase,             \* what the read in progress is for
  seen               \* what the last read of a landing returned

vars == <<lock, reap, lockOld, reapOld, boot, bootOf, alive, reused, expired,
          step, phase, seen>>
files == <<lock, reap, lockOld, reapOld>>
machine == <<boot, bootOf, alive, reused, expired>>

Phases == {"wait", "other", "recheck", "release"}
Ended == {"done", "timedOut", "failed"}
Steps == {"new", "create", "exists", "readFile", "judge", "ageStat",
           "mkReap", "rmOther", "rmLock", "rmReap", "rmReapThrow",
          "held", "rmMine"} \cup Ended
Content == Landing \cup {None, Torn}

-----------------------------------------------------------------------------
\* holderIsStale: the boot is over or kill(pid, 0) finds no process.
Stale(h) == bootOf[h] # boot \/ ~(alive[h] \/ h \in reused)

\* The file that a read of landing l is about.
Target(l) == IF phase[l] = "other" THEN reap ELSE lock
TargetOld(l) == IF phase[l] = "other" THEN reapOld ELSE lockOld

\* acquireLock has returned a handle and release has not removed the file.
Holds(l) == /\ alive[l]
            /\ \/ step[l] \in {"held", "rmMine"}
               \/ phase[l] = "release" /\ step[l] \in {"exists", "readFile", "judge"}

\* l is inside the try block that the reaper file guards.
InReap(l) == \/ step[l] \in {"rmLock", "rmReap", "rmReapThrow"}
             \/ /\ phase[l] = "recheck"
                /\ step[l] \in {"exists", "readFile", "judge", "ageStat"}

\* l has read the record of s and is about to probe the process of s.
Probing(l, s) == alive[l] /\ step[l] = "judge" /\ seen[l] = s

-----------------------------------------------------------------------------
Init ==
  /\ lock \in {None, Torn} /\ lockOld = FALSE
  /\ reap = None /\ reapOld = FALSE
  /\ boot = 0
  /\ bootOf = [l \in Landing |-> 0]
  /\ alive = [l \in Landing |-> FALSE]
  /\ reused = {}
  /\ expired = [l \in Landing |-> FALSE]
  /\ step = [l \in Landing |-> "new"]
  /\ phase = [l \in Landing |-> "wait"]
  /\ seen = [l \in Landing |-> None]

\* Moves of one landing: the next call, and the read it belongs to.
Goto(l, s) == /\ step' = [step EXCEPT ![l] = s]
              /\ UNCHANGED <<phase, seen>>
Read(l, p) == /\ step' = [step EXCEPT ![l] = "exists"]
              /\ phase' = [phase EXCEPT ![l] = p]
              /\ seen' = [seen EXCEPT ![l] = None]
\* A read or a stat of a file that vanished since existsSync throws ENOENT;
\* inside the try block of reapStale the finally clause still runs.
Throw(l) == Goto(l, IF phase[l] = "recheck" THEN "rmReapThrow" ELSE "failed")

\* A landing begins; with no --wait its deadline is now.
Start(l) ==
  /\ ~alive[l] /\ step[l] = "new"
  /\ alive' = [alive EXCEPT ![l] = TRUE]
  /\ bootOf' = [bootOf EXCEPT ![l] = boot]
  /\ \E e \in BOOLEAN : expired' = [expired EXCEPT ![l] = e]
  /\ Goto(l, "create")
  /\ UNCHANGED <<files, boot, reused>>

\* Mutant of CreateLock: an existing lock file is overwritten.
CreateLockOverwrites(l) ==
  /\ alive[l] /\ step[l] = "create"
  /\ \/ /\ lock' = l /\ lockOld' = FALSE
        /\ Goto(l, "held")
        /\ UNCHANGED <<reap, reapOld>>
     \/ /\ lock # None
        /\ Read(l, "wait")
        /\ UNCHANGED files
  /\ UNCHANGED machine

\* The exclusive create of the lock file at the head of the loop.
CreateLock(l) ==
  /\ alive[l] /\ step[l] = "create"
  /\ \/ /\ lock = None
        /\ lock' = l /\ lockOld' = FALSE
        /\ Goto(l, "held")
        /\ UNCHANGED <<reap, reapOld>>
     \/ /\ lock # None
        /\ Read(l, "wait")
        /\ UNCHANGED files
  /\ UNCHANGED machine

\* deps.read, first half: a missing file reads as null.
Exists(l) ==
  /\ alive[l] /\ step[l] = "exists"
  /\ Goto(l, IF Target(l) = None THEN "judge" ELSE "readFile")
  /\ UNCHANGED <<files, machine>>

\* deps.read, second half.
ReadFile(l) ==
  /\ alive[l] /\ step[l] = "readFile"
  /\ \/ Target(l) = None /\ Throw(l)
     \/ /\ Target(l) # None
        /\ seen' = [seen EXCEPT ![l] = Target(l)]
        /\ step' = [step EXCEPT ![l] = "judge"]
        /\ UNCHANGED phase
  /\ UNCHANGED <<files, machine>>

\* Mutant of CondemnTo: an orphaned reaper is left alone.
CondemnToSparesReaper(l) == CASE phase[l] = "wait"    -> "mkReap"
                              [] phase[l] = "other"   -> "create"
                              [] phase[l] = "recheck" -> "rmLock"
                              [] phase[l] = "release" -> "rmMine"
\* What each reader does when the file it read may go, and when it may not.
\* In the waiting loop a live holder ends the wait once the deadline is over.
CondemnTo(l) == CASE phase[l] = "wait"    -> "mkReap"
                  [] phase[l] = "other"   -> "rmOther"
                  [] phase[l] = "recheck" -> "rmLock"
                  [] phase[l] = "release" -> "rmMine"
SpareTo(l) == CASE phase[l] = "wait"    -> IF expired[l] THEN "timedOut" ELSE "create"
                [] phase[l] = "other"   -> "create"
                [] phase[l] = "recheck" -> "rmReap"
                [] phase[l] = "release" -> "done"
Condemn(l) == Goto(l, CondemnTo(l))
Spare(l) == Goto(l, SpareTo(l))

\* Mutant of JudgeHolder: an old lock is taken for stale.
JudgeHolderByAge(l) ==
  /\ alive[l] /\ step[l] = "judge" /\ phase[l] # "release"
  /\ seen[l] \in Landing
  /\ IF TargetOld(l) \/ Stale(seen[l]) THEN Condemn(l) ELSE Spare(l)
  /\ UNCHANGED <<files, machine>>

\* A readable record is judged by its boot and its process.
JudgeHolder(l) ==
  /\ alive[l] /\ step[l] = "judge" /\ phase[l] # "release"
  /\ seen[l] \in Landing
  /\ IF Stale(seen[l]) THEN Condemn(l) ELSE Spare(l)
  /\ UNCHANGED <<files, machine>>

\* release compares the record with its own before it removes the file.
JudgeMine(l) ==
  /\ alive[l] /\ step[l] = "judge" /\ phase[l] = "release"
  /\ IF seen[l] = l THEN Condemn(l) ELSE Spare(l)
  /\ UNCHANGED <<files, machine>>

\* An unreadable or missing file is judged by its age.  First half of
\* deps.ageMs: null for a missing file, which judgeHolder takes for a file to
\* reap and reapStale, by Number(null) = 0, for a young one.  The re-read
\* under the reaper asks for no age when there was no file.
JudgeUnreadable(l) ==
  /\ alive[l] /\ step[l] = "judge" /\ phase[l] # "release"
  /\ seen[l] \notin Landing
  /\ IF phase[l] = "recheck" /\ seen[l] = None THEN Spare(l)
     ELSE IF Target(l) # None THEN Goto(l, "ageStat")
     ELSE IF phase[l] = "wait" THEN Condemn(l) ELSE Spare(l)
  /\ UNCHANGED <<files, machine>>

\* deps.ageMs, second half.
AgeStat(l) ==
  /\ alive[l] /\ step[l] = "ageStat"
  /\ IF Target(l) = None THEN Throw(l)
     ELSE IF TargetOld(l) THEN Condemn(l) ELSE Spare(l)
  /\ UNCHANGED <<files, machine>>

\* Mutant of CreateReaper: the lock is not read again under the reaper.
CreateReaperNoRecheck(l) ==
  /\ alive[l] /\ step[l] = "mkReap"
  /\ \/ /\ reap = None
        /\ reap' = l /\ reapOld' = FALSE
        /\ Goto(l, "rmLock")
        /\ UNCHANGED <<lock, lockOld>>
     \/ /\ reap # None
        /\ Read(l, "other")
        /\ UNCHANGED files
  /\ UNCHANGED machine

\* reapStale: exclusive create of the reaper file.
CreateReaper(l) ==
  /\ alive[l] /\ step[l] = "mkReap"
  /\ \/ /\ reap = None
        /\ reap' = l /\ reapOld' = FALSE
        /\ Read(l, "recheck")
        /\ UNCHANGED <<lock, lockOld>>
     \/ /\ reap # None
        /\ Read(l, "other")
        /\ UNCHANGED files
  /\ UNCHANGED machine

\* rmSync with force: it removes whatever file has that name now.
RemoveLock ==
  /\ lock' = None /\ lockOld' = FALSE
  /\ UNCHANGED <<reap, reapOld>>
RemoveReaper ==
  /\ reap' = None /\ reapOld' = FALSE
  /\ UNCHANGED <<lock, lockOld>>

\* An orphaned reaper is removed; the loop goes round without sleeping.
TakeOver(l) ==
  /\ alive[l] /\ step[l] = "rmOther"
  /\ RemoveReaper
  /\ Goto(l, "create")
  /\ UNCHANGED machine

ReapLock(l) ==
  /\ alive[l] /\ step[l] = "rmLock"
  /\ RemoveLock
  /\ Goto(l, "rmReap")
  /\ UNCHANGED machine

\* The finally clause of reapStale, after a return and after a throw.
LeaveReaper(l) ==
  /\ alive[l] /\ step[l] \in {"rmReap", "rmReapThrow"}
  /\ RemoveReaper
  /\ Goto(l, IF step[l] = "rmReap" THEN "create" ELSE "failed")
  /\ UNCHANGED machine

\* Mutant of Release: the handle is dropped without a look at the file.
ReleaseForgets(l) ==
  /\ alive[l] /\ step[l] = "held"
  /\ Goto(l, "done")
  /\ UNCHANGED <<files, machine>>

\* The landing is over and calls release.
Release(l) ==
  /\ alive[l] /\ step[l] = "held"
  /\ Read(l, "release")
  /\ UNCHANGED <<files, machine>>

ReleaseRemove(l) ==
  /\ alive[l] /\ step[l] = "rmMine"
  /\ RemoveLock
  /\ Goto(l, "done")
  /\ UNCHANGED machine

-----------------------------------------------------------------------------
(* The machine the code runs on. *)

\* Without LongPause nobody disappears between being read and being probed.
MayVanish(s) == LongPause \/ \A l \in Landing : ~Probing(l, s)

Exit(l) ==
  /\ alive[l] /\ step[l] \in Ended
  /\ MayVanish(l)
  /\ alive' = [alive EXCEPT ![l] = FALSE]
  /\ UNCHANGED <<files, boot, bootOf, reused, expired, step, phase, seen>>

Crash(l) ==
  /\ alive[l] /\ step[l] \notin Ended
  /\ InReap(l) => CrashInReap
  /\ MayVanish(l)
  /\ alive' = [alive EXCEPT ![l] = FALSE]
  /\ UNCHANGED <<files, boot, bootOf, reused, expired, step, phase, seen>>

\* Every process ends; the files, under the home directory, stay.
Reboot ==
  /\ boot < MaxBoot
  /\ CrashInReap \/ \A l \in Landing : alive[l] => ~InReap(l)
  /\ boot' = boot + 1
  /\ alive' = [l \in Landing |-> FALSE]
  /\ reused' = {}
  /\ UNCHANGED <<files, bootOf, expired, step, phase, seen>>

\* The kernel hands the pid of an ended landing to an unrelated process.
PidReused(l) ==
  /\ ~alive[l] /\ step[l] # "new" /\ bootOf[l] = boot /\ l \notin reused
  /\ reused' = reused \cup {l}
  /\ UNCHANGED <<files, boot, bootOf, alive, expired, step, phase, seen>>

Expire(l) ==
  /\ alive[l] /\ ~expired[l]
  /\ expired' = [expired EXCEPT ![l] = TRUE]
  /\ UNCHANGED <<files, boot, bootOf, alive, reused, step, phase, seen>>

AgeLock ==
  /\ lock # None /\ ~lockOld
  /\ lockOld' = TRUE
  /\ UNCHANGED <<lock, reap, reapOld, machine, step, phase, seen>>

AgeReaper ==
  /\ reap # None /\ ~reapOld
  /\ LongPause \/ ~\E l \in Landing : reap = l /\ alive[l] /\ InReap(l)
  /\ reapOld' = TRUE
  /\ UNCHANGED <<lock, reap, lockOld, machine, step, phase, seen>>

-----------------------------------------------------------------------------
Code(l) ==
  \/ CreateLock(l) \/ Exists(l) \/ ReadFile(l)
  \/ JudgeHolder(l) \/ JudgeMine(l) \/ JudgeUnreadable(l)
  \/ AgeStat(l) \/ CreateReaper(l)
  \/ TakeOver(l) \/ ReapLock(l) \/ LeaveReaper(l)
  \/ Release(l) \/ ReleaseRemove(l)

Environment ==
  \/ \E l \in Landing : Start(l) \/ Exit(l) \/ Crash(l) \/ PidReused(l) \/ Expire(l)
  \/ Reboot \/ AgeLock \/ AgeReaper

Next == (\E l \in Landing : Code(l)) \/ Environment

Spec == Init /\ [][Next]_vars

\* Every running landing keeps running, time passes, and a process that is
\* through with main() exits.  Crashes, reboots and pid reuse may happen.
Fairness ==
  /\ \A l \in Landing : WF_vars(Code(l)) /\ WF_vars(Exit(l)) /\ WF_vars(Expire(l))
  /\ WF_vars(AgeLock) /\ WF_vars(AgeReaper)

FairSpec == Spec /\ Fairness

-----------------------------------------------------------------------------
TypeOK ==
  /\ lock \in Content /\ reap \in Content
  /\ lockOld \in BOOLEAN /\ reapOld \in BOOLEAN
  /\ boot \in 0..MaxBoot
  /\ bootOf \in [Landing -> 0..MaxBoot]
  /\ alive \in [Landing -> BOOLEAN]
  /\ reused \subseteq Landing
  /\ expired \in [Landing -> BOOLEAN]
  /\ step \in [Landing -> Steps]
  /\ phase \in [Landing -> Phases]
  /\ seen \in [Landing -> Content]

\* The lock's promise (ADR-0033, "the lock makes it single-writer"): at most
\* one live landing is between acquireLock and the end of release.
MutualExclusion == \A k, l \in Landing : Holds(k) /\ Holds(l) => k = l

\* reapStale's promise: a reaper is taken over only from an owner that is
\* gone, never because it is slow; checked on every step that ends one.
LiveReaperKept ==
  [][\A l \in Landing : reap = l /\ alive[l] /\ reap' # l =>
       step[l] \in {"rmReap", "rmReapThrow"} /\ step'[l] # step[l]]_vars

\* The lock file of a live holder goes only by that holder's own release.
LiveLockKept ==
  [][\A l \in Landing : lock = l /\ Holds(l) /\ lock' # l =>
       step[l] = "rmMine" /\ step'[l] = "done"]_vars

\* A queued landing ends with the lock or with LockTimeout: the vanishing of
\* a file it is reading or dating is an ordinary answer (null), not an error.
NoSpuriousFailure == \A l \in Landing : step[l] # "failed"

\* No landing leaves a lock behind: a lock file of an ended landing is one
\* that died while holding.
NoLockLeftBehind == \A l \in Landing : step[l] \in Ended => lock # l

\* acquireLock and release implement the lease: it is taken only when nobody
\* has it and only its holder gives it up.
Lease == INSTANCE LandLease WITH holder <- {l \in Landing : Holds(l)}
ImplementsLease == Lease!Spec

\* A landing that runs and is not killed comes to an end: it gets the lock,
\* or gives up on the deadline, whoever died before it.
EveryWaitEnds ==
  \A l \in Landing : (alive[l] /\ step[l] = "create")
                       ~> (~alive[l] \/ step[l] \in Ended \cup {"held"})

\* The same whoever dies or is suspended where, as long as the pid of an ended
\* landing is not handed to another process: reapStale's take-over of orphaned
\* reapers and acquireLock's reaping of stale locks block nobody for good.
EveryWaitEndsWithoutReuse ==
  \A l \in Landing : (alive[l] /\ step[l] = "create")
                       ~> (~alive[l] \/ step[l] \in Ended \cup {"held"} \/ reused # {})
=============================================================================
