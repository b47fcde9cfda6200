---------------------------- MODULE LandLockProofs ----------------------------
(***************************************************************************)
(* Theorems about the landing lock, for every set of landings and every    *)
(* number of reboots.  The first two hold in every environment, the last   *)
(* ones in a calm one: nobody dies inside reapStale and nobody is          *)
(* suspended between a read and the probe that judges it.                  *)
(***************************************************************************)
EXTENDS LandLock, TLAPS

Calm == ~CrashInReap /\ ~LongPause

-----------------------------------------------------------------------------
\* Where a verdict leads, phase by phase.
LEMMA Verdicts ==
  ASSUME TypeOK, NEW l \in Landing
  PROVE  /\ phase[l] = "wait" => /\ CondemnTo(l) = "mkReap"
                                 /\ SpareTo(l) \in {"timedOut", "create"}
         /\ phase[l] = "other" => CondemnTo(l) = "rmOther" /\ SpareTo(l) = "create"
         /\ phase[l] = "recheck" => CondemnTo(l) = "rmLock" /\ SpareTo(l) = "rmReap"
         /\ phase[l] = "release" => CondemnTo(l) = "rmMine" /\ SpareTo(l) = "done"
         /\ phase[l] \in Phases
  BY DEF TypeOK, Phases, CondemnTo, SpareTo

-----------------------------------------------------------------------------
\* Every variable keeps its type, whatever the environment does: in
\* particular a landing never reaches a step or a phase the code has not.
LEMMA TypeStep == TypeOK /\ [Next]_vars => TypeOK'
<1> SUFFICES ASSUME TypeOK, [Next]_vars PROVE TypeOK'
  OBVIOUS
<1> USE TokenAssumption, BoundAssumption
<1>1. ASSUME NEW l \in Landing, Code(l) PROVE TypeOK'
  <2> USE DEF TypeOK, Content, Steps, Ended, Phases, files, machine, Goto, Read
  <2>1. CASE CreateLock(l)
    <3>1. CASE lock = None
      <4>1. lock' \in Content /\ lockOld' \in BOOLEAN
        BY <2>1, <3>1 DEF CreateLock
      <4>2. step' \in [Landing -> Steps]
        BY <2>1, <3>1 DEF CreateLock
      <4>3. UNCHANGED <<reap, reapOld, phase, seen>> /\ UNCHANGED machine
        BY <2>1, <3>1 DEF CreateLock
      <4> QED
        BY <4>1, <4>2, <4>3
    <3>2. CASE lock # None
      BY <2>1, <3>2 DEF CreateLock
    <3> QED
      BY <3>1, <3>2
  <2>2. CASE Exists(l)
    BY <2>2 DEF Exists, Target
  <2>3. CASE ReadFile(l)
    BY <2>3 DEF ReadFile, Target, Throw
  <2>4. CASE JudgeHolder(l)
    BY <2>4, Verdicts DEF JudgeHolder, Condemn, Spare
  <2>5. CASE JudgeMine(l)
    BY <2>5, Verdicts DEF JudgeMine, Condemn, Spare
  <2>6. CASE JudgeUnreadable(l)
    BY <2>6, Verdicts DEF JudgeUnreadable, Condemn, Spare, Target
  <2>7. CASE AgeStat(l)
    BY <2>7, Verdicts DEF AgeStat, Throw, Condemn, Spare, Target, TargetOld
  <2>8. CASE CreateReaper(l)
    <3>1. CASE reap = None
      <4>1. reap' \in Content /\ reapOld' \in BOOLEAN
        BY <2>8, <3>1 DEF CreateReaper
      <4>2. step' \in [Landing -> Steps] /\ phase' \in [Landing -> Phases]
        BY <2>8, <3>1 DEF CreateReaper
      <4>3. seen' \in [Landing -> Content]
        BY <2>8, <3>1 DEF CreateReaper
      <4> QED
        BY <2>8, <3>1, <4>1, <4>2, <4>3 DEF CreateReaper
    <3>2. CASE reap # None
      BY <2>8, <3>2 DEF CreateReaper
    <3> QED
      BY <3>1, <3>2
  <2>9. CASE TakeOver(l)
    BY <2>9 DEF TakeOver, RemoveReaper
  <2>10. CASE ReapLock(l)
    BY <2>10 DEF ReapLock, RemoveLock
  <2>11. CASE LeaveReaper(l)
    BY <2>11 DEF LeaveReaper, RemoveReaper
  <2>12. CASE Release(l)
    BY <2>12 DEF Release
  <2>13. CASE ReleaseRemove(l)
    BY <2>13 DEF ReleaseRemove, RemoveLock
  <2> QED
    BY <1>1, <2>1, <2>2, <2>3, <2>4, <2>5, <2>6, <2>7, <2>8, <2>9, <2>10, <2>11,
       <2>12, <2>13 DEF Code
<1>2. ASSUME NEW l \in Landing, Start(l) PROVE TypeOK'
  BY <1>2 DEF Start, Goto, TypeOK, Steps, files
<1>3. ASSUME NEW l \in Landing, Exit(l) \/ Crash(l) PROVE TypeOK'
  BY <1>3 DEF Exit, Crash, TypeOK, files
<1>4. ASSUME NEW l \in Landing, PidReused(l) \/ Expire(l) PROVE TypeOK'
  <2>1. CASE PidReused(l)
    BY <2>1 DEF PidReused, TypeOK, files
  <2>2. CASE Expire(l)
    BY <2>2 DEF Expire, TypeOK, files
  <2> QED
    BY <1>4, <2>1, <2>2
<1>5. CASE Reboot \/ AgeLock \/ AgeReaper
  <2>1. CASE Reboot
    BY <2>1, BoundAssumption DEF Reboot, TypeOK, files
  <2>2. CASE AgeLock
    BY <2>2 DEF AgeLock, TypeOK, machine
  <2>3. CASE AgeReaper
    BY <2>3 DEF AgeReaper, TypeOK, machine
  <2> QED
    BY <1>5, <2>1, <2>2, <2>3
<1>6. CASE UNCHANGED vars
  BY <1>6 DEF vars, TypeOK
<1> QED
  BY <1>1, <1>2, <1>3, <1>4, <1>5, <1>6 DEF Next, Environment

LEMMA InitTypeOK == Init => TypeOK
<1> SUFFICES ASSUME Init PROVE TypeOK
  OBVIOUS
<1>1. boot \in 0..MaxBoot /\ bootOf \in [Landing -> 0..MaxBoot]
  BY BoundAssumption DEF Init
<1>2. alive \in [Landing -> BOOLEAN] /\ expired \in [Landing -> BOOLEAN]
  BY DEF Init
<1>3. step \in [Landing -> Steps] /\ phase \in [Landing -> Phases]
  BY DEF Init, Steps, Phases
<1>4. seen \in [Landing -> Content] /\ lock \in Content /\ reap \in Content
  BY DEF Init, Content
<1> QED
  BY <1>1, <1>2, <1>3, <1>4 DEF Init, TypeOK

\* TypeOK is an invariant of the specification.
THEOREM TypeCorrect == Spec => []TypeOK
  BY InitTypeOK, TypeStep, PTL DEF Spec

-----------------------------------------------------------------------------
(* What holds in every environment of a lock file and its writer. *)

\* The steps from a successful create to the removal in release.
HoldStep(l) == \/ step[l] \in {"held", "rmMine"}
               \/ phase[l] = "release" /\ step[l] \in {"exists", "readFile", "judge"}

OwnInv ==
  \A l \in Landing : lock = l =>
    /\ HoldStep(l)
    /\ phase[l] = "release" /\ step[l] = "judge" => seen[l] = l

-----------------------------------------------------------------------------
(* What holds in a calm environment. *)

\* A running process started in this boot.
BootInv == \A l \in Landing : alive[l] => bootOf[l] = boot

\* A live holder has its record in the lock file.
HolderInv == \A l \in Landing : Holds(l) => lock = l

\* The reaper file and the live landing inside reapStale determine each other,
\* so nobody finds a reaper to take over.
ReaperInv ==
  /\ \A l \in Landing : alive[l] /\ InReap(l) => reap = l
  /\ reap # None => reap \in Landing /\ alive[reap] /\ InReap(reap) /\ ~reapOld
  /\ \A l \in Landing : alive[l] => step[l] # "rmOther"

\* Who was read is still there when its process is about to be probed.
ProbeInv ==
  \A l \in Landing : alive[l] /\ step[l] \in {"exists", "judge"} =>
    /\ step[l] = "exists" => seen[l] = None
    /\ phase[l] = "other" => seen[l] = None \/ (seen[l] \in Landing /\ alive[seen[l]])
    /\ phase[l] = "recheck" /\ seen[l] \in Landing => lock = seen[l] \/ alive[seen[l]]
    /\ phase[l] = "recheck" /\ seen[l] = Torn => lock = Torn

\* What is about to be removed as stale is the file that was judged.
VerdictInv ==
  \A l \in Landing : alive[l] =>
    /\ step[l] = "ageStat" => phase[l] # "release"
    /\ phase[l] = "recheck" /\ step[l] = "ageStat" => lock = Torn
    /\ step[l] = "rmLock" => lock # None /\ (lock \in Landing => ~alive[lock])

CalmInv == TypeOK /\ OwnInv /\ BootInv /\ HolderInv /\ ReaperInv /\ ProbeInv /\ VerdictInv
-----------------------------------------------------------------------------
\* Only the landing that wrote the lock file moves it between HoldSteps.
LEMMA OwnStep == TypeOK /\ OwnInv /\ [Next]_vars => OwnInv'
<1> SUFFICES ASSUME TypeOK, OwnInv, [Next]_vars,
                    NEW k \in Landing, lock' = k
             PROVE  (HoldStep(k) /\ (phase[k] = "release" /\ step[k] = "judge" => seen[k] = k))'
  BY DEF OwnInv
<1> USE TokenAssumption DEF TypeOK, OwnInv, HoldStep
<1>1. ASSUME NEW l \in Landing, Code(l)
      PROVE  (HoldStep(k) /\ (phase[k] = "release" /\ step[k] = "judge" => seen[k] = k))'
  <2> USE DEF files, machine
  <2>1. CASE CreateLock(l)
    BY <2>1 DEF CreateLock, Read, Goto
  <2>2. CASE Exists(l)
    BY <2>2 DEF Exists, Target, Goto
  <2>3. CASE ReadFile(l)
    BY <2>3 DEF ReadFile, Target, Throw, Goto
  <2>4. CASE JudgeHolder(l)
    BY <2>4, Verdicts DEF JudgeHolder, Condemn, Spare, Goto
  <2>5. CASE JudgeMine(l)
    BY <2>5, Verdicts DEF JudgeMine, Condemn, Spare, Goto
  <2>6. CASE JudgeUnreadable(l)
    BY <2>6, Verdicts DEF JudgeUnreadable, Condemn, Spare, Target, Goto
  <2>7. CASE AgeStat(l)
    BY <2>7, Verdicts DEF AgeStat, Throw, Condemn, Spare, Target, TargetOld, Goto
  <2>8. CASE CreateReaper(l)
    BY <2>8 DEF CreateReaper, Read
  <2>9. CASE TakeOver(l)
    BY <2>9 DEF TakeOver, RemoveReaper, Goto
  <2>10. CASE ReapLock(l)
    BY <2>10 DEF ReapLock, RemoveLock, Goto
  <2>11. CASE LeaveReaper(l)
    BY <2>11 DEF LeaveReaper, RemoveReaper, Goto
  <2>12. CASE Release(l)
    BY <2>12 DEF Release, Read
  <2>13. CASE ReleaseRemove(l)
    BY <2>13 DEF ReleaseRemove, RemoveLock, Goto
  <2> QED
    BY <1>1, <2>1, <2>2, <2>3, <2>4, <2>5, <2>6, <2>7, <2>8,
       <2>9, <2>10, <2>11, <2>12, <2>13 DEF Code
<1>2. ASSUME NEW l \in Landing, Start(l)
      PROVE  (HoldStep(k) /\ (phase[k] = "release" /\ step[k] = "judge" => seen[k] = k))'
  BY <1>2 DEF Start, Goto, files
<1>3. ASSUME UNCHANGED <<lock, step, phase, seen>>
      PROVE  (HoldStep(k) /\ (phase[k] = "release" /\ step[k] = "judge" => seen[k] = k))'
  BY <1>3
<1>4. ASSUME NEW l \in Landing, Exit(l) \/ Crash(l) \/ PidReused(l) \/ Expire(l)
      PROVE  UNCHANGED <<lock, step, phase, seen>>
  BY <1>4 DEF Exit, Crash, PidReused, Expire, files
<1>5. CASE Reboot \/ AgeLock \/ AgeReaper \/ UNCHANGED vars
  BY <1>3, <1>5 DEF Reboot, AgeLock, AgeReaper, vars, files
<1> QED
  BY <1>1, <1>2, <1>3, <1>4, <1>5 DEF Next, Environment

\* NoLockLeftBehind in every environment: however processes die or pause, a
\* landing that got to its end has not left its own lock file behind.
THEOREM ReleaseRemovesOwnLock == Spec => []NoLockLeftBehind
<1>1. Init => OwnInv
  BY TokenAssumption DEF Init, OwnInv
<1>2. TypeOK /\ OwnInv => NoLockLeftBehind
  BY DEF TypeOK, OwnInv, HoldStep, NoLockLeftBehind, Ended
<1> QED
  BY <1>1, <1>2, TypeCorrect, OwnStep, PTL DEF Spec

-----------------------------------------------------------------------------
\* In a calm environment, the calls of the code keep the invariant.
LEMMA CalmCode ==
  ASSUME Calm, CalmInv, NEW l \in Landing, Code(l)
  PROVE  HolderInv' /\ ReaperInv' /\ ProbeInv' /\ VerdictInv'
<1> USE TokenAssumption DEF CalmInv, TypeOK, files, machine
<1>1. CASE CreateLock(l)
  <2>1. HolderInv'
    BY <1>1 DEF CreateLock, Read, Goto, HolderInv, Holds
  <2>2. ReaperInv'
    BY <1>1 DEF CreateLock, Read, Goto, ReaperInv, InReap
  <2>3. ProbeInv'
    BY <1>1 DEF CreateLock, Read, Goto, ProbeInv
  <2>4. VerdictInv'
    BY <1>1 DEF CreateLock, Read, Goto, VerdictInv, ProbeInv
  <2> QED
    BY <2>1, <2>2, <2>3, <2>4
<1>2. CASE Exists(l)
  <2>1. HolderInv'
    BY <1>2 DEF Exists, Target, Goto, HolderInv, Holds
  <2>2. ReaperInv'
    BY <1>2 DEF Exists, Target, Goto, ReaperInv, InReap
  <2>3. ProbeInv'
    BY <1>2 DEF Exists, Target, Goto, ProbeInv
  <2>4. VerdictInv'
    BY <1>2 DEF Exists, Target, Goto, VerdictInv, ProbeInv
  <2> QED
    BY <2>1, <2>2, <2>3, <2>4
<1>3. CASE ReadFile(l)
  <2>1. HolderInv'
    BY <1>3 DEF ReadFile, Target, Throw, Goto, HolderInv, Holds
  <2>2. ReaperInv'
    BY <1>3 DEF ReadFile, Target, Throw, Goto, ReaperInv, InReap
  <2>3. ProbeInv'
    BY <1>3 DEF ReadFile, Target, Throw, Goto, ProbeInv, ReaperInv, InReap
  <2>4. VerdictInv'
    BY <1>3 DEF ReadFile, Target, Throw, Goto, VerdictInv, ProbeInv
  <2> QED
    BY <2>1, <2>2, <2>3, <2>4
<1>4. CASE JudgeHolder(l)
  <2>1. HolderInv'
    BY Verdicts, <1>4 DEF JudgeHolder, Phases, Condemn, Spare, Goto, HolderInv, Holds
  <2>2. ReaperInv'
    BY Verdicts, <1>4 DEF JudgeHolder, Phases, Condemn, Spare, Goto, ReaperInv, InReap, ProbeInv, Stale, BootInv
  <2>3. ProbeInv'
    BY Verdicts, <1>4 DEF JudgeHolder, Phases, Condemn, Spare, Goto, ProbeInv
  <2>4. VerdictInv'
    BY Verdicts, <1>4 DEF JudgeHolder, Phases, Condemn, Spare, Goto, VerdictInv, ProbeInv, Stale, BootInv
  <2> QED
    BY <2>1, <2>2, <2>3, <2>4
<1>5. CASE JudgeMine(l)
  <2>1. HolderInv'
    BY Verdicts, <1>5 DEF JudgeMine, Phases, Condemn, Spare, Goto, HolderInv, Holds
  <2>2. ReaperInv'
    BY Verdicts, <1>5 DEF JudgeMine, Phases, Condemn, Spare, Goto, ReaperInv, InReap
  <2>3. ProbeInv'
    BY Verdicts, <1>5 DEF JudgeMine, Phases, Condemn, Spare, Goto, ProbeInv
  <2>4. VerdictInv'
    BY Verdicts, <1>5 DEF JudgeMine, Phases, Condemn, Spare, Goto, VerdictInv, ProbeInv
  <2> QED
    BY <2>1, <2>2, <2>3, <2>4
<1>6. CASE JudgeUnreadable(l)
  <2>1. HolderInv'
    BY Verdicts, <1>6 DEF JudgeUnreadable, Phases, Condemn, Spare, Target, Goto, HolderInv, Holds
  <2>2. ReaperInv'
    BY Verdicts, <1>6 DEF JudgeUnreadable, Phases, Condemn, Spare, Target, Goto, ReaperInv, InReap, ProbeInv, Stale
  <2>3. ProbeInv'
    BY Verdicts, <1>6 DEF JudgeUnreadable, Phases, Condemn, Spare, Target, Goto, ProbeInv
  <2>4. VerdictInv'
    BY Verdicts, <1>6 DEF JudgeUnreadable, Phases, Condemn, Spare, Target, Goto, VerdictInv, ProbeInv, Content
  <2> QED
    BY <2>1, <2>2, <2>3, <2>4
<1>7. CASE AgeStat(l)
  <2>1. HolderInv'
    BY Verdicts, <1>7 DEF AgeStat, Throw, Phases, Condemn, Spare, Target, TargetOld, Goto, HolderInv, Holds, VerdictInv
  <2>2. ReaperInv'
    BY Verdicts, <1>7 DEF AgeStat, Throw, Phases, Condemn, Spare, Target, TargetOld, Goto, ReaperInv, InReap
  <2>3. ProbeInv'
    BY Verdicts, <1>7 DEF AgeStat, Throw, Phases, Condemn, Spare, Target, TargetOld, Goto, ProbeInv
  <2>4. VerdictInv'
    BY Verdicts, <1>7 DEF AgeStat, Throw, Phases, Condemn, Spare, Target, TargetOld, Goto, VerdictInv, ProbeInv
  <2> QED
    BY <2>1, <2>2, <2>3, <2>4
<1>8. CASE CreateReaper(l)
  <2>1. HolderInv'
    BY <1>8 DEF CreateReaper, Read, HolderInv, Holds
  <2>2. ReaperInv'
    BY <1>8 DEF CreateReaper, Read, ReaperInv, InReap
  <2>3. ProbeInv'
    BY <1>8 DEF CreateReaper, Read, ProbeInv, ReaperInv, InReap
  <2>4. VerdictInv'
    BY <1>8 DEF CreateReaper, Read, VerdictInv, ProbeInv
  <2> QED
    BY <2>1, <2>2, <2>3, <2>4
<1>9. CASE TakeOver(l)
  <2>1. HolderInv'
    BY <1>9 DEF TakeOver, RemoveReaper, Goto, HolderInv, Holds
  <2>2. ReaperInv'
    BY <1>9 DEF TakeOver, RemoveReaper, Goto, ReaperInv, InReap
  <2>3. ProbeInv'
    BY <1>9 DEF TakeOver, RemoveReaper, Goto, ProbeInv
  <2>4. VerdictInv'
    BY <1>9 DEF TakeOver, RemoveReaper, Goto, VerdictInv, ProbeInv
  <2> QED
    BY <2>1, <2>2, <2>3, <2>4
<1>10. CASE ReapLock(l)
  <2>1. HolderInv'
    BY <1>10 DEF ReapLock, RemoveLock, Goto, HolderInv, Holds, VerdictInv
  <2>2. ReaperInv'
    BY <1>10 DEF ReapLock, RemoveLock, Goto, ReaperInv, InReap
  <2>3. ProbeInv'
    BY <1>10 DEF ReapLock, RemoveLock, Goto, ProbeInv, ReaperInv, InReap
  <2>4. VerdictInv'
    BY <1>10 DEF ReapLock, RemoveLock, Goto, VerdictInv, ProbeInv, ReaperInv, InReap
  <2> QED
    BY <2>1, <2>2, <2>3, <2>4
<1>11. CASE LeaveReaper(l)
  <2>1. HolderInv'
    BY <1>11 DEF LeaveReaper, RemoveReaper, Goto, HolderInv, Holds
  <2>2. ReaperInv'
    BY <1>11 DEF LeaveReaper, RemoveReaper, Goto, ReaperInv, InReap
  <2>3. ProbeInv'
    BY <1>11 DEF LeaveReaper, RemoveReaper, Goto, ProbeInv
  <2>4. VerdictInv'
    BY <1>11 DEF LeaveReaper, RemoveReaper, Goto, VerdictInv, ProbeInv
  <2> QED
    BY <2>1, <2>2, <2>3, <2>4
<1>12. CASE Release(l)
  <2>1. HolderInv'
    BY <1>12 DEF Release, Read, HolderInv, Holds
  <2>2. ReaperInv'
    BY <1>12 DEF Release, Read, ReaperInv, InReap
  <2>3. ProbeInv'
    BY <1>12 DEF Release, Read, ProbeInv
  <2>4. VerdictInv'
    BY <1>12 DEF Release, Read, VerdictInv, ProbeInv
  <2> QED
    BY <2>1, <2>2, <2>3, <2>4
<1>13. CASE ReleaseRemove(l)
  <2>1. HolderInv'
    BY <1>13 DEF ReleaseRemove, RemoveLock, Goto, HolderInv, Holds
  <2>2. ReaperInv'
    BY <1>13 DEF ReleaseRemove, RemoveLock, Goto, ReaperInv, InReap
  <2>3. ProbeInv'
    BY <1>13 DEF ReleaseRemove, RemoveLock, Goto, ProbeInv, HolderInv, Holds
  <2>4. VerdictInv'
    BY <1>13 DEF ReleaseRemove, RemoveLock, Goto, VerdictInv, ProbeInv, HolderInv, Holds
  <2> QED
    BY <2>1, <2>2, <2>3, <2>4
<1> QED
  BY <1>1, <1>2, <1>3, <1>4, <1>5, <1>6, <1>7, <1>8,
     <1>9, <1>10, <1>11, <1>12, <1>13 DEF Code

\* In a calm environment, so do the machine's own steps.
LEMMA CalmMachine ==
  ASSUME Calm, CalmInv, Environment
  PROVE  HolderInv' /\ ReaperInv' /\ ProbeInv' /\ VerdictInv'
<1> USE TokenAssumption DEF CalmInv, TypeOK, files, machine
<1>1. ASSUME NEW l \in Landing, Start(l)
      PROVE  HolderInv' /\ ReaperInv' /\ ProbeInv' /\ VerdictInv'
  <2>1. HolderInv'
    BY <1>1 DEF Start, Goto, HolderInv, Holds
  <2>2. ReaperInv'
    BY <1>1 DEF Start, Goto, ReaperInv, InReap
  <2>3. ProbeInv'
    BY <1>1 DEF Start, Goto, ProbeInv
  <2>4. VerdictInv'
    BY <1>1 DEF Start, Goto, VerdictInv, OwnInv, HoldStep
  <2> QED
    BY <2>1, <2>2, <2>3, <2>4
<1>2. ASSUME NEW l \in Landing, Exit(l) \/ Crash(l)
      PROVE  HolderInv' /\ ReaperInv' /\ ProbeInv' /\ VerdictInv'
  <2>1. /\ ~InReap(l) /\ MayVanish(l)
        /\ alive' = [alive EXCEPT ![l] = FALSE]
        /\ UNCHANGED <<files, step, phase, seen>>
    BY <1>2 DEF Exit, Crash, InReap, Ended, Calm
  <2>2. HolderInv'
    BY <2>1 DEF HolderInv, Holds
  <2>3. ReaperInv'
    BY <2>1 DEF ReaperInv, InReap
  <2>4. ProbeInv'
    BY <2>1 DEF ProbeInv, MayVanish, Probing, Calm
  <2>5. VerdictInv'
    BY <2>1 DEF VerdictInv
  <2> QED
    BY <2>2, <2>3, <2>4, <2>5
<1>3. ASSUME NEW l \in Landing, PidReused(l) \/ Expire(l)
      PROVE  HolderInv' /\ ReaperInv' /\ ProbeInv' /\ VerdictInv'
  <2>1. UNCHANGED <<files, alive, step, phase, seen>>
    BY <1>3 DEF PidReused, Expire
  <2> QED
    BY <2>1 DEF HolderInv, Holds, ReaperInv, InReap, ProbeInv, VerdictInv
<1>4. CASE Reboot
  <2>1. \A l \in Landing : ~alive'[l]
    BY <1>4 DEF Reboot
  <2>2. reap = None
    BY <1>4 DEF Reboot, Calm, ReaperInv
  <2> QED
    BY <1>4, <2>1, <2>2 DEF Reboot, HolderInv, Holds, ReaperInv, ProbeInv, VerdictInv
<1>5. CASE AgeLock \/ AgeReaper
  <2>1. UNCHANGED <<lock, reap, reapOld, alive, step, phase, seen>>
    BY <1>5 DEF AgeLock, AgeReaper, Calm, ReaperInv
  <2> QED
    BY <2>1 DEF HolderInv, Holds, ReaperInv, InReap, ProbeInv, VerdictInv
<1> QED
  BY <1>1, <1>2, <1>3, <1>4, <1>5 DEF Environment

\* Every process that runs has started in the current boot.
LEMMA BootStep == TypeOK /\ BootInv /\ [Next]_vars => BootInv'
<1> SUFFICES ASSUME TypeOK, BootInv, [Next]_vars PROVE BootInv'
  OBVIOUS
<1> USE DEF TypeOK, BootInv
<1>1. ASSUME NEW l \in Landing, Code(l) PROVE UNCHANGED machine
  BY <1>1 DEF Code, CreateLock, Exists, ReadFile, JudgeHolder, JudgeMine, JudgeUnreadable,
              AgeStat, CreateReaper, TakeOver, ReapLock, LeaveReaper, Release, ReleaseRemove
<1>2. CASE UNCHANGED machine
  BY <1>2 DEF machine
<1>3. ASSUME NEW l \in Landing, Start(l) PROVE BootInv'
  BY <1>3 DEF Start
<1>4. ASSUME NEW l \in Landing, Exit(l) \/ Crash(l) \/ PidReused(l) \/ Expire(l)
      PROVE  BootInv'
  BY <1>4 DEF Exit, Crash, PidReused, Expire
<1>5. CASE Reboot
  BY <1>5 DEF Reboot
<1>6. CASE AgeLock \/ AgeReaper \/ UNCHANGED vars
  BY <1>2, <1>6 DEF AgeLock, AgeReaper, vars, machine
<1> QED
  BY <1>1, <1>2, <1>3, <1>4, <1>5, <1>6 DEF Next, Environment

LEMMA CalmStep == ASSUME Calm PROVE CalmInv /\ [Next]_vars => CalmInv'
<1> SUFFICES ASSUME CalmInv, [Next]_vars PROVE CalmInv'
  OBVIOUS
<1>1. TypeOK' /\ OwnInv' /\ BootInv'
  BY TypeStep, OwnStep, BootStep DEF CalmInv
<1>2. CASE UNCHANGED vars
  BY <1>1, <1>2 DEF vars, CalmInv, HolderInv, Holds, ReaperInv, InReap, ProbeInv, VerdictInv
<1> QED
  BY <1>1, <1>2, CalmCode, CalmMachine DEF CalmInv, Next

LEMMA CalmInit == Init => CalmInv
<1> SUFFICES ASSUME Init PROVE CalmInv
  OBVIOUS
<1>1. TypeOK
  BY InitTypeOK
<1> QED
  BY <1>1, TokenAssumption DEF Init, CalmInv, OwnInv, BootInv, HolderInv, Holds, ReaperInv,
     InReap, ProbeInv, VerdictInv

-----------------------------------------------------------------------------
\* The lock makes the landing worktree single-writer: in a calm environment at
\* most one live landing holds it, for every number of landings, crashes,
\* reboots and reused pids.  LandLock_crash shows why the first half of Calm is
\* needed; with LongPause instead of CrashInReap the same property fails too.
THEOREM CalmMutualExclusion == ASSUME Calm PROVE Spec => []MutualExclusion
<1>1. CalmInv => MutualExclusion
  BY DEF CalmInv, HolderInv, MutualExclusion
<1> QED
  BY <1>1, CalmInit, CalmStep, PTL DEF Spec

\* In a calm environment a live landing's reaper file is removed only by that
\* landing, at the end of its own reapStale.
THEOREM CalmReaper == ASSUME Calm PROVE Spec => LiveReaperKept
<1>1. CalmInv /\ [Next]_vars =>
        [\A l \in Landing : reap = l /\ alive[l] /\ reap' # l =>
           step[l] \in {"rmReap", "rmReapThrow"} /\ step'[l] # step[l]]_vars
  <2> SUFFICES ASSUME CalmInv, [Next]_vars, NEW l \in Landing,
                      reap = l, alive[l], reap' # l
               PROVE  step[l] \in {"rmReap", "rmReapThrow"} /\ step'[l] # step[l]
    OBVIOUS
  <2>1. ASSUME NEW k \in Landing, Code(k), ~LeaveReaper(k) PROVE FALSE
    BY <2>1, TokenAssumption
       DEF Code, CreateLock, Exists, ReadFile, JudgeHolder, JudgeMine, JudgeUnreadable, AgeStat,
           CreateReaper, TakeOver, ReapLock, Release, ReleaseRemove, RemoveLock, files,
           CalmInv, ReaperInv
  <2>2. ASSUME NEW k \in Landing, LeaveReaper(k)
        PROVE  step[l] \in {"rmReap", "rmReapThrow"} /\ step'[l] # step[l]
    BY <2>2 DEF LeaveReaper, Goto, CalmInv, ReaperInv, InReap, TypeOK
  <2>3. ~UNCHANGED vars /\ ~Environment
    BY DEF vars, files, Environment, Start, Exit, Crash, PidReused, Expire, Reboot, AgeLock,
           AgeReaper
  <2> QED
    BY <2>1, <2>2, <2>3 DEF Next
<1> QED
  BY <1>1, CalmInit, CalmStep, PTL DEF Spec, LiveReaperKept

\* In a calm environment nobody but the holder removes a live holder's lock.
LEMMA HolderKeepsLock ==
  ASSUME Calm, CalmInv, [Next]_vars, NEW l \in Landing, Holds(l), lock' # l
  PROVE  ReleaseRemove(l) 
<1>1. lock = l
  BY DEF CalmInv, HolderInv
<1>2. ASSUME NEW k \in Landing, Code(k), ~ReleaseRemove(k) PROVE FALSE
  BY <1>1, <1>2, TokenAssumption
     DEF Code, CreateLock, Exists, ReadFile, JudgeHolder, JudgeMine, JudgeUnreadable, AgeStat,
         CreateReaper, TakeOver, ReapLock, LeaveReaper, Release, RemoveReaper, files,
         CalmInv, VerdictInv, Holds
<1>3. ASSUME NEW k \in Landing, ReleaseRemove(k) PROVE k = l
  BY <1>1, <1>3 DEF ReleaseRemove, CalmInv, HolderInv, Holds
<1>4. ~UNCHANGED vars /\ ~Environment
  BY <1>1 DEF vars, files, Environment, Start, Exit, Crash, PidReused, Expire, Reboot, AgeLock,
         AgeReaper
<1> QED
  BY <1>2, <1>3, <1>4 DEF Next

\* LiveLockKept in a calm environment.
THEOREM CalmLock == ASSUME Calm PROVE Spec => LiveLockKept
<1>1. CalmInv /\ [Next]_vars =>
        [\A l \in Landing : lock = l /\ Holds(l) /\ lock' # l =>
           step[l] = "rmMine" /\ step'[l] = "done"]_vars
  BY HolderKeepsLock DEF ReleaseRemove, Goto, CalmInv, TypeOK
<1> QED
  BY <1>1, CalmInit, CalmStep, PTL DEF Spec, LiveLockKept

\* In a calm environment acquireLock and release implement the lease: it
\* passes from nobody to one landing and from that landing to nobody.
THEOREM CalmLease == ASSUME Calm PROVE Spec => ImplementsLease
<1> DEFINE holder == {l \in Landing : Holds(l)}
<1>1. Init => Lease!Init
  BY DEF Init, Lease!Init, Holds
<1>2. CalmInv /\ CalmInv' /\ [Next]_vars => [Lease!Next]_holder
  <2> SUFFICES ASSUME CalmInv, CalmInv', [Next]_vars, holder' # holder PROVE Lease!Next
    OBVIOUS
  <2>1. \A k, l \in Landing : Holds(k) /\ Holds(l) => k = l
    BY DEF CalmInv, HolderInv
  <2>2. \A k, l \in Landing : Holds(k)' /\ Holds(l)' => k = l
    BY DEF CalmInv, HolderInv
  <2>3. \A k, l \in Landing : Holds(k) /\ Holds(l)' => k = l
    BY HolderKeepsLock, TokenAssumption
       DEF CalmInv, HolderInv, ReleaseRemove, RemoveLock
  <2>4. PICK l \in Landing : Holds(l) # Holds(l)'
    BY DEF Holds
  <2>5. CASE Holds(l)
    <3>1. holder = {l} /\ holder' = {}
      BY <2>1, <2>3, <2>4, <2>5
    <3> QED
      BY <3>1 DEF Lease!Next, Lease!Leave
  <2>6. CASE ~Holds(l)
    <3>1. Holds(l)'
      BY <2>4, <2>6 DEF Holds
    <3>2. holder = {}
      BY <2>3, <2>6, <3>1
    <3>3. holder' = {l}
      BY <2>2, <3>1
    <3> QED
      BY <3>2, <3>3 DEF Lease!Next, Lease!Acquire
  <2> QED
    BY <2>5, <2>6
<1> QED
  BY <1>1, <1>2, CalmInit, CalmStep, PTL DEF Spec, ImplementsLease, Lease!Spec

=============================================================================
