------------------------------ MODULE LandLanes ------------------------------
(***************************************************************************)
(* One validation of a landing, seen from inside (scripts/lib/land/        *)
(* engine.ts validate and what it calls): the early checks, the programs   *)
(* the gates need, the gates in lanes run by a pool of workers, the checks *)
(* and the look at the tree that binds the evidence to the commit.         *)
(* LandEngine has the landing around it and gives each gate one verdict.   *)
(*                                                                         *)
(* JavaScript runs one handler at a time, so whatever happens between two  *)
(* awaits is one action; the children run at the same time.                *)
(***************************************************************************)
EXTENDS Naturals, FiniteSets

CONSTANTS
  GateName,          \* the gates to run: selected and not inherited (todo)
  Batch,         \* those that are lefthook jobs; the others are commands
  Key,           \* the lane of a command gate, its own if the config names none
  BatchLane,     \* the lane of the lefthook batch
  Rank,          \* the order of the gates and checks in the configuration
  EarlyCheck,    \* the early checks, and bootstrap where it is due
  Check,         \* the checks after the gates
  Retried,       \* the commands with retryOnOutput
  Requiring,     \* the gates that name the programs they need
  Writer,        \* bound: the gates and checks that may write tracked files
  Limit          \* the values parallelGates may have

Command == (GateName \ Batch) \cup EarlyCheck \cup Check

\* The number of runs in flight and the place in the order are naturals, gate
\* and check names are distinct, and no command gate shares the batch's lane.
ASSUME LanesAssumption ==
  /\ Batch \subseteq GateName /\ Requiring \subseteq GateName
  /\ Retried \subseteq Command
  /\ IsFiniteSet(GateName \cup EarlyCheck \cup Check)
  /\ GateName \cap (EarlyCheck \cup Check) = {} /\ EarlyCheck \cap Check = {}
  /\ Rank \in [GateName \cup EarlyCheck \cup Check -> Nat]
  /\ \A a, b \in DOMAIN Rank : Rank[a] = Rank[b] => a = b
  /\ \A g \in GateName \ Batch : Key[g] # BatchLane
  /\ Limit \subseteq Nat

VARIABLES
  stage,      \* where validate is
  limit,      \* parallelGates
  red,        \* ghost: what truly fails on this commit
  toolless,   \* ghost: the gates whose programs are not on PATH
  skipped,    \* ghost: the jobs lefthook leaves out of its run
  flaky,      \* ghost: do commands fail without a cause in this run
  rewritten,  \* a tracked file differs from HEAD
  todo,       \* the checks of this phase that have not passed yet
  queue,      \* the lanes no worker has taken
  flight,     \* the lanes in the hands of workers
  left,       \* by lane, the gates that have not ended
  tried,      \* the commands that are run for the second time
  failed,     \* the lanes that have thrown
  passedGates \* evidence.passed

world == <<limit, red, toolless, skipped, flaky>>
pool == <<queue, flight, left, failed, passedGates>>
lanesVars == <<stage, limit, red, toolless, skipped, flaky, rewritten, todo, queue, flight, left, tried, failed, passedGates>>

\* ------------------------------------------------------------------ lanes

\* Mutant of LaneOf: the lanes the configuration names are ignored.
LaneEach(g) == IF g \in Batch THEN BatchLane ELSE g
\* gateLanes: the lefthook jobs are one lane, commands share lanes by name.
LaneOf(g) == IF g \in Batch THEN BatchLane ELSE Key[g]
Lane == {LaneOf(g) : g \in GateName}
GatesOf(k) == {g \in GateName : LaneOf(g) = k}
First(S) == CHOOSE g \in S : \A h \in S : Rank[g] <= Rank[h]
\* The lanes in the order gateLanes pushes them.
Before(j, k) == j = BatchLane \/ (k # BatchLane /\ Rank[First(GatesOf(j))] <= Rank[First(GatesOf(k))])
\* What the children of lane k are running: all jobs of the batch, or one gate.
Running(k) == IF k = BatchLane THEN left[k] ELSE {First(left[k])}
InFlight == UNION {Running(k) : k \in flight}

LanesTypeOK ==
  /\ stage \in {"early", "tools", "lanes", "checks", "tree", "valid", "abort"}
  /\ limit \in Limit /\ rewritten \in BOOLEAN /\ flaky \in BOOLEAN
  /\ red \subseteq GateName \cup EarlyCheck \cup Check
  /\ toolless \subseteq Requiring /\ skipped \subseteq Batch
  /\ todo \subseteq EarlyCheck \cup Check /\ tried \subseteq Command
  /\ queue \subseteq Lane /\ flight \subseteq Lane /\ failed \subseteq Lane
  /\ left \in [Lane -> SUBSET GateName] /\ passedGates \subseteq GateName

\* A validation begins: fresh worktree, no evidence, nothing run.
LanesInit ==
  /\ stage = "early" /\ todo = EarlyCheck
  /\ limit \in Limit
  /\ red \in SUBSET (GateName \cup EarlyCheck \cup Check)
  /\ toolless \in SUBSET Requiring
  /\ skipped \in SUBSET Batch
  /\ flaky \in BOOLEAN
  /\ rewritten = FALSE /\ tried = {}
  /\ queue = Lane /\ flight = {} /\ failed = {} /\ passedGates = {}
  /\ left = [k \in Lane |-> GatesOf(k)]

\* ------------------------------------------------------- running a program

\* A command of the same lane runs at the same time: they starve each other.
Starved(g) == \E h \in InFlight \ {g} : g \in GateName \ Batch /\ h \in GateName \ Batch /\ Key[h] = Key[g]

\* How a run of c can end: "again" is a failure whose output matches
\* retryOnOutput.  Without its programs a hook skips softly, on a tree that
\* gates have changed a verdict may be any.
Outcomes(c) ==
  CASE c \in toolless -> {"ok"}
    [] c \notin toolless /\ rewritten -> {"ok", "fail"}
    [] c \notin toolless /\ ~rewritten /\ (c \in red \/ Starved(c)) -> {"fail", "again"}
    [] OTHER -> {"ok"} \cup (IF c \in Retried \ tried THEN {"again"} ELSE {})
                       \cup (IF flaky THEN {"fail", "again"} ELSE {})

\* runCheck: run once more if it failed, the output matches, and it is the first run.
Again(c, o) == o = "again" /\ c \in Retried /\ c \notin tried

RetryKnown(c) == tried' = tried \cup {c}
Settle(c) == tried' = tried \ {c}

\* ----------------------------------------------------------------- actions

\* The checks of a phase, one after the other; the first failure aborts.
RunCheck(phase) ==
  /\ stage = phase /\ todo # {}
  /\ \E o \in Outcomes(First(todo)) :
       \/ /\ o = "ok" /\ todo' = todo \ {First(todo)} /\ Settle(First(todo))
          /\ stage' = stage
       \/ /\ Again(First(todo), o) /\ RetryKnown(First(todo)) /\ UNCHANGED <<stage, todo>>
       \/ /\ o # "ok" /\ ~Again(First(todo), o) /\ Settle(First(todo))
          /\ stage' = "abort" /\ UNCHANGED todo
  /\ UNCHANGED <<world, rewritten, pool>>

ChecksDone(phase, next) ==
  /\ stage = phase /\ todo = {} /\ stage' = next
  /\ UNCHANGED <<world, rewritten, todo, tried, pool>>

\* requireTools: a gate whose programs are missing would skip softly.
RequireTools ==
  /\ stage = "tools"
  /\ stage' = IF toolless = {} THEN "lanes" ELSE "abort"
  /\ UNCHANGED <<world, rewritten, todo, tried, pool>>

\* Mutant of Workers: as many as the configuration says.
LimitWorkers == limit
\* The workers there are: Array.from({length: Math.max(1, limit)}).
Workers == IF limit = 0 THEN 1 ELSE limit

\* A free worker takes the next lane.
Take(k) ==
  /\ stage = "lanes" /\ k \in queue
  /\ Cardinality(flight) < Workers
  /\ \A j \in queue \ {k} : ~Before(j, k)
  /\ queue' = queue \ {k} /\ flight' = flight \cup {k}
  /\ UNCHANGED <<stage, world, rewritten, todo, left, tried, failed, passedGates>>

\* Mutant of LaneEnds: the worker of a lane that throws is lost.
WorkerLost(k, ok) ==
  /\ flight' = IF ok THEN flight \ {k} ELSE flight
  /\ failed' = IF ok THEN failed ELSE failed \cup {k}
\* Lane k ends, well or with an exception, which runLanes keeps.
LaneEnds(k, ok) ==
  /\ flight' = flight \ {k}
  /\ failed' = IF ok THEN failed ELSE failed \cup {k}

\* A command of a lane ends.
GateEnds(k) ==
  /\ stage = "lanes" /\ k \in flight \ {BatchLane}
  /\ LET g == First(left[k])
     IN  \E o \in Outcomes(g) :
           \/ /\ o = "ok" /\ passedGates' = passedGates \cup {g} /\ Settle(g)
              /\ left' = [left EXCEPT ![k] = @ \ {g}]
              /\ IF left[k] = {g} THEN LaneEnds(k, TRUE) ELSE UNCHANGED <<flight, failed>>
           \/ /\ Again(g, o) /\ RetryKnown(g) /\ UNCHANGED <<flight, failed, left, passedGates>>
           \/ /\ o # "ok" /\ ~Again(g, o) /\ Settle(g)
              /\ LaneEnds(k, FALSE) /\ UNCHANGED <<left, passedGates>>
  /\ UNCHANGED <<stage, world, rewritten, todo, queue>>

\* runLefthookBatch: exit 0, and no job missing from the summary.
BatchOk(green, bad) == bad = {} /\ green = GatesOf(BatchLane)

\* passedJobs: the jobs the summary ticks off; a skipped one is not named.
PassedJobs(bad) == (Batch \ skipped) \ bad

\* The lefthook batch ends: the jobs named in its summary are evidence.
BatchEnds ==
  /\ stage = "lanes" /\ BatchLane \in flight
  /\ \E bad \in SUBSET (Batch \ skipped) :
       LET green == PassedJobs(bad)
       IN  /\ \A g \in bad : Outcomes(g) # {"ok"}
           /\ \A g \in green : "ok" \in Outcomes(g)
           /\ passedGates' = passedGates \cup green
           /\ left' = [left EXCEPT ![BatchLane] = @ \ green]
           /\ LaneEnds(BatchLane, BatchOk(green, bad))
  /\ UNCHANGED <<stage, world, rewritten, todo, queue, tried>>

\* The remote has no url: git fails before lefthook is run.
BatchNotRun ==
  /\ flaky /\ stage = "lanes" /\ BatchLane \in flight
  /\ LaneEnds(BatchLane, FALSE)
  /\ UNCHANGED <<stage, world, rewritten, todo, queue, left, tried, passedGates>>

\* Mutant of Joined: the first exception ends the run.
JoinedAtOnce == failed # {} \/ (flight = {} /\ queue = {})
\* Promise.allSettled over workers that take lanes until there are none.
Joined == flight = {} /\ (Workers = 0 \/ queue = {})

\* runLanes returns or throws the first failure; the checks follow.
LanesEnd ==
  /\ stage = "lanes" /\ Joined
  /\ IF failed = {} THEN stage' = "checks" /\ todo' = Check ELSE stage' = "abort" /\ UNCHANGED todo
  /\ UNCHANGED <<world, rewritten, tried, pool>>

\* assertUnchanged: HEAD and the tracked files are those the gates were given.
AssertUnchanged ==
  /\ stage = "tree"
  /\ stage' = IF rewritten THEN "abort" ELSE "valid"
  /\ UNCHANGED <<world, rewritten, todo, tried, pool>>

\* A gate or check that is running writes a tracked file that ignoreDirty
\* does not name.
WriteTree ==
  /\ ~rewritten /\ rewritten' = TRUE
  /\ \/ stage = "lanes" /\ InFlight \cap Writer # {}
     \/ stage \in {"early", "checks"} /\ todo # {} /\ First(todo) \in Writer
  /\ UNCHANGED <<stage, world, todo, tried, pool>>

LanesNext ==
  \/ RunCheck("early") \/ ChecksDone("early", "tools")
  \/ RequireTools
  \/ \E k \in Lane : Take(k) \/ GateEnds(k)
  \/ BatchEnds \/ BatchNotRun \/ LanesEnd
  \/ RunCheck("checks") \/ ChecksDone("checks", "tree")
  \/ AssertUnchanged
  \/ WriteTree

LanesSpec == LanesInit /\ [][LanesNext]_lanesVars
\* Every program the validation starts ends, and Node runs what is due.
LanesFairSpec == LanesSpec /\ WF_lanesVars(LanesNext)

\* -------------------------------------------------------------- properties

\* validate (engine.ts:575) returns evidence only for a commit on which nothing
\* is red: not a gate that was never run, one that lefthook left out, one that
\* skipped for want of a program, nor one that ran on another tree.
ValidMeansGreen ==
  stage = "valid" => red = {} /\ passedGates = GateName

\* engine.ts:452: every started lane finishes and one red gate never hides
\* another.  When validation is over nothing runs in the worktree any more, and
\* when a lane failed each red gate is in a lane that did.
RedsReported ==
  /\ stage \in {"valid", "abort"} => flight = {}
  /\ stage = "abort" /\ failed # {} /\ ~rewritten =>
       \A g \in red \cap GateName : LaneOf(g) \in failed

\* A commit on which nothing is red, with its programs and jobs in place, is not
\* refused: lanes keep the commands apart that starve each other (config.ts:19),
\* and a known infrastructure failure costs a second run (config.ts:33).
GreenIsAccepted ==
  stage = "abort" /\ ~flaky => red # {} \/ toolless # {} \/ skipped # {} \/ rewritten

\* Whatever fails, every validation ends: no lane waits for a worker for ever.
ValidationEnds == <>(stage \in {"valid", "abort"})
=============================================================================
