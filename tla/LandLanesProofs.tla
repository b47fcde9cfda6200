--------------------------- MODULE LandLanesProofs ---------------------------
(***************************************************************************)
(* Theorems about one validation, for every set of gates, lanes, checks    *)
(* and workers.                                                            *)
(***************************************************************************)
EXTENDS LandLanes, TLAPS, WellFoundedInduction

\* A non-empty set of gates has a first one in the order of the configuration.
LEMMA FirstIn ==
  ASSUME LanesAssumption, NEW S, S \subseteq DOMAIN Rank, S # {}
  PROVE  First(S) \in S
<1> DEFINE T == {Rank[g] : g \in S}
<1>1. T \subseteq Nat /\ T # {}
  BY DEF LanesAssumption
<1>2. \E x \in T : \A y \in T : ~ (<<y, x>> \in OpToRel(<, Nat))
  BY <1>1, WFMin, NatLessThanWellFounded, Zenon
<1>3. PICK x \in T : \A y \in T : ~ (<<y, x>> \in OpToRel(<, Nat))
  BY <1>2
<1>4. \A y \in T : ~(y < x)
  BY <1>1, <1>3 DEF OpToRel
<1>5. PICK g \in S : x = Rank[g]
  BY <1>3
<1>6. \A h \in S : Rank[g] <= Rank[h]
  BY <1>1, <1>4, <1>5
<1> QED
  BY <1>5, <1>6 DEF First

-----------------------------------------------------------------------------
(* The inductive invariant. *)

\* Where a lane is: not taken and whole, taken and not finished, failed, done.
LaneInv ==
  /\ queue \cap flight = {} /\ queue \cap failed = {} /\ flight \cap failed = {}
  /\ \A k \in Lane : left[k] \subseteq GatesOf(k) /\ GatesOf(k) \ left[k] \subseteq passedGates
  /\ \A k \in queue : left[k] = GatesOf(k)
  /\ \A k \in flight : left[k] # {}
  /\ \A k \in Lane \ (queue \cup flight \cup failed) : left[k] = {}

\* The lanes before, while and after runLanes is in them.
PhaseInv ==
  /\ stage \in {"early", "tools"} => flight = {} /\ failed = {} /\ passedGates = {}
  /\ stage \in {"lanes", "checks", "tree", "valid"} => toolless = {}
  /\ stage \in {"checks", "tree", "valid"} => queue = {} /\ flight = {} /\ failed = {}
  /\ stage = "abort" => flight = {} /\ (failed # {} => queue = {} /\ toolless = {})

\* What has been found green is green, unless the tree was modified.
GreenInv ==
  /\ toolless = {} => rewritten \/ passedGates \cap red = {}
  /\ stage = "early" => rewritten \/ EarlyCheck \cap red \subseteq todo
  /\ stage \notin {"early", "abort"} => rewritten \/ EarlyCheck \cap red = {}
  /\ stage = "checks" => rewritten \/ Check \cap red \subseteq todo
  /\ stage \in {"tree", "valid"} => rewritten \/ Check \cap red = {}
  /\ stage = "valid" => ~rewritten
  /\ stage = "early" => todo \subseteq EarlyCheck
  /\ stage = "checks" => todo \subseteq Check

LanesInv == LanesTypeOK /\ LaneInv /\ PhaseInv /\ GreenInv

LEMMA GateLane ==
  ASSUME NEW k \in Lane
  PROVE  GatesOf(k) # {} /\ GatesOf(k) \subseteq GateName
  BY DEF Lane, GatesOf

LEMMA InitLanes ==
  ASSUME LanesAssumption, LanesInit
  PROVE  LanesInv
<1>1. LanesTypeOK
  BY DEF LanesInit, LanesTypeOK, GatesOf
<1>2. LaneInv
  BY DEF LanesInit, LaneInv
<1>3. PhaseInv
  BY DEF LanesInit, PhaseInv
<1>4. GreenInv
  BY DEF LanesInit, GreenInv
<1> QED
  BY <1>1, <1>2, <1>3, <1>4 DEF LanesInv

\* A clean run that ends "ok" is of something green.
LEMMA OkIsGreen ==
  ASSUME NEW c, "ok" \in Outcomes(c), toolless = {}, ~rewritten
  PROVE  c \notin red
  BY DEF Outcomes

\* The steps of the checks, before and after the lanes.
LEMMA CheckStep ==
  ASSUME LanesAssumption, LanesInv, NEW phase \in {"early", "checks"}, RunCheck(phase)
  PROVE  LanesInv'
<1> USE DEF RunCheck, world, pool
<1> DEFINE c == First(todo)
<1>1. todo \subseteq DOMAIN Rank /\ todo # {}
  BY DEF LanesInv, LanesTypeOK, LanesAssumption
<1>2. c \in todo
  BY <1>1, FirstIn
<1>3. c \in Command
  BY <1>2 DEF LanesInv, LanesTypeOK, Command
<1>4. c \notin toolless
  BY <1>2 DEF LanesInv, LanesTypeOK, LanesAssumption
<1>5. PICK o \in Outcomes(c) :
         \/ o = "ok" /\ todo' = todo \ {c} /\ Settle(c) /\ stage' = stage
         \/ Again(c, o) /\ RetryKnown(c) /\ UNCHANGED <<stage, todo>>
         \/ o # "ok" /\ Settle(c) /\ stage' = "abort" /\ UNCHANGED todo
  OBVIOUS
<1>6. todo' = todo \/ (o = "ok" /\ todo' = todo \ {c} /\ stage' = stage)
  BY <1>5
<1>7. tried' \subseteq Command
  BY <1>3, <1>5 DEF Settle, RetryKnown, LanesInv, LanesTypeOK
<1>8. stage' = stage \/ (stage' = "abort" /\ todo' = todo)
  BY <1>5
<1>9. LanesTypeOK'
  BY <1>6, <1>7, <1>8 DEF LanesInv, LanesTypeOK
<1>10. LaneInv'
  BY DEF LanesInv, LaneInv
<1>11. PhaseInv'
  BY <1>8 DEF LanesInv, PhaseInv
<1>12. o = "ok" => rewritten \/ c \notin red
  BY <1>4, <1>5 DEF Outcomes
<1>13. GreenInv'
  BY <1>6, <1>8, <1>12 DEF LanesInv, GreenInv
<1> QED
  BY <1>9, <1>10, <1>11, <1>13 DEF LanesInv

\* The phases that follow one another, and a tracked file that is written.
LEMMA PhaseStep ==
  ASSUME LanesAssumption, LanesInv,
         \/ ChecksDone("early", "tools") \/ RequireTools \/ LanesEnd
         \/ ChecksDone("checks", "tree") \/ AssertUnchanged \/ WriteTree
  PROVE  LanesInv'
<1> USE DEF ChecksDone, RequireTools, LanesEnd, AssertUnchanged, WriteTree, world, pool
<1>1. Workers # 0
  BY DEF Workers, LanesInv, LanesTypeOK, LanesAssumption
<1>2. LanesEnd => flight = {} /\ queue = {}
  BY <1>1 DEF Joined
<1>3. LanesTypeOK'
  BY DEF LanesInv, LanesTypeOK
<1>4. LaneInv'
  BY DEF LanesInv, LaneInv
<1>5. PhaseInv'
  BY <1>2 DEF LanesInv, PhaseInv
<1>6. GreenInv'
  BY DEF LanesInv, GreenInv
<1> QED
  BY <1>3, <1>4, <1>5, <1>6 DEF LanesInv

\* A worker takes a lane.
LEMMA TakeStep ==
  ASSUME LanesAssumption, LanesInv, NEW k \in Lane, Take(k)
  PROVE  LanesInv'
<1> USE DEF Take, world
<1>1. LanesTypeOK'
  BY DEF LanesInv, LanesTypeOK
<1>2. left[k] # {}
  BY GateLane DEF LanesInv, LaneInv
<1>3. LaneInv'
  BY <1>2 DEF LanesInv, LaneInv
<1>4. PhaseInv'
  BY DEF LanesInv, PhaseInv
<1>5. GreenInv'
  BY DEF LanesInv, GreenInv
<1> QED
  BY <1>1, <1>3, <1>4, <1>5 DEF LanesInv

\* A command of a lane ends.
LEMMA GateStep ==
  ASSUME LanesAssumption, LanesInv, NEW k \in Lane, GateEnds(k)
  PROVE  LanesInv'
<1> USE DEF GateEnds, world
<1> DEFINE g == First(left[k])
<1>1. k \in flight /\ k \notin queue /\ k \notin failed /\ k # BatchLane /\ stage = "lanes"
  BY DEF LanesInv, LaneInv
<1>2. left[k] # {} /\ left[k] \subseteq DOMAIN Rank /\ left[k] \subseteq GatesOf(k)
  BY <1>1 DEF LanesInv, LaneInv, LanesTypeOK, LanesAssumption
<1>3. g \in left[k]
  BY <1>2, FirstIn
<1>4. g \in GateName \ Batch /\ LaneOf(g) = k
  BY <1>1, <1>2, <1>3 DEF GatesOf, LaneOf
<1>5. g \in Command
  BY <1>4 DEF Command
<1>6. PICK o \in Outcomes(g) :
         \/ /\ o = "ok" /\ passedGates' = passedGates \cup {g} /\ Settle(g)
            /\ left' = [left EXCEPT ![k] = @ \ {g}]
            /\ IF left[k] = {g} THEN LaneEnds(k, TRUE) ELSE UNCHANGED <<flight, failed>>
         \/ Again(g, o) /\ RetryKnown(g) /\ UNCHANGED <<flight, failed, left, passedGates>>
         \/ Settle(g) /\ LaneEnds(k, FALSE) /\ UNCHANGED <<left, passedGates>>
  OBVIOUS
<1>7. toolless = {} /\ UNCHANGED <<stage, limit, red, toolless, skipped, flaky, rewritten, todo, queue>>
  BY <1>1 DEF LanesInv, PhaseInv
<1>8. tried' \subseteq Command
  BY <1>5, <1>6 DEF Settle, RetryKnown, LanesInv, LanesTypeOK
<1>9. left \in [Lane -> SUBSET GateName] /\ flight \subseteq Lane /\ failed \subseteq Lane /\ queue \subseteq Lane
  BY DEF LanesInv, LanesTypeOK
<1>10. CASE o = "ok" /\ passedGates' = passedGates \cup {g} /\ left' = [left EXCEPT ![k] = @ \ {g}]
           /\ IF left[k] = {g} THEN LaneEnds(k, TRUE) ELSE UNCHANGED <<flight, failed>>
  <2>1. left' \in [Lane -> SUBSET GateName] /\ left'[k] = left[k] \ {g}
        /\ \A j \in Lane \ {k} : left'[j] = left[j]
    BY <1>9, <1>10
  <2>2. failed' = failed /\ flight' = (IF left[k] = {g} THEN flight \ {k} ELSE flight)
    BY <1>10 DEF LaneEnds
  <2>3. LanesTypeOK'
    BY <1>4, <1>7, <1>8, <1>9, <1>10, <2>1, <2>2 DEF LanesInv, LanesTypeOK
  <2>4. left'[k] = {} <=> left[k] = {g}
    BY <1>3, <2>1
  <2>5. LaneInv'
    <3>1. queue \cap flight' = {} /\ queue \cap failed' = {} /\ flight' \cap failed' = {}
      BY <2>2 DEF LanesInv, LaneInv
    <3>2. \A j \in Lane : left'[j] \subseteq GatesOf(j) /\ GatesOf(j) \ left'[j] \subseteq passedGates'
      BY <1>10, <2>1 DEF LanesInv, LaneInv
    <3>3. \A j \in queue : left'[j] = GatesOf(j)
      BY <1>1, <1>9, <2>1 DEF LanesInv, LaneInv
    <3>4. \A j \in flight' : left'[j] # {}
      BY <1>9, <2>1, <2>2, <2>4 DEF LanesInv, LaneInv
    <3>5. \A j \in Lane \ (queue \cup flight' \cup failed') : left'[j] = {}
      BY <2>1, <2>2, <2>4 DEF LanesInv, LaneInv
    <3> QED
      BY <1>7, <3>1, <3>2, <3>3, <3>4, <3>5 DEF LaneInv, GatesOf, Lane, LaneOf
  <2>6. PhaseInv'
    BY <1>1, <1>7 DEF LanesInv, PhaseInv
  <2>7. rewritten \/ g \notin red
    BY <1>7, <1>10, OkIsGreen
  <2>8. GreenInv'
    BY <1>1, <1>7, <1>10, <2>7 DEF LanesInv, GreenInv
  <2> QED
    BY <2>3, <2>5, <2>6, <2>8 DEF LanesInv
<1>11. CASE UNCHANGED <<flight, failed, left, passedGates>>
  BY <1>7, <1>8, <1>11 DEF LanesInv, LanesTypeOK, LaneInv, PhaseInv, GreenInv
<1>12. CASE LaneEnds(k, FALSE) /\ UNCHANGED <<left, passedGates>>
  <2>1. flight' = flight \ {k} /\ failed' = failed \cup {k}
    BY <1>12 DEF LaneEnds
  <2>2. LanesTypeOK'
    BY <1>7, <1>8, <1>9, <1>12, <2>1 DEF LanesInv, LanesTypeOK
  <2>3. LaneInv'
    BY <1>1, <1>7, <1>12, <2>1 DEF LanesInv, LaneInv
  <2>4. PhaseInv'
    BY <1>1, <1>7 DEF LanesInv, PhaseInv
  <2>5. GreenInv'
    BY <1>1, <1>7, <1>12 DEF LanesInv, GreenInv
  <2> QED
    BY <2>2, <2>3, <2>4, <2>5 DEF LanesInv
<1> QED
  BY <1>6, <1>10, <1>11, <1>12

\* The lefthook batch ends, or cannot be run.
LEMMA BatchStep ==
  ASSUME LanesAssumption, LanesInv, BatchEnds \/ BatchNotRun
  PROVE  LanesInv'
<1> USE DEF BatchEnds, BatchNotRun, world
<1> DEFINE k == BatchLane
<1>1. k \in flight /\ k \notin queue /\ k \notin failed /\ stage = "lanes" /\ k \in Lane
  BY DEF LanesInv, LaneInv, LanesTypeOK
<1>2. toolless = {} /\ UNCHANGED <<stage, limit, red, toolless, skipped, flaky, rewritten, todo, queue, tried>>
  BY <1>1 DEF LanesInv, PhaseInv
<1>3. left \in [Lane -> SUBSET GateName] /\ flight \subseteq Lane /\ failed \subseteq Lane
  BY DEF LanesInv, LanesTypeOK
<1>4. GatesOf(k) = Batch
  BY DEF GatesOf, LaneOf, LanesAssumption
<1>5. PICK green \in SUBSET Batch :
         /\ \A g \in green : "ok" \in Outcomes(g)
         /\ passedGates' = passedGates \cup green /\ left' = [left EXCEPT ![k] = @ \ green]
         /\ \/ LaneEnds(k, TRUE) /\ green = Batch
            \/ LaneEnds(k, FALSE)
  <2>1. CASE BatchNotRun
    <3>1. [left EXCEPT ![k] = @ \ {}] = left
      BY <1>3
    <3>2. left' = [left EXCEPT ![k] = @ \ {}] /\ passedGates' = passedGates \cup {} /\ LaneEnds(k, FALSE)
      BY <2>1, <3>1
    <3> WITNESS {} \in SUBSET Batch
    <3> QED
      BY <3>2
  <2>2. CASE BatchEnds
    <3>1. PICK bad \in SUBSET (Batch \ skipped) :
            LET green == PassedJobs(bad)
            IN  /\ \A g \in green : "ok" \in Outcomes(g)
                /\ passedGates' = passedGates \cup green
                /\ left' = [left EXCEPT ![k] = @ \ green]
                /\ LaneEnds(k, BatchOk(green, bad))
      BY <2>2
    <3> DEFINE green == PassedJobs(bad)
    <3>0. green \in SUBSET Batch
      BY DEF PassedJobs
    <3>2. LaneEnds(k, BatchOk(green, bad)) =>
            (LaneEnds(k, TRUE) /\ BatchOk(green, bad)) \/ LaneEnds(k, FALSE)
      BY DEF LaneEnds
    <3>3. BatchOk(green, bad) => green = Batch
      BY <1>4 DEF BatchOk
    <3> QED
      BY <3>0, <3>1, <3>2, <3>3
  <2> QED
    BY <2>1, <2>2
<1>6. left' \in [Lane -> SUBSET GateName] /\ left'[k] = left[k] \ green
      /\ \A j \in Lane \ {k} : left'[j] = left[j]
  BY <1>1, <1>3, <1>5
<1>7. flight' = flight \ {k}
      /\ \/ failed' = failed \cup {k}
         \/ failed' = failed /\ left'[k] = {}
  <2>1. left[k] \subseteq Batch
    BY <1>1, <1>4 DEF LanesInv, LaneInv
  <2> QED
    BY <1>5, <1>6, <2>1 DEF LaneEnds
<1>8. LanesTypeOK'
  BY <1>1, <1>2, <1>3, <1>5, <1>6, <1>7 DEF LanesInv, LanesTypeOK, LanesAssumption
<1>9. LaneInv'
  <2>1. queue \cap flight' = {} /\ queue \cap failed' = {} /\ flight' \cap failed' = {}
    BY <1>1, <1>7 DEF LanesInv, LaneInv
  <2>2. \A j \in Lane : left'[j] \subseteq GatesOf(j) /\ GatesOf(j) \ left'[j] \subseteq passedGates'
    BY <1>5, <1>6 DEF LanesInv, LaneInv
  <2>3. \A j \in queue : left'[j] = GatesOf(j)
    BY <1>1, <1>6 DEF LanesInv, LaneInv, LanesTypeOK
  <2>4. \A j \in flight' : left'[j] # {}
    BY <1>3, <1>6, <1>7 DEF LanesInv, LaneInv
  <2>5. \A j \in Lane \ (queue \cup flight' \cup failed') : left'[j] = {}
    BY <1>6, <1>7 DEF LanesInv, LaneInv
  <2> QED
    BY <1>2, <2>1, <2>2, <2>3, <2>4, <2>5 DEF LaneInv, GatesOf, Lane, LaneOf
<1>10. PhaseInv'
  BY <1>1, <1>2 DEF LanesInv, PhaseInv
<1>11. rewritten \/ green \cap red = {}
  BY <1>2, <1>5, OkIsGreen
<1>12. GreenInv'
  BY <1>1, <1>2, <1>5, <1>11 DEF LanesInv, GreenInv
<1> QED
  BY <1>8, <1>9, <1>10, <1>12 DEF LanesInv

LEMMA LanesStep ==
  ASSUME LanesAssumption, LanesInv, [LanesNext]_lanesVars
  PROVE  LanesInv'
<1>1. CASE RunCheck("early") \/ RunCheck("checks")
  BY <1>1, CheckStep
<1>2. CASE \/ ChecksDone("early", "tools") \/ RequireTools \/ LanesEnd
           \/ ChecksDone("checks", "tree") \/ AssertUnchanged \/ WriteTree
  BY <1>2, PhaseStep
<1>3. CASE \E k \in Lane : Take(k) \/ GateEnds(k)
  BY <1>3, TakeStep, GateStep
<1>4. CASE BatchEnds \/ BatchNotRun
  BY <1>4, BatchStep
<1>5. CASE UNCHANGED lanesVars
  BY <1>5 DEF lanesVars, LanesInv, LanesTypeOK, LaneInv, PhaseInv, GreenInv
<1> QED
  BY <1>1, <1>2, <1>3, <1>4, <1>5 DEF LanesNext

LEMMA LanesInvariant == LanesSpec => []LanesInv
<1>1. LanesInit => LanesInv
  BY LanesAssumption, InitLanes
<1>2. LanesInv /\ [LanesNext]_lanesVars => LanesInv'
  BY LanesAssumption, LanesStep
<1> QED
  BY <1>1, <1>2, PTL DEF LanesSpec

-----------------------------------------------------------------------------

\* Type correctness of a validation.
THEOREM LanesTypeCorrect == LanesSpec => []LanesTypeOK
<1>1. LanesInv => LanesTypeOK
  BY DEF LanesInv
<1> QED
  BY <1>1, LanesInvariant, PTL

\* Whatever lanes the gates are in and however many workers there are, evidence
\* is returned only for a commit on which every gate and check is green.
THEOREM ValidationIsSound == LanesSpec => []ValidMeansGreen
<1>1. LanesInv => ValidMeansGreen
  <2> SUFFICES ASSUME LanesInv, stage = "valid"
               PROVE  red = {} /\ passedGates = GateName
    BY DEF ValidMeansGreen
  <2>1. \A k \in Lane : GatesOf(k) \subseteq passedGates
    BY DEF LanesInv, LaneInv, PhaseInv
  <2>2. passedGates = GateName
    BY <2>1 DEF LanesInv, LanesTypeOK, Lane, GatesOf
  <2> QED
    BY <2>2 DEF LanesInv, LanesTypeOK, PhaseInv, GreenInv
<1> QED
  BY <1>1, LanesInvariant, PTL

\* A red gate is never hidden by another one, and no gate outlives validate.
THEOREM NoRedIsHidden == LanesSpec => []RedsReported
<1>1. LanesInv => RedsReported
  <2> SUFFICES ASSUME LanesInv, stage \in {"valid", "abort"}
               PROVE  /\ flight = {}
                      /\ stage = "abort" /\ failed # {} /\ ~rewritten =>
                           \A g \in red \cap GateName : LaneOf(g) \in failed
    BY DEF RedsReported
  <2>1. flight = {}
    BY DEF LanesInv, PhaseInv
  <2>2. ASSUME stage = "abort", failed # {}, ~rewritten, NEW g \in red \cap GateName
        PROVE  LaneOf(g) \in failed
    <3>1. queue = {} /\ toolless = {}
      BY <2>2 DEF LanesInv, PhaseInv
    <3>2. g \notin passedGates
      BY <2>2, <3>1 DEF LanesInv, GreenInv
    <3>3. LaneOf(g) \in Lane /\ g \in GatesOf(LaneOf(g))
      BY <2>2 DEF Lane, GatesOf
    <3>4. g \in left[LaneOf(g)]
      BY <3>2, <3>3 DEF LanesInv, LaneInv
    <3> QED
      BY <2>1, <3>1, <3>3, <3>4 DEF LanesInv, LaneInv
  <2> QED
    BY <2>1, <2>2
<1> QED
  BY <1>1, LanesInvariant, PTL

-----------------------------------------------------------------------------
(* Nothing green is refused. *)

\* Nothing is wrong with the commit, nor with the machine.
Clean == ~flaky /\ red = {} /\ toolless = {} /\ skipped = {} /\ ~rewritten

AcceptInv == Clean => stage # "abort" /\ failed = {}

\* Then a failure can only be the known one, which is run again.
LEMMA CleanRun ==
  ASSUME Clean, NEW c, ~Starved(c), NEW o \in Outcomes(c)
  PROVE  o = "ok" \/ Again(c, o)
  BY DEF Clean, Outcomes, Again

\* A lane is in the hands of one worker, who runs one command at a time.
LEMMA LanesKeepApart ==
  ASSUME LanesAssumption, LanesInv, NEW k \in flight, k # BatchLane
  PROVE  ~Starved(First(left[k]))
<1>1. \A j \in flight : j \in Lane /\ left[j] # {} /\ left[j] \subseteq GatesOf(j)
  BY DEF LanesInv, LanesTypeOK, LaneInv
<1>2. \A j \in flight : left[j] \subseteq DOMAIN Rank
  BY <1>1 DEF GatesOf, LanesAssumption
<1>3. \A j \in flight : First(left[j]) \in left[j]
  BY <1>1, <1>2, FirstIn
<1>4. \A j \in flight : \A h \in Running(j) \ Batch : Key[h] = j /\ h = First(left[j])
  <2> SUFFICES ASSUME NEW j \in flight, NEW h \in Running(j) \ Batch
               PROVE  Key[h] = j /\ h = First(left[j])
    OBVIOUS
  <2>1. h \in GatesOf(j)
    BY <1>1, <1>3 DEF Running
  <2>2. Key[h] = j /\ Key[h] # BatchLane
    BY <2>1 DEF GatesOf, LaneOf, LanesAssumption
  <2> QED
    BY <2>2 DEF Running
<1>5. SUFFICES ASSUME NEW h \in InFlight \ {First(left[k])}, h \notin Batch,
                      First(left[k]) \notin Batch, Key[h] = Key[First(left[k])]
               PROVE  FALSE
  BY DEF Starved
<1>6. First(left[k]) \in Running(k)
  BY DEF Running
<1>7. Key[First(left[k])] = k
  BY <1>4, <1>5, <1>6
<1>8. PICK j \in flight : h \in Running(j)
  BY DEF InFlight
<1>9. j = k /\ h = First(left[j])
  BY <1>4, <1>5, <1>7, <1>8
<1> QED
  BY <1>5, <1>9

\* What is wrong stays wrong while a validation runs.
LEMMA CleanBefore ==
  ASSUME [LanesNext]_lanesVars, Clean'
  PROVE  Clean /\ UNCHANGED <<flaky, red, toolless, skipped, rewritten>>
<1>1. CASE UNCHANGED lanesVars
  BY <1>1 DEF lanesVars, Clean
<1>2. CASE LanesNext
  <2>1. UNCHANGED world
    BY <1>2 DEF LanesNext, RunCheck, ChecksDone, RequireTools, Take, GateEnds, BatchEnds,
                BatchNotRun, LanesEnd, AssertUnchanged, WriteTree
  <2>2. UNCHANGED rewritten \/ rewritten' = TRUE
    BY <1>2 DEF LanesNext, RunCheck, ChecksDone, RequireTools, Take, GateEnds, BatchEnds,
                BatchNotRun, LanesEnd, AssertUnchanged, WriteTree
  <2> QED
    BY <2>1, <2>2 DEF world, Clean
<1> QED
  BY <1>1, <1>2

LEMMA AcceptStep ==
  ASSUME LanesAssumption, LanesInv, AcceptInv, [LanesNext]_lanesVars
  PROVE  AcceptInv'
<1> SUFFICES ASSUME Clean' PROVE stage' # "abort" /\ failed' = {}
  BY DEF AcceptInv
<1>1. Clean /\ stage # "abort" /\ failed = {}
  BY CleanBefore DEF AcceptInv
<1>2. ASSUME NEW phase \in {"early", "checks"}, RunCheck(phase) PROVE stage' # "abort" /\ failed' = {}
  <2> DEFINE c == First(todo)
  <2>1. todo \subseteq DOMAIN Rank /\ todo # {} /\ todo \subseteq EarlyCheck \cup Check
    BY <1>2 DEF RunCheck, LanesInv, LanesTypeOK, LanesAssumption
  <2>2. c \in todo
    BY <2>1, FirstIn
  <2>3. ~Starved(c)
    BY <2>1, <2>2 DEF Starved, LanesAssumption
  <2>4. \A o \in Outcomes(c) : o = "ok" \/ Again(c, o)
    BY <1>1, <2>3, CleanRun
  <2> HIDE DEF c
  <2>5. \E o \in Outcomes(c) : stage' = stage \/ (o # "ok" /\ ~Again(c, o))
    BY <1>2 DEF RunCheck, c
  <2> QED
    BY <1>1, <1>2, <2>4, <2>5 DEF RunCheck, pool
<1>3. ASSUME NEW k \in Lane, GateEnds(k) PROVE stage' # "abort" /\ failed' = {}
  <2> DEFINE g == First(left[k])
  <2>1. k \in flight /\ k # BatchLane /\ stage' = stage
    BY <1>3 DEF GateEnds
  <2>2. ~Starved(g)
    BY <2>1, LanesKeepApart
  <2>3. \A o \in Outcomes(g) : o = "ok" \/ Again(g, o)
    BY <1>1, <2>2, CleanRun
  <2> HIDE DEF g
  <2>4. \E o \in Outcomes(g) : failed' = failed \/ (o # "ok" /\ ~Again(g, o))
    BY <1>3 DEF GateEnds, LaneEnds, g
  <2> QED
    BY <1>1, <2>1, <2>3, <2>4
<1>4. CASE BatchEnds
  <2>1. PICK bad \in SUBSET (Batch \ skipped) :
          /\ \A g \in bad : Outcomes(g) # {"ok"}
          /\ LaneEnds(BatchLane, BatchOk(PassedJobs(bad), bad))
    BY <1>4 DEF BatchEnds
  <2>2. \A g \in Batch : Outcomes(g) = {"ok"}
    <3> SUFFICES ASSUME NEW g \in Batch PROVE Outcomes(g) = {"ok"}
      OBVIOUS
    <3>1. ~Starved(g) /\ g \notin Retried
      BY DEF Starved, LanesAssumption, Command
    <3> QED
      BY <1>1, <3>1 DEF Clean, Outcomes
  <2>3. bad = {} /\ PassedJobs(bad) = Batch
    BY <1>1, <2>1, <2>2 DEF Clean, PassedJobs
  <2>4. GatesOf(BatchLane) = Batch
    BY DEF GatesOf, LaneOf, LanesAssumption
  <2>5. BatchOk(PassedJobs(bad), bad)
    BY <2>3, <2>4 DEF BatchOk
  <2> QED
    BY <1>1, <1>4, <2>1, <2>5 DEF LaneEnds, BatchEnds
<1>5. CASE \/ ChecksDone("early", "tools") \/ RequireTools \/ LanesEnd
           \/ ChecksDone("checks", "tree") \/ AssertUnchanged \/ WriteTree
           \/ (\E k \in Lane : Take(k)) \/ BatchNotRun \/ UNCHANGED lanesVars
  BY <1>1, <1>5 DEF ChecksDone, RequireTools, LanesEnd, AssertUnchanged, WriteTree, Take,
                    BatchNotRun, Clean, pool, lanesVars
<1> QED
  BY <1>2, <1>3, <1>4, <1>5 DEF LanesNext

\* A commit on which nothing is red, with its programs and jobs in place, is never refused:
\* not because commands starve each other, which lanes keep apart, nor for a failure
\* that retryOnOutput knows, however many lanes and workers there are.
THEOREM GreenIsNeverRefused == LanesSpec => []GreenIsAccepted
<1>1. LanesInit => AcceptInv
  BY DEF LanesInit, AcceptInv
<1>2. LanesInv /\ AcceptInv /\ [LanesNext]_lanesVars => AcceptInv'
  BY LanesAssumption, AcceptStep
<1>3. AcceptInv => GreenIsAccepted
  BY DEF AcceptInv, Clean, GreenIsAccepted
<1> QED
  BY <1>1, <1>2, <1>3, LanesInvariant, PTL DEF LanesSpec
=============================================================================
