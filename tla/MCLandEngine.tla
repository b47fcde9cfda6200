----------------------------- MODULE MCLandEngine -----------------------------
(***************************************************************************)
(* TLC instances of LandEngine, in the shape of the repository's           *)
(* land.config.json: scopes ts and rust and a file of the full set.        *)
(***************************************************************************)
EXTENDS LandEngine, TLC

CONSTANTS l1, l2, d1, d2, e, e2

MCFile == {"app.ts", "lock.yaml", "lib.rs", "justfile"}
MCScope == {"ts", "rust"}
MCScopesOf == [f \in MCFile |-> CASE f \in {"app.ts", "lock.yaml"} -> {"ts"}
                                  [] f = "lib.rs"                  -> {"rust"}
                                  [] OTHER                         -> {}]
MCFullFiles == {"justfile"}
MCGate == {"test", "cov-rust", "release"}
MCLefthookGates == {"test", "cov-rust"}
MCWhen == [g \in MCGate |-> CASE g = "test"     -> {"ts"}
                              [] g = "cov-rust" -> {"rust"}
                              [] OTHER          -> Always]

MCChange == {d1, d2, e}
MCChange2 == MCChange \cup {e2}
MCRef1 == l1 :> {d1}
MCMode1 == l1 :> "auto"
MCRef == (l1 :> {d1}) @@ (l2 :> {d2})
MCMode == (l1 :> "auto") @@ (l2 :> "merge")
MCFilesOf == (d1 :> {"lib.rs"}) @@ (d2 :> {"lock.yaml", "justfile"}) @@ (e :> {"app.ts"})
MCFilesOf2 == MCFilesOf @@ (e2 :> {"lib.rs"})
\* e and d2 are fine alone and break the tests together, d1 and d2 break the
\* coverage together: each landing is sound only on the base it was gated on.
MCDefect == {[gate |-> "test", changes |-> {d2, e}],
             [gate |-> "cov-rust", changes |-> {d1, d2}]}

\* A dry run that skips the bootstrap (l1) beside a landing (l2) and another machine
\* (e) that move the lock file; each of d1 and d2 breaks the tests with e, d2 the coverage
\* with e2.  With packages installed before e the tests of l1 pass.
MCSkipFilesOf == (d1 :> {"app.ts"}) @@ (e :> {"lock.yaml"}) @@ MCFilesOf2
MCSkipDefect == {[gate |-> "test", changes |-> {d1, e}],
                 [gate |-> "test", changes |-> {d2, e}],
                 [gate |-> "cov-rust", changes |-> {d2, e2}]}

\* The repository's sensors-gate: it runs installed packages (npx) and applies
\* to rust and ts, while bootstrap applies to ts.  e moves the lock file.
MCSensorsGate == {"sensors-gate"}
MCSensorsWhen == [g \in MCSensorsGate |-> {"ts", "rust"}]
MCLockFilesOf == (d1 :> {"lib.rs"}) @@ (e :> {"lock.yaml"})
MCLockDefect == {[gate |-> "sensors-gate", changes |-> {d1, e}]}
=============================================================================
