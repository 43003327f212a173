------------------------------ MODULE CloudProofs ------------------------------
(***************************************************************************)
(* Theorems about CloudSync, for any number of remotes, files, edits and   *)
(* runs.  Two invariants carry them.  Kept says that what a bisync takes   *)
(* away some user has removed, whatever the other units do to the local    *)
(* tree; so what was there when an operation began reaches every remote it *)
(* lists.  Quiet says what holds as long as no edit disturbs: a unit that  *)
(* ends well leaves its remote equal to its baseline, so the next run      *)
(* without a resync brings nothing in, the local tree stands still, and    *)
(* every remote becomes equal to it.                                       *)
(***************************************************************************)
EXTENDS CloudSync, TLAPS

LanesFollowStage ==
  /\ stage # "fanned" => \A r \in Remotes : lane[r] = "idle"
  /\ stage \in {"downloading", "choosing", "restoring"} => op = "restore"

Kept ==
  /\ began \ removed \subseteq tree[Local]
  /\ \A r \in Remotes :
       /\ baseline[r] \ removed \subseteq tree[r]
       /\ baseline[r] \ removed \subseteq tree[Local]
       /\ lane[r] = "moving" => /\ Base(r) \ removed \subseteq seen[r].local
                                /\ Base(r) \ removed \subseteq seen[r].remote
                                /\ began \ removed \subseteq seen[r].local
       /\ lane[r] = "ok" => began \ removed \subseteq tree[r]

DumpsAreUp ==
  /\ stage = "fanned" /\ op = "sync" =>
       /\ chosen.stamp = runs
       /\ \A r \in Remotes : lane[r] \in {"syncing", "moving", "ok"} => chosen \in dumps[r]
  /\ verdict.op = "sync" =>
       \A r \in verdict.listed : \E d \in dumps[r] : d.stamp = verdict.stamp

Quiet ==
  /\ stage = "idle" => calm >= 0
  /\ \A r \in Remotes :
       /\ calm >= 0 /\ lane[r] = "moving" => seen[r].remote = tree[r]
       /\ \/ calm >= 0 /\ lane[r] = "ok"
          \/ calm >= 1 /\ lane[r] # "failed"
          => baseline[r] = tree[r]
       /\ calm >= 1 /\ ~resync /\ lane[r] = "moving" => seen[r].local = tree[Local]
       /\ calm >= 1 /\ ~resync /\ lane[r] = "ok" => tree[r] = tree[Local]

CloudInv ==
  /\ TypeOK /\ LanesFollowStage /\ Kept /\ DumpsAreUp /\ Quiet
  /\ ListedIsBackedUp /\ TwoGoodRunsConverge /\ ResyncsFollowReplay

-------------------------------------------------------------------------------
(* What a move does, and the initial states. *)

LEMMA MoveEffect ==
  ASSUME TypeOK, NEW r \in Remotes, NEW X \in SUBSET Files, Move(r, X)
  PROVE  /\ tree' \in [Sites -> SUBSET Files]
         /\ tree'[Local] = (tree[Local] \cup (ToLocal(r) \cap X)) \ (OffLocal(r) \cap X)
         /\ tree'[r] = (tree[r] \cup (ToRemote(r) \cap X)) \ (OffRemote(r) \cap X)
         /\ \A q \in Remotes \ {r} : tree'[q] = tree[q]
<1>1. Local \notin Remotes /\ Local \in Sites /\ Remotes \subseteq Sites
  BY CloudAssumption DEF Sites
<1>2. tree \in [Sites -> SUBSET Files]
  BY DEF TypeOK
<1> HIDE DEF Sites
<1>3. /\ tree'[Local] = (tree[Local] \cup (ToLocal(r) \cap X)) \ (OffLocal(r) \cap X)
      /\ tree'[r] = (tree[r] \cup (ToRemote(r) \cap X)) \ (OffRemote(r) \cap X)
      /\ \A q \in Remotes \ {r} : tree'[q] = tree[q]
  BY <1>1, <1>2 DEF Move
<1>4. /\ (tree[Local] \cup (ToLocal(r) \cap X)) \ (OffLocal(r) \cap X) \in SUBSET Files
      /\ (tree[r] \cup (ToRemote(r) \cap X)) \ (OffRemote(r) \cap X) \in SUBSET Files
  BY <1>1, <1>2
<1>5. tree' \in [Sites -> SUBSET Files]
  BY <1>1, <1>2, <1>4 DEF Move
<1> QED
  BY <1>3, <1>5

LEMMA CloudInvInitially == ASSUME Init PROVE CloudInv
<1>1. TypeOK
  <2>1. /\ tree \in [Sites -> SUBSET Files] /\ primed \subseteq Remotes
        /\ baseline \in [Remotes -> SUBSET Files]
    BY DEF Init
  <2>2. verdict \in Verdict /\ op \in Ops /\ stage \in Stages /\ ledger \in Ledger
    BY DEF Init, Verdict, Ops, Stages, Ledger
  <2>3. chosen \in Dump /\ staged \subseteq Dump /\ dumps \in [Remotes -> SUBSET Dump]
    BY DEF Init, Dump, NoDump, Ledger
  <2>4. /\ lane \in [Remotes -> Lanes]
        /\ seen \in [Remotes -> [local : SUBSET Files, remote : SUBSET Files]]
    BY DEF Init, Lanes, Nothing
  <2>5. edits \in 0..MaxEdits /\ runs \in 0..MaxRuns /\ calm \in -1..2
    BY CloudAssumption DEF Init
  <2> QED
    BY <2>1, <2>2, <2>3, <2>4, <2>5 DEF Init, TypeOK
<1>2. LanesFollowStage /\ Kept /\ DumpsAreUp /\ Quiet
  BY CloudAssumption DEF Init, LanesFollowStage, Kept, DumpsAreUp, Quiet, Sites
<1>3. ListedIsBackedUp /\ TwoGoodRunsConverge /\ ResyncsFollowReplay
  BY DEF Init, ListedIsBackedUp, TwoGoodRunsConverge, ResyncsFollowReplay
<1> QED
  BY <1>1, <1>2, <1>3 DEF CloudInv

-------------------------------------------------------------------------------
(* Types. *)

LEMMA FinishTypes ==
  ASSUME TypeOK, NEW status \in {"ok", "failed", "faulted"}, NEW listed \in SUBSET Remotes,
         Finish(status, listed)
  PROVE  /\ op' \in Ops /\ resync' \in BOOLEAN /\ stage' \in Stages /\ late' \in BOOLEAN
         /\ staged' \subseteq Dump /\ chosen' \in Dump /\ (stage' = "idle" => staged' = {})
         /\ lane' \in [Remotes -> Lanes]
         /\ seen' \in [Remotes -> [local : SUBSET Files, remote : SUBSET Files]]
         /\ began' \subseteq Files /\ verdict' \in Verdict
         /\ edits' \in 0..MaxEdits /\ runs' \in 0..MaxRuns /\ calm' \in -1..2
<1>1. verdict' \in Verdict
  BY CloudAssumption DEF Finish, Verdict, TypeOK
<1>2. calm' \in -1..2
  BY DEF Finish, Settled, TypeOK
<1> QED
  BY <1>1, <1>2 DEF Finish, TypeOK, StagedAfter, NoDump, Nothing, Dump, Ledger, Stages, Lanes

LEMMA TypesStep ==
  ASSUME TypeOK, [Next]_vars
  PROVE  TypeOK'
<1> USE DEF TypeOK
<1>1. ASSUME NEW s \in Sites, NEW f \in Files, Add(s, f) \/ Remove(s, f) PROVE TypeOK'
  BY <1>1, CloudAssumption DEF Add, Remove, Editing, Disturb, run
<1>2. ASSUME NEW o \in Ops, NEW force \in BOOLEAN, Start(o, force) PROVE TypeOK'
  BY <1>2, CloudAssumption DEF Start, world, Stages, Sites
<1>3. CASE PgDump
  <2>1. chosen' \in Dump
    BY <1>3, CloudAssumption DEF PgDump, Dump
  <2> QED
    BY <1>3, <2>1 DEF PgDump, FanOut, Entry, world, Stages, Lanes
<1>4. CASE Download
  BY <1>4, CloudAssumption DEF Download, world, Stages
<1>5. CASE FirstDump
  BY <1>5 DEF FirstDump, world, Stages
<1>6. CASE PgRestore
  BY <1>6 DEF PgRestore, FanOut, Entry, Stages, Lanes, Dump
<1>7. CASE StepFails
  <2>1. Finish("faulted", {})
    BY <1>7 DEF StepFails, FailStep
  <2> QED
    BY <1>7, <2>1, FinishTypes DEF StepFails, Ledger
<1>8. ASSUME NEW r \in Remotes, Copy(r) \/ CopyFails(r) PROVE TypeOK'
  BY <1>8 DEF Copy, CopyFails, Unit, AfterCopyFault, Lanes
<1>9. ASSUME NEW r \in Remotes, List(r) \/ Respawn(r) PROVE TypeOK'
  <2>1. tree[Local] \in SUBSET Files /\ tree[r] \in SUBSET Files
    BY DEF Sites
  <2> QED
    BY <1>9, <2>1 DEF List, Respawn, Unit, world, Lanes
<1>10. ASSUME NEW r \in Remotes, Bisync(r) PROVE TypeOK'
  <2>1. tree' \in [Sites -> SUBSET Files]
    BY <1>10, MoveEffect DEF Bisync
  <2>2. Base(r) \subseteq Files /\ ToLocal(r) \subseteq Files /\ ToRemote(r) \subseteq Files
    BY DEF Base, ToLocal, ToRemote
  <2>3. baseline' \in [Remotes -> SUBSET Files]
    BY <1>10, <2>2 DEF Bisync
  <2> QED
    BY <1>10, <2>1, <2>3 DEF Bisync, Unit, Lanes
<1>11. ASSUME NEW r \in Remotes, BisyncFails(r) PROVE TypeOK'
  <2>1. tree' \in [Sites -> SUBSET Files]
    BY <1>11, MoveEffect DEF BisyncFails
  <2> QED
    BY <1>11, <2>1 DEF BisyncFails, Unit, Lanes
<1>12. CASE Complete \/ CutShort
  <2>1. \E status \in {"ok", "failed", "faulted"}, listed \in SUBSET Remotes :
          Finish(status, listed)
    BY <1>12 DEF Complete, CutShort, StatusOf, Listed
  <2> QED
    BY <1>12, <2>1, FinishTypes DEF Complete, CutShort, world
<1>13. CASE Deadline
  BY <1>13 DEF Deadline, world
<1>14. CASE UNCHANGED vars
  BY <1>14 DEF vars, world, run
<1> QED
  BY <1>1, <1>2, <1>3, <1>4, <1>5, <1>6, <1>7, <1>8, <1>9, <1>10, <1>11, <1>12, <1>13, <1>14
     DEF Next

-------------------------------------------------------------------------------
(* Lanes and stages. *)

LEMMA StageStep ==
  ASSUME TypeOK, LanesFollowStage, [Next]_vars
  PROVE  LanesFollowStage'
<1> USE DEF LanesFollowStage
<1>1. ASSUME NEW s \in Sites, NEW f \in Files, Add(s, f) \/ Remove(s, f) PROVE LanesFollowStage'
  BY <1>1 DEF Add, Remove, run
<1>2. ASSUME NEW o \in Ops, NEW force \in BOOLEAN, Start(o, force) PROVE LanesFollowStage'
  BY <1>2 DEF Start, Ops
<1>3. CASE PgDump \/ PgRestore
  BY <1>3 DEF PgDump, PgRestore, FanOut
<1>4. CASE Download \/ FirstDump
  BY <1>4 DEF Download, FirstDump
<1>5. CASE StepFails \/ Complete \/ CutShort
  BY <1>5 DEF StepFails, FailStep, Complete, CutShort, Finish
<1>6. ASSUME NEW r \in Remotes, Copy(r) \/ CopyFails(r) \/ Respawn(r) \/ List(r) PROVE LanesFollowStage'
  <2>1. lane[r] # "idle" /\ stage' = stage
    BY <1>6 DEF Copy, CopyFails, Respawn, List
  <2> QED
    BY <2>1
<1>7. ASSUME NEW r \in Remotes, Bisync(r) \/ BisyncFails(r) PROVE LanesFollowStage'
  <2>1. lane[r] # "idle" /\ stage' = stage
    BY <1>7 DEF Bisync, BisyncFails
  <2> QED
    BY <2>1
<1>8. CASE Deadline \/ UNCHANGED vars
  BY <1>8 DEF Deadline, vars, run
<1> QED
  BY <1>1, <1>2, <1>3, <1>4, <1>5, <1>6, <1>7, <1>8 DEF Next

-------------------------------------------------------------------------------
(* Nothing is taken away that nobody has removed. *)

(* A move takes away only what some user has removed. *)
LEMMA MoveKeeps ==
  ASSUME TypeOK, Kept, NEW r \in Remotes, lane[r] = "moving",
         NEW X \in SUBSET Files, Move(r, X)
  PROVE  /\ OffLocal(r) \subseteq removed /\ OffRemote(r) \subseteq removed
         /\ \A s \in Sites : tree[s] \ removed \subseteq tree'[s]
<1>1. OffLocal(r) \subseteq removed /\ OffRemote(r) \subseteq removed
  BY DEF Kept, OffLocal, OffRemote
<1>2. \A s \in Sites : s = Local \/ s = r \/ s \in Remotes \ {r}
  BY DEF Sites
<1> QED
  BY <1>1, <1>2, MoveEffect

(* As long as nothing is taken away but what was removed, Kept holds of the *)
(* trees, and of the lanes that do not advance.                             *)
LEMMA KeptByTrees ==
  ASSUME Kept, UNCHANGED <<began, resync, removed, baseline>>,
         \A s \in Sites : tree[s] \ removed \subseteq tree'[s]
  PROVE  /\ began' \ removed' \subseteq tree'[Local]
         /\ \A r \in Remotes :
              /\ baseline'[r] \ removed' \subseteq tree'[r]
              /\ baseline'[r] \ removed' \subseteq tree'[Local]
              /\ lane[r] = "moving" /\ seen'[r] = seen[r] =>
                   /\ Base(r)' \ removed' \subseteq seen'[r].local
                   /\ Base(r)' \ removed' \subseteq seen'[r].remote
                   /\ began' \ removed' \subseteq seen'[r].local
              /\ lane[r] = "ok" => began' \ removed' \subseteq tree'[r]
BY DEF Kept, Base, Sites

LEMMA KeptStep ==
  ASSUME TypeOK, LanesFollowStage, Kept, [Next]_vars
  PROVE  Kept'
<1>1. ASSUME NEW s \in Sites, NEW f \in Files, Add(s, f) PROVE Kept'
  <2>1. \A x \in Sites : tree[x] \subseteq tree'[x]
    BY <1>1 DEF Add, TypeOK
  <2>2. UNCHANGED <<began, resync, removed, baseline, lane, seen>>
    BY <1>1 DEF Add, run
  <2> QED
    BY <2>1, <2>2, KeptByTrees DEF Kept
<1>2. ASSUME NEW s \in Sites, NEW f \in Files, Remove(s, f) PROVE Kept'
  <2>1. /\ removed' = removed \cup {f}
        /\ \A x \in Sites : tree[x] \ {f} \subseteq tree'[x]
    BY <1>2 DEF Remove, TypeOK
  <2>2. UNCHANGED <<began, resync, baseline, lane, seen>>
    BY <1>2 DEF Remove, run
  <2>3. \A r \in Remotes : Base(r)' = Base(r)
    BY <2>2 DEF Base
  <2> QED
    BY <2>1, <2>2, <2>3 DEF Kept, Sites
<1>3. ASSUME NEW o \in Ops, NEW force \in BOOLEAN, Start(o, force) PROVE Kept'
  <2>1. \A r \in Remotes : lane'[r] = "idle"
    BY <1>3 DEF Start, LanesFollowStage
  <2> QED
    BY <1>3, <2>1 DEF Start, world, Kept
<1>4. ASSUME UNCHANGED <<tree, removed, baseline, began>>,
             \A r \in Remotes : lane'[r] \notin {"moving", "ok"}
      PROVE  Kept'
  BY <1>4 DEF Kept
<1>5. CASE PgDump \/ PgRestore
  <2>1. \A r \in Remotes : lane'[r] \notin {"moving", "ok"}
    BY <1>5 DEF PgDump, PgRestore, FanOut, Entry
  <2> QED
    BY <1>4, <1>5, <2>1 DEF PgDump, PgRestore, world
<1>6. CASE Download \/ FirstDump
  <2>1. UNCHANGED <<tree, removed, baseline, began, resync, lane, seen>>
    BY <1>6 DEF Download, FirstDump, world
  <2> QED
    BY <2>1 DEF Kept, Base
<1>7. CASE StepFails \/ Complete \/ CutShort
  <2>1. \A r \in Remotes : lane'[r] \notin {"moving", "ok"}
    BY <1>7 DEF StepFails, FailStep, Complete, CutShort, Finish
  <2> QED
    BY <1>4, <1>7, <2>1 DEF StepFails, FailStep, Complete, CutShort, Finish, world
<1>8. ASSUME NEW r \in Remotes, Copy(r) \/ CopyFails(r) \/ Respawn(r) PROVE Kept'
  <2>1. /\ UNCHANGED <<tree, removed, baseline, began, resync, seen>>
        /\ \A q \in Remotes : lane'[q] \in {"moving", "ok"} => lane'[q] = lane[q]
    BY <1>8 DEF Copy, CopyFails, Respawn, Unit, AfterCopyFault, world, TypeOK
  <2> QED
    BY <2>1 DEF Kept, Base
<1>9. ASSUME NEW r \in Remotes, List(r) PROVE Kept'
  <2>1. /\ UNCHANGED <<tree, removed, baseline, began, resync>>
        /\ lane'[r] = "moving"
        /\ seen'[r].local = tree[Local] /\ seen'[r].remote = tree[r]
        /\ \A q \in Remotes \ {r} : lane'[q] = lane[q] /\ seen'[q] = seen[q]
    BY <1>9 DEF List, Unit, world, TypeOK
  <2>2. Base(r) \ removed \subseteq baseline[r] \ removed
    BY DEF Base
  <2> QED
    BY <2>1, <2>2 DEF Kept, Base
<1>10. ASSUME NEW r \in Remotes, Bisync(r) PROVE Kept'
  <2>1. /\ lane[r] = "moving" /\ lane'[r] = "ok" /\ Move(r, Files)
        /\ UNCHANGED <<removed, began, resync, seen>>
        /\ \A q \in Remotes \ {r} : lane'[q] = lane[q] /\ baseline'[q] = baseline[q]
        /\ baseline'[r] = (Base(r) \ (OffLocal(r) \cup OffRemote(r)))
                            \cup ToLocal(r) \cup ToRemote(r)
    BY <1>10 DEF Bisync, Unit, TypeOK
  <2>2. /\ \A s \in Sites : tree[s] \ removed \subseteq tree'[s]
        /\ OffLocal(r) \subseteq removed /\ OffRemote(r) \subseteq removed
    BY <2>1, MoveKeeps
  <2>3. /\ ToLocal(r) \subseteq tree[r] /\ ToRemote(r) \subseteq tree[Local]
        /\ ToLocal(r) \subseteq Files /\ ToRemote(r) \subseteq Files
        /\ Base(r) \ removed \subseteq tree[r] /\ Base(r) \ removed \subseteq tree[Local]
    BY DEF ToLocal, ToRemote, TypeOK, Kept, Base, Sites
  <2>4. /\ ToLocal(r) \ removed \subseteq tree'[Local]
        /\ ToRemote(r) \ removed \subseteq tree'[r]
        /\ Local \in Sites /\ r \in Sites
    BY <2>1, <2>2, <2>3, MoveEffect DEF Sites
  <2>5. /\ baseline'[r] \ removed \subseteq tree'[r]
        /\ baseline'[r] \ removed \subseteq tree'[Local]
    BY <2>1, <2>2, <2>3, <2>4
  <2>6. began \ removed \subseteq tree'[r]
    <3> SUFFICES ASSUME NEW f \in began, f \notin removed PROVE f \in tree'[r]
      OBVIOUS
    <3>1. f \in seen[r].local /\ f \in tree[Local]
      BY <2>1 DEF Kept
    <3>2. CASE f \in Base(r)
      BY <2>2, <2>3, <2>4, <3>2
    <3>3. CASE f \notin Base(r)
      BY <2>4, <3>1, <3>3 DEF ToRemote
    <3> QED
      BY <3>2, <3>3
  <2>7. \A q \in Remotes \ {r} :
          /\ baseline'[q] \ removed \subseteq tree'[q]
          /\ baseline'[q] \ removed \subseteq tree'[Local]
          /\ lane'[q] = "ok" => began \ removed \subseteq tree'[q]
          /\ lane'[q] = "moving" => /\ Base(q)' \ removed \subseteq seen[q].local
                                    /\ Base(q)' \ removed \subseteq seen[q].remote
                                    /\ began \ removed \subseteq seen[q].local
    BY <2>1, <2>2 DEF Kept, Base, Sites
  <2>8. began \ removed \subseteq tree'[Local]
    BY <2>2, <2>4 DEF Kept
  <2> QED
    BY <2>1, <2>5, <2>6, <2>7, <2>8 DEF Kept
<1>11. ASSUME NEW r \in Remotes, BisyncFails(r) PROVE Kept'
  <2>1. /\ lane'[r] = "failed" /\ UNCHANGED <<removed, baseline, began, resync, seen>>
        /\ \A q \in Remotes \ {r} : lane'[q] = lane[q]
    BY <1>11 DEF BisyncFails, Unit, TypeOK
  <2>2. \A s \in Sites : tree[s] \ removed \subseteq tree'[s]
    BY <1>11, MoveKeeps DEF BisyncFails
  <2> QED
    BY <2>1, <2>2, KeptByTrees DEF Kept
<1>12. CASE Deadline \/ UNCHANGED vars
  <2>1. UNCHANGED <<tree, removed, baseline, began, resync, lane, seen>>
    BY <1>12 DEF Deadline, world, vars, run
  <2> QED
    BY <2>1 DEF Kept, Base
<1> QED
  BY <1>1, <1>2, <1>3, <1>5, <1>6, <1>7, <1>8, <1>9, <1>10, <1>11, <1>12 DEF Next

-------------------------------------------------------------------------------
(* Dumps, and what the envelope lists. *)

LEMMA DumpsStep ==
  ASSUME TypeOK, LanesFollowStage, DumpsAreUp, [Next]_vars
  PROVE  DumpsAreUp'
<1> USE DEF DumpsAreUp
<1>1. ASSUME UNCHANGED <<stage, op, chosen, runs, verdict>>,
             \A r \in Remotes : dumps[r] \subseteq dumps'[r],
             \A r \in Remotes : lane'[r] \in {"syncing", "moving", "ok"} =>
               lane[r] \in {"syncing", "moving", "ok"} \/ chosen \in dumps'[r]
      PROVE  DumpsAreUp'
  <2>1. verdict.listed \subseteq Remotes
    BY DEF TypeOK, Verdict
  <2>2. verdict'.op = "sync" =>
          \A r \in verdict'.listed : \E d \in dumps'[r] : d.stamp = verdict'.stamp
    BY <1>1, <2>1
  <2>3. stage' = "fanned" /\ op' = "sync" =>
          /\ chosen'.stamp = runs'
          /\ \A r \in Remotes : lane'[r] \in {"syncing", "moving", "ok"} => chosen' \in dumps'[r]
    BY <1>1
  <2> QED
    BY <2>2, <2>3
<1>2. ASSUME NEW s \in Sites, NEW f \in Files, Add(s, f) \/ Remove(s, f) PROVE DumpsAreUp'
  BY <1>1, <1>2 DEF Add, Remove, run
<1>3. ASSUME stage' # "fanned", UNCHANGED <<dumps, verdict>> PROVE DumpsAreUp'
  BY <1>3
<1>4. ASSUME NEW o \in Ops, NEW force \in BOOLEAN, Start(o, force) PROVE DumpsAreUp'
  BY <1>3, <1>4 DEF Start, world
<1>5. CASE Download \/ FirstDump
  BY <1>3, <1>5 DEF Download, FirstDump, world
<1>6. CASE PgDump
  <2>1. op' = "sync" => \A r \in Remotes : lane'[r] \notin {"syncing", "moving", "ok"}
    BY <1>6 DEF PgDump, FanOut, Entry
  <2> QED
    BY <1>6, <2>1 DEF PgDump, world
<1>7. CASE PgRestore
  <2>1. op = "sync" => FALSE
    BY <1>7 DEF PgRestore, LanesFollowStage
  <2> QED
    BY <1>7, <2>1 DEF PgRestore, world
<1>8. CASE StepFails \/ CutShort
  BY <1>8 DEF StepFails, FailStep, CutShort, Finish, world
<1>9. CASE Complete
  <2>1. /\ verdict'.op = op /\ verdict'.stamp = runs /\ verdict'.listed = Listed
        /\ stage = "fanned" /\ stage' = "idle" /\ dumps' = dumps
    BY <1>9 DEF Complete, Finish, world
  <2> QED
    BY <2>1 DEF Listed
<1>10. ASSUME NEW r \in Remotes, Copy(r) PROVE DumpsAreUp'
  <2>1. /\ dumps'[r] = dumps[r] \cup {chosen}
        /\ \A q \in Remotes \ {r} : dumps'[q] = dumps[q] /\ lane'[q] = lane[q]
    BY <1>10 DEF Copy, Unit, TypeOK
  <2> QED
    BY <1>1, <1>10, <2>1 DEF Copy
<1>11. ASSUME NEW r \in Remotes, CopyFails(r) PROVE DumpsAreUp'
  <2>1. /\ \A q \in Remotes : dumps[q] \subseteq dumps'[q]
        /\ lane'[r] = "failed" /\ \A q \in Remotes \ {r} : lane'[q] = lane[q]
    BY <1>11 DEF CopyFails, AfterCopyFault, Unit, TypeOK
  <2> QED
    BY <1>1, <1>11, <2>1 DEF CopyFails
<1>12. ASSUME NEW r \in Remotes, List(r) \/ Respawn(r) PROVE DumpsAreUp'
  <2>1. /\ lane[r] = "syncing" /\ \A q \in Remotes \ {r} : lane'[q] = lane[q]
    BY <1>12 DEF List, Respawn, Unit, TypeOK
  <2> QED
    BY <1>1, <1>12, <2>1 DEF List, Respawn, world
<1>13. ASSUME NEW r \in Remotes, Bisync(r) \/ BisyncFails(r) PROVE DumpsAreUp'
  <2>1. /\ lane[r] \in {"syncing", "moving"} /\ \A q \in Remotes \ {r} : lane'[q] = lane[q]
    BY <1>13 DEF Bisync, BisyncFails, Unit, TypeOK
  <2> QED
    BY <1>1, <1>13, <2>1 DEF Bisync, BisyncFails
<1>14. CASE Deadline \/ UNCHANGED vars
  BY <1>1, <1>14 DEF Deadline, vars, world, run
<1> QED
  BY <1>2, <1>4, <1>5, <1>6, <1>7, <1>8, <1>9, <1>10, <1>11, <1>12, <1>13, <1>14 DEF Next

LEMMA ListedStep ==
  ASSUME TypeOK, LanesFollowStage, Kept, DumpsAreUp', ListedIsBackedUp, [Next]_vars
  PROVE  ListedIsBackedUp'
<1>1. ASSUME \A r \in verdict'.listed : stage' = "idle" => began' \ removed' \subseteq tree'[r]
      PROVE  ListedIsBackedUp'
  BY <1>1 DEF ListedIsBackedUp, DumpsAreUp
<1>2. \A r \in verdict.listed : r \in Remotes /\ r \in Sites
  BY DEF TypeOK, Verdict, Sites
<1>3. ASSUME NEW s \in Sites, NEW f \in Files, Add(s, f) \/ Remove(s, f)
      PROVE  ListedIsBackedUp'
  <2>1. /\ UNCHANGED <<verdict, stage, began>>
        /\ \A x \in Sites : tree[x] \ removed' \subseteq tree'[x]
        /\ removed \subseteq removed'
    BY <1>3 DEF Add, Remove, run, TypeOK
  <2> QED
    BY <1>1, <1>2, <2>1 DEF ListedIsBackedUp
<1>4. ASSUME stage' # "idle" PROVE ListedIsBackedUp'
  BY <1>1, <1>4
<1>5. ASSUME NEW o \in Ops, NEW force \in BOOLEAN, Start(o, force) PROVE ListedIsBackedUp'
  BY <1>4, <1>5 DEF Start
<1>6. CASE PgDump \/ Download \/ FirstDump \/ PgRestore
  BY <1>4, <1>6 DEF PgDump, Download, FirstDump, PgRestore, FanOut
<1>7. CASE StepFails \/ CutShort
  BY <1>1, <1>7 DEF StepFails, FailStep, CutShort, Finish
<1>8. CASE Complete
  <2>1. verdict'.listed = Listed /\ UNCHANGED <<began, removed, tree>>
    BY <1>8 DEF Complete, Finish, world
  <2> QED
    BY <1>1, <2>1 DEF Listed, Kept
<1>9. ASSUME NEW r \in Remotes,
             Copy(r) \/ CopyFails(r) \/ Respawn(r) \/ List(r) \/ Bisync(r) \/ BisyncFails(r)
      PROVE  ListedIsBackedUp'
  <2>1. lane[r] # "idle" /\ stage' = stage
    BY <1>9 DEF Copy, CopyFails, Respawn, List, Bisync, BisyncFails
  <2> QED
    BY <1>4, <1>9, <2>1 DEF LanesFollowStage
<1>10. CASE Deadline \/ UNCHANGED vars
  BY <1>1, <1>10 DEF Deadline, vars, world, run, ListedIsBackedUp
<1> QED
  BY <1>3, <1>5, <1>6, <1>7, <1>8, <1>9, <1>10 DEF Next

-------------------------------------------------------------------------------
(* A restore's resync follows its replay. *)

LEMMA ReplayStep ==
  ASSUME TypeOK, LanesFollowStage, ResyncsFollowReplay, [Next]_vars
  PROVE  ResyncsFollowReplay'
<1> USE DEF ResyncsFollowReplay
<1>1. ASSUME UNCHANGED <<ledger, op, stage, chosen>> PROVE ResyncsFollowReplay'
  BY <1>1
<1>2. ASSUME NEW s \in Sites, NEW f \in Files, Add(s, f) \/ Remove(s, f)
      PROVE  ResyncsFollowReplay'
  BY <1>1, <1>2 DEF Add, Remove, run
<1>3. ASSUME NEW o \in Ops, NEW force \in BOOLEAN, Start(o, force) PROVE ResyncsFollowReplay'
  BY <1>3 DEF Start
<1>4. CASE PgRestore \/ Download \/ FirstDump
  BY <1>4 DEF PgRestore, Download, FirstDump, FanOut
<1>5. CASE PgDump
  BY <1>5 DEF PgDump, world
<1>6. CASE StepFails \/ Complete \/ CutShort
  BY <1>6 DEF StepFails, FailStep, Complete, CutShort, Finish
<1>7. ASSUME NEW r \in Remotes,
             Copy(r) \/ CopyFails(r) \/ Respawn(r) \/ List(r) \/ Bisync(r) \/ BisyncFails(r)
      PROVE  ResyncsFollowReplay'
  BY <1>1, <1>7 DEF Copy, CopyFails, Respawn, List, Bisync, BisyncFails, world
<1>8. CASE Deadline \/ UNCHANGED vars
  BY <1>1, <1>8 DEF Deadline, vars, world, run
<1> QED
  BY <1>2, <1>3, <1>4, <1>5, <1>6, <1>7, <1>8 DEF Next

-------------------------------------------------------------------------------
(* Runs that no edit disturbs. *)

(* What the units of an undisturbed run know of the trees. *)
LEMMA QuietStep ==
  ASSUME TypeOK, LanesFollowStage, Quiet, [Next]_vars
  PROVE  Quiet'
<1>1. ASSUME NEW s \in Sites, NEW f \in Files, Add(s, f) \/ Remove(s, f) PROVE Quiet'
  <2>1. UNCHANGED <<stage, lane, baseline, seen, resync>>
        /\ calm' = IF stage = "idle" THEN 0 ELSE -1
    BY <1>1 DEF Add, Remove, Disturb, run
  <2> QED
    BY <2>1 DEF Quiet, LanesFollowStage
<1>2. ASSUME NEW o \in Ops, NEW force \in BOOLEAN, Start(o, force) PROVE Quiet'
  <2>1. /\ UNCHANGED <<tree, baseline, seen, lane, calm>> /\ stage' # "idle"
        /\ \A r \in Remotes : lane[r] = "idle"
    BY <1>2 DEF Start, world, LanesFollowStage
  <2> QED
    BY <2>1 DEF Quiet
<1>3. CASE PgDump \/ Download \/ FirstDump \/ PgRestore
  <2>1. /\ UNCHANGED <<tree, baseline, seen, resync, calm>> /\ stage' # "idle"
        /\ \A r \in Remotes : lane[r] = "idle"
        /\ \A r \in Remotes : lane'[r] \in {"idle", "copying", "syncing"}
    BY <1>3 DEF PgDump, Download, FirstDump, PgRestore, FanOut, Entry, world, LanesFollowStage
  <2> QED
    BY <2>1 DEF Quiet
<1>4. CASE StepFails \/ CutShort
  <2>1. calm' = 0 /\ \A r \in Remotes : lane'[r] = "idle"
    BY <1>4 DEF StepFails, FailStep, CutShort, Finish, Settled
  <2> QED
    BY <2>1 DEF Quiet
<1>5. CASE Complete
  <2>1. /\ calm' = Settled(StatusOf) /\ UNCHANGED <<tree, baseline>>
        /\ \A r \in Remotes : lane'[r] = "idle"
    BY <1>5 DEF Complete, Finish, world
  <2>2. calm' >= 0 /\ (calm' >= 1 => calm >= 0 /\ \A r \in Remotes : lane[r] = "ok")
    BY <2>1 DEF Settled, StatusOf, Listed, TypeOK
  <2> QED
    BY <2>1, <2>2 DEF Quiet
<1>6. ASSUME NEW r \in Remotes, Copy(r) \/ CopyFails(r) \/ Respawn(r) PROVE Quiet'
  <2>1. /\ UNCHANGED <<tree, baseline, seen, resync, calm, stage>>
        /\ lane[r] \in {"copying", "syncing"} /\ lane'[r] \in {"copying", "syncing", "failed"}
        /\ \A q \in Remotes \ {r} : lane'[q] = lane[q]
    BY <1>6 DEF Copy, CopyFails, Respawn, AfterCopyFault, Unit, world, TypeOK
  <2> QED
    BY <2>1 DEF Quiet
<1>7. ASSUME NEW r \in Remotes, List(r) PROVE Quiet'
  <2>1. /\ UNCHANGED <<tree, baseline, resync, calm, stage>>
        /\ lane[r] = "syncing" /\ lane'[r] = "moving"
        /\ seen'[r].local = tree[Local] /\ seen'[r].remote = tree[r]
        /\ \A q \in Remotes \ {r} : lane'[q] = lane[q] /\ seen'[q] = seen[q]
    BY <1>7 DEF List, Unit, world, TypeOK
  <2> QED
    BY <2>1 DEF Quiet
(* A move in an undisturbed run after a good one leaves the local tree alone. *)
<1>8. ASSUME NEW r \in Remotes, lane[r] = "moving", NEW X \in SUBSET Files, Move(r, X),
             calm >= 1, ~resync
      PROVE  tree'[Local] = tree[Local]
  <2>1. seen[r].remote = tree[r] /\ baseline[r] = tree[r] /\ Base(r) = baseline[r]
    BY <1>8 DEF Quiet, Base, TypeOK
  <2>2. ToLocal(r) = {} /\ OffLocal(r) = {}
    BY <2>1 DEF ToLocal, OffLocal
  <2>3. tree'[Local] = (tree[Local] \cup (ToLocal(r) \cap X)) \ (OffLocal(r) \cap X)
    BY <1>8, MoveEffect
  <2> QED
    BY <2>2, <2>3
<1>9. ASSUME NEW r \in Remotes, Bisync(r) PROVE Quiet'
  <2>1. /\ lane[r] = "moving" /\ lane'[r] = "ok" /\ Move(r, Files)
        /\ UNCHANGED <<seen, resync, calm, stage>>
        /\ \A q \in Remotes \ {r} : lane'[q] = lane[q] /\ baseline'[q] = baseline[q]
        /\ baseline'[r] = (Base(r) \ (OffLocal(r) \cup OffRemote(r)))
                            \cup ToLocal(r) \cup ToRemote(r)
    BY <1>9 DEF Bisync, Unit, TypeOK
  <2>2. /\ tree'[r] = (tree[r] \cup (ToRemote(r) \cap Files)) \ (OffRemote(r) \cap Files)
        /\ \A q \in Remotes \ {r} : tree'[q] = tree[q]
    BY <2>1, MoveEffect
  <2>3. /\ ToRemote(r) \subseteq Files /\ OffRemote(r) \subseteq Files
        /\ tree[Local] \subseteq Files /\ tree[r] \subseteq Files
    BY DEF ToRemote, OffRemote, Base, TypeOK, Sites
  <2>4. ASSUME calm >= 0 PROVE baseline'[r] = tree'[r]
    <3>1. seen[r].remote = tree[r]
      BY <2>1, <2>4 DEF Quiet
    <3>2. ASSUME NEW f PROVE f \in baseline'[r] <=> f \in tree'[r]
      <4>1. f \in tree'[r] <=> (f \in tree[r] \/ f \in ToRemote(r)) /\ f \notin OffRemote(r)
        BY <2>2, <2>3
      <4>2. f \in baseline'[r] <=>
              \/ f \in Base(r) /\ f \notin OffLocal(r) /\ f \notin OffRemote(r)
              \/ f \in ToLocal(r) \/ f \in ToRemote(r)
        BY <2>1
      <4>3. /\ f \in ToLocal(r) <=> f \in tree[r] /\ f \notin Base(r)
            /\ f \in OffLocal(r) <=> f \in Base(r) /\ f \notin tree[r]
            /\ f \in ToRemote(r) => f \notin Base(r)
            /\ f \in OffRemote(r) => f \in Base(r)
        BY <3>1 DEF ToLocal, OffLocal, ToRemote, OffRemote
      <4> QED
        BY <4>1, <4>2, <4>3
    <3> QED
      BY <3>2
  <2>5. ASSUME calm >= 1, ~resync PROVE tree'[r] = tree[Local] /\ tree'[Local] = tree[Local]
    <3>1. /\ Base(r) = tree[r] /\ seen[r].local = tree[Local]
      BY <2>1, <2>5 DEF Quiet, Base
    <3>2. ToRemote(r) = tree[Local] \ tree[r] /\ OffRemote(r) = tree[r] \ tree[Local]
      BY <3>1 DEF ToRemote, OffRemote
    <3>3. tree'[r] = tree[Local]
      BY <2>2, <2>3, <3>2
    <3> QED
      BY <1>8, <2>1, <2>5, <3>3
  <2>6. calm \in Int
    BY DEF TypeOK
  <2>7. \A q \in Remotes \ {r} :
          /\ calm >= 0 /\ lane'[q] = "moving" => seen'[q].remote = tree'[q]
          /\ \/ calm >= 0 /\ lane'[q] = "ok"
             \/ calm >= 1 /\ lane'[q] # "failed"
             => baseline'[q] = tree'[q]
          /\ calm >= 1 /\ ~resync /\ lane'[q] = "moving" => seen'[q].local = tree'[Local]
          /\ calm >= 1 /\ ~resync /\ lane'[q] = "ok" => tree'[q] = tree'[Local]
    BY <2>1, <2>2, <2>5 DEF Quiet
  <2>8. /\ lane'[r] = "ok"
        /\ calm >= 0 \/ calm >= 1 => baseline'[r] = tree'[r]
        /\ calm >= 1 /\ ~resync => tree'[r] = tree'[Local]
    BY <2>1, <2>4, <2>5, <2>6
  <2> QED
    BY <2>1, <2>7, <2>8 DEF Quiet
<1>10. ASSUME NEW r \in Remotes, BisyncFails(r) PROVE Quiet'
  <2>1. /\ lane'[r] = "failed" /\ UNCHANGED <<baseline, seen, resync, calm, stage>>
        /\ \A q \in Remotes \ {r} : lane'[q] = lane[q]
        /\ \A q \in Remotes \ {r} : tree'[q] = tree[q]
    BY <1>10, MoveEffect DEF BisyncFails, Unit, TypeOK
  <2>2. calm >= 1 /\ ~resync => tree'[Local] = tree[Local]
    BY <1>8, <1>10 DEF BisyncFails
  <2> QED
    BY <2>1, <2>2 DEF Quiet
<1>11. CASE Deadline \/ UNCHANGED vars
  <2>1. UNCHANGED <<tree, baseline, seen, resync, calm, stage, lane>>
    BY <1>11 DEF Deadline, world, vars, run
  <2> QED
    BY <2>1 DEF Quiet
<1> QED
  BY <1>1, <1>2, <1>3, <1>4, <1>5, <1>6, <1>7, <1>9, <1>10, <1>11 DEF Next

(* Once the trees are equal, nothing but an edit makes them differ. *)
LEMMA ConvergedStep ==
  ASSUME TypeOK, Quiet, TwoGoodRunsConverge, [Next]_vars
  PROVE  TwoGoodRunsConverge'
<1> USE DEF TwoGoodRunsConverge
<1>1. ASSUME UNCHANGED <<tree, calm>> PROVE TwoGoodRunsConverge'
  BY <1>1
<1>2. ASSUME calm' < 2 PROVE TwoGoodRunsConverge'
  BY <1>2
<1>3. ASSUME NEW r \in Remotes, lane[r] = "moving", NEW X \in SUBSET Files, Move(r, X),
             calm' = calm
      PROVE  TwoGoodRunsConverge'
  <2> SUFFICES ASSUME calm = 2 PROVE \A q \in Remotes : tree'[q] = tree'[Local]
    BY <1>3
  <2>1. /\ tree[r] = tree[Local] /\ seen[r].remote = tree[r] /\ baseline[r] = tree[r]
        /\ ~resync => seen[r].local = tree[Local]
        /\ \A q \in Remotes : tree[q] = tree[Local]
    BY <1>3 DEF Quiet
  <2>2. /\ ToLocal(r) \subseteq tree[Local] /\ ToRemote(r) \subseteq tree[r]
        /\ OffLocal(r) = {} /\ OffRemote(r) = {}
    BY <2>1 DEF ToLocal, ToRemote, OffLocal, OffRemote, Base
  <2>3. /\ tree'[Local] = (tree[Local] \cup (ToLocal(r) \cap X)) \ (OffLocal(r) \cap X)
        /\ tree'[r] = (tree[r] \cup (ToRemote(r) \cap X)) \ (OffRemote(r) \cap X)
        /\ \A q \in Remotes \ {r} : tree'[q] = tree[q]
    BY <1>3, MoveEffect
  <2>4. tree'[Local] = tree[Local] /\ tree'[r] = tree[r]
    BY <2>2, <2>3
  <2> QED
    BY <2>1, <2>3, <2>4
<1>4. ASSUME NEW s \in Sites, NEW f \in Files, Add(s, f) \/ Remove(s, f)
      PROVE  TwoGoodRunsConverge'
  BY <1>2, <1>4 DEF Add, Remove, Disturb
<1>5. ASSUME NEW o \in Ops, NEW force \in BOOLEAN, Start(o, force) PROVE TwoGoodRunsConverge'
  BY <1>1, <1>5 DEF Start, world
<1>6. CASE PgDump \/ Download \/ FirstDump \/ PgRestore
  BY <1>1, <1>6 DEF PgDump, Download, FirstDump, PgRestore, world
<1>7. CASE StepFails \/ CutShort
  BY <1>2, <1>7 DEF StepFails, FailStep, CutShort, Finish, Settled
<1>8. CASE Complete
  <2>1. calm' = Settled(StatusOf) /\ tree' = tree
    BY <1>8 DEF Complete, Finish, world
  <2> SUFFICES ASSUME calm' = 2 PROVE \A r \in Remotes : tree[r] = tree[Local]
    BY <2>1
  <2>2. calm >= 1 /\ ~resync /\ \A r \in Remotes : lane[r] = "ok"
    BY <2>1 DEF Settled, StatusOf, Listed, TypeOK
  <2> QED
    BY <2>2 DEF Quiet
<1>9. ASSUME NEW r \in Remotes, Copy(r) \/ CopyFails(r) \/ Respawn(r) \/ List(r)
      PROVE  TwoGoodRunsConverge'
  BY <1>1, <1>9 DEF Copy, CopyFails, Respawn, List, world
<1>10. ASSUME NEW r \in Remotes, Bisync(r) PROVE TwoGoodRunsConverge'
  BY <1>3, <1>10 DEF Bisync
<1>11. ASSUME NEW r \in Remotes, BisyncFails(r) PROVE TwoGoodRunsConverge'
  BY <1>1, <1>3, <1>11 DEF BisyncFails
<1>12. CASE Deadline \/ UNCHANGED vars
  BY <1>1, <1>12 DEF Deadline, vars, world, run
<1> QED
  BY <1>4, <1>5, <1>6, <1>7, <1>8, <1>9, <1>10, <1>11, <1>12 DEF Next

-------------------------------------------------------------------------------
(* CloudInv is an invariant of every sequence of syncs and restores. *)
THEOREM CloudInvariant == Spec => []CloudInv
<1>1. ASSUME CloudInv, [Next]_vars PROVE CloudInv'
  <2>0. /\ TypeOK /\ LanesFollowStage /\ Kept /\ DumpsAreUp /\ Quiet
        /\ ListedIsBackedUp /\ TwoGoodRunsConverge /\ ResyncsFollowReplay
    BY <1>1 DEF CloudInv
  <2>1. TypeOK'
    BY <1>1, <2>0, TypesStep
  <2>2. LanesFollowStage' /\ ResyncsFollowReplay'
    BY <1>1, <2>0, StageStep, ReplayStep
  <2>3. Kept'
    BY <1>1, <2>0, KeptStep
  <2>4. DumpsAreUp'
    BY <1>1, <2>0, DumpsStep
  <2>5. ListedIsBackedUp'
    BY <1>1, <2>0, <2>4, ListedStep
  <2>6. Quiet' /\ TwoGoodRunsConverge'
    BY <1>1, <2>0, QuietStep, ConvergedStep
  <2> QED
    BY <2>1, <2>2, <2>3, <2>4, <2>5, <2>6 DEF CloudInv
<1> QED
  BY <1>1, CloudInvInitially, PTL DEF Spec

(* Types, and no dump is left in a temporary directory (rails.py 219-231). *)
THEOREM CloudTypes == Spec => []TypeOK
<1>1. CloudInv => TypeOK
  BY DEF CloudInv
<1> QED
  BY <1>1, CloudInvariant, PTL

(* What the envelope lists is backed up: the dump, and every file that was *)
(* there at the start and that no user removed (rails.py 167-177, 282-288). *)
THEOREM ListedRemotesAreBackedUp == Spec => []ListedIsBackedUp
<1>1. CloudInv => ListedIsBackedUp
  BY DEF CloudInv
<1> QED
  BY <1>1, CloudInvariant, PTL

(* Two good undisturbed operations, the second no resync, make all trees   *)
(* equal, whatever the units did to the local tree at the same time        *)
(* (rails.py 182-190).                                                     *)
THEOREM GoodRunsConverge == Spec => []TwoGoodRunsConverge
<1>1. CloudInv => TwoGoodRunsConverge
  BY DEF CloudInv
<1> QED
  BY <1>1, CloudInvariant, PTL

(* No remote is resynced over half a restore (rails.py 265-270). *)
THEOREM NoResyncOverHalfARestore == Spec => []ResyncsFollowReplay
<1>1. CloudInv => ResyncsFollowReplay
  BY DEF CloudInv
<1> QED
  BY <1>1, CloudInvariant, PTL

-------------------------------------------------------------------------------
(* What a restore has downloaded is what the primary remote holds, for as   *)
(* long as it chooses and replays. *)
StagedIsHeld ==
  /\ stage \in {"choosing", "restoring"} => staged = dumps[Primary]
  /\ stage = "restoring" => chosen \in staged

LEMMA StagedIsHeldStep ==
  ASSUME LanesFollowStage, TypeOK, StagedIsHeld, [Next]_vars
  PROVE  StagedIsHeld'
<1> USE CloudAssumption DEF StagedIsHeld
<1>1. CASE UNCHANGED <<stage, staged, dumps, chosen>>
  BY <1>1
<1>2. ASSUME NEW o \in Ops, NEW force \in BOOLEAN, Start(o, force) PROVE StagedIsHeld'
  BY <1>2 DEF Start
<1>3. CASE PgDump \/ PgRestore
  BY <1>3 DEF PgDump, PgRestore, FanOut
<1>4. CASE Download
  BY <1>4 DEF Download, world
<1>5. CASE FirstDump
  BY <1>5 DEF FirstDump, world
<1>6. CASE StepFails \/ Complete \/ CutShort
  BY <1>6 DEF StepFails, FailStep, Complete, CutShort, Finish
<1>7. ASSUME NEW r \in Remotes, Copy(r) \/ CopyFails(r) PROVE StagedIsHeld'
  BY <1>7 DEF Copy, CopyFails, LanesFollowStage
<1> QED
  BY <1>1, <1>2, <1>3, <1>4, <1>5, <1>6, <1>7
     DEF Next, Add, Remove, Respawn, List, Bisync, BisyncFails, Deadline, vars, world, run

(* A restore replays a dump that the primary remote holds, and the latest   *)
(* one as long as all it holds are of one run; run cloud_restore shows what *)
(* the first of several comes to (rails.py 252-279). *)
THEOREM RestoresWhatIsHeld ==
  Spec => [](/\ stage = "restoring" => chosen \in dumps[Primary]
             /\ (\A a, b \in dumps[Primary] : a.stamp = b.stamp) => RestoresLatest)
<1>1. Init => StagedIsHeld
  BY DEF Init, StagedIsHeld
<1>2. CloudInv /\ StagedIsHeld /\ [Next]_vars => StagedIsHeld'
  BY StagedIsHeldStep DEF CloudInv
<1>3. CloudInv /\ StagedIsHeld =>
        /\ stage = "restoring" => chosen \in dumps[Primary]
        /\ (\A a, b \in dumps[Primary] : a.stamp = b.stamp) => RestoresLatest
  <2> SUFFICES ASSUME CloudInv, StagedIsHeld, stage = "restoring"
               PROVE  /\ chosen \in dumps[Primary]
                      /\ (\A a, b \in dumps[Primary] : a.stamp = b.stamp) =>
                           \A d \in staged : d.stamp <= chosen.stamp
    BY DEF RestoresLatest
  <2>1. staged = dumps[Primary] /\ chosen \in staged
    BY DEF StagedIsHeld
  <2>2. chosen.stamp \in Nat
    BY DEF CloudInv, TypeOK, Dump
  <2> QED
    BY <2>1, <2>2
<1> QED
  BY <1>1, <1>2, <1>3, CloudInvariant, PTL DEF Spec
===============================================================================
