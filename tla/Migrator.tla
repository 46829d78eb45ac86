------------------------------- MODULE Migrator -------------------------------
(* Migrator.Run and Migrator.Rollback, called by several processes on one database.  *)
(* The completed versions are read once, before the first transaction; each migration  *)
(* is one transaction of its schema change (IF EXISTS and IF NOT EXISTS, so that doing  *)
(* it twice is no error) and its row in gostack_migrations, whose version is unique.     *)
(* The database (external) keeps the changes of an open transaction to itself, makes a   *)
(* second insert of a version wait for the first, and commits at every schema change     *)
(* when it has no transactional DDL.                                                      *)
EXTENDS Naturals, FiniteSets, FiniteSetsExt

CONSTANTS GVersions,   \* the registry: versions are numbers, run in their order
          GProcesses,
          GCommands,   \* commands each process runs
          GFaults      \* bound: failing statements, stopped processes
ASSUME MigratorAssumption == /\ GVersions \subseteq Nat /\ IsFiniteSet(GVersions)
                             /\ GCommands \in Nat /\ GFaults \in Nat

VARIABLES gDDL,      \* is the schema part of a transaction?
          gSchema,   \* versions whose change is in the schema
          gTracked,  \* gostack_migrations
          gProc,     \* each process
          gSeen      \* faults; history: did a Rollback overlap another command, or miss versions?

gvars == <<gDDL, gSchema, gTracked, gProc, gSeen>>
NoTx == [add |-> {}, drop |-> {}, row |-> {}]
GIdle == [at |-> "idle", op |-> "none", todo |-> {}, tx |-> NoTx]

GInit == /\ gDDL \in BOOLEAN /\ gSchema = {} /\ gTracked = {}
         /\ gProc = [p \in GProcesses |-> GIdle]
         /\ gSeen = [faults |-> 0, commands |-> [p \in GProcesses |-> 0], mixed |-> FALSE]

At(p, pc) == gProc[p].at = pc
Set(p, r) == gProc' = [gProc EXCEPT ![p] = r]
Busy(p) == {q \in GProcesses \ {p} : ~At(q, "idle")}
Fault == gSeen.faults < GFaults /\ gSeen' = [gSeen EXCEPT !.faults = @ + 1]

(* ensureTrackingTable and completedVersions: what Run still has to do, or the one      *)
(* migration Rollback takes back.  The rows may end early with an error, at which        *)
(* nobody looks (rows.Err): then only some of the versions are seen.                      *)
Read(p, op, seen) ==
  /\ At(p, "idle") /\ gSeen.commands[p] < GCommands
  /\ seen # gTracked => gSeen.faults < GFaults
  /\ LET todo == IF op = "run" THEN GVersions \ seen
                 ELSE IF seen \cap GVersions = {} THEN {} ELSE {Max(seen \cap GVersions)}
     IN Set(p, [at |-> IF todo = {} THEN "idle" ELSE "change", op |-> op, todo |-> todo, tx |-> NoTx])
  /\ gSeen' = [gSeen EXCEPT !.commands[p] = @ + 1, !.faults = IF seen = gTracked THEN @ ELSE @ + 1,
                 !.mixed = \/ @ \/ (op = "rollback" /\ seen # gTracked)
                           \/ \E q \in Busy(p) : "rollback" \in {op, gProc[q].op}]
  /\ UNCHANGED <<gDDL, gSchema, gTracked>>

Version(p) == Min(gProc[p].todo)

(* BeginTx, then Up or Down of the next version.                                        *)
Change(p) ==
  /\ At(p, "change")
  /\ LET v == Version(p)
         up == gProc[p].op = "run"
     IN /\ Set(p, [gProc[p] EXCEPT !.at = "track",
                    !.tx.add = IF up /\ v \notin gSchema THEN {v} ELSE {},
                    !.tx.drop = IF ~up THEN {v} ELSE {}])
        /\ gSchema' = IF gDDL THEN gSchema ELSE IF up THEN gSchema \cup {v} ELSE gSchema \ {v}
  /\ UNCHANGED <<gDDL, gTracked, gSeen>>

(* INSERT or DELETE of the version's row.  An insert waits for another open one of the    *)
(* same version, and fails when the version is there.                                     *)
Waits(p) == \E q \in GProcesses \ {p} : Version(p) \in gProc[q].tx.row
Track(p) ==
  /\ At(p, "track") /\ ~Waits(p)
  /\ IF gProc[p].op = "run" /\ Version(p) \in gTracked
     THEN Set(p, GIdle)
     ELSE Set(p, [gProc[p] EXCEPT !.at = "commit", !.tx.row = {Version(p)}])
  /\ UNCHANGED <<gDDL, gSchema, gTracked, gSeen>>

CommitVersion(p) ==
  /\ At(p, "commit")
  /\ LET g == gProc[p]
         left == g.todo \ {Version(p)}
     IN /\ gSchema' = IF gDDL THEN (gSchema \cup g.tx.add) \ g.tx.drop ELSE gSchema
        /\ gTracked' = IF g.op = "run" THEN gTracked \cup g.tx.row ELSE gTracked \ g.tx.row
        /\ Set(p, IF left = {} THEN GIdle
                  ELSE [g EXCEPT !.at = "change", !.todo = left, !.tx = NoTx])
  /\ UNCHANGED <<gDDL, gSeen>>

(* A statement or the COMMIT fails, or the process stops: its transaction is rolled back  *)
(* and the command ends there.                                                             *)
\* Mutant of Fails: the schema change is committed though the command fails.
FailsWithoutRollback(p) == /\ ~At(p, "idle") /\ Fault /\ Set(p, GIdle)
                           /\ gSchema' = (gSchema \cup gProc[p].tx.add) \ gProc[p].tx.drop
                           /\ UNCHANGED <<gDDL, gTracked>>
Fails(p) == /\ ~At(p, "idle") /\ Fault /\ Set(p, GIdle)
            /\ UNCHANGED <<gDDL, gSchema, gTracked>>

GNext == \E p \in GProcesses : \/ \E op \in {"run", "rollback"}, seen \in SUBSET gTracked : Read(p, op, seen)
                               \/ Change(p) \/ Track(p) \/ CommitVersion(p) \/ Fails(p)

GSpec == GInit /\ [][GNext]_gvars

-----------------------------------------------------------------------------
GTxs == [add : SUBSET GVersions, drop : SUBSET GVersions, row : SUBSET GVersions]
GProcs == [at : {"idle", "change", "track", "commit"}, op : {"none", "run", "rollback"},
           todo : SUBSET GVersions, tx : GTxs]
GTypeOK == /\ gDDL \in BOOLEAN /\ gSchema \subseteq GVersions /\ gTracked \subseteq GVersions
           /\ gProc \in [GProcesses -> GProcs]
           /\ gSeen \in [faults : 0 .. GFaults, commands : [GProcesses -> 0 .. GCommands], mixed : BOOLEAN]

(* With transactional DDL a version is tracked exactly when its change is in the schema,  *)
(* whatever fails and though processes start migrating at the same time, unless a          *)
(* Rollback overlaps another command or reads some of the versions only (it then takes       *)
(* back one that is not the last); and Run never leaves a gap, also when it saw only some:    *)
(* the tracked versions are the first ones.                                                    *)
SchemaMatchesVersions ==
  /\ gDDL /\ ~gSeen.mixed => gSchema = gTracked
  /\ ~gSeen.mixed => \A v \in gTracked : \A u \in GVersions : u < v => u \in gTracked

(* What it rests on.  A Rollback is alone and takes back the last version; a Run still has   *)
(* to do all that is not tracked, and what others do meanwhile only adds to that; between    *)
(* the change and the COMMIT, the open transaction holds what the schema still lacks.          *)
RollsBackAlone(p) ==
  ~At(p, "idle") /\ gProc[p].op = "rollback" =>
    /\ Busy(p) = {}
    /\ \E v \in gTracked : gProc[p].todo = {v} /\ \A u \in gTracked : u <= v
RunsTheRest(p) ==
  ~At(p, "idle") /\ gProc[p].op = "run" =>
    GVersions \ gProc[p].todo \subseteq gTracked
ChangesOneVersion(p) ==
  LET tx == gProc[p].tx
      v == {Version(p)}
  IN /\ gProc[p].at \in {"track", "commit"} =>
          IF gProc[p].op = "run"
          THEN tx.drop = {} /\ tx.add \subseteq v /\ (gDDL => v \subseteq gSchema \cup tx.add)
          ELSE tx.drop = v /\ tx.add = {}
     /\ At(p, "commit") => tx.row = v
MigratesInOrder ==
  \A p \in GProcesses : RollsBackAlone(p) /\ RunsTheRest(p) /\ ChangesOneVersion(p)
WorkLeft == \A p \in GProcesses :
              ~At(p, "idle") => gProc[p].op \in {"run", "rollback"} /\ gProc[p].todo # {}
GIndInv == GTypeOK /\ WorkLeft /\ (~gSeen.mixed => MigratesInOrder) /\ SchemaMatchesVersions
=============================================================================
