---------------------------- MODULE Orchestration ----------------------------
(* JobChain and JobBatch: a batch whose members are chains of jobs, handled by a *)
(* queue worker.  Each member runs in a goroutine of its own; the members that    *)
(* fail meet at one sync.Once, whose first caller records the error and calls     *)
(* OnFail while the others wait; Handle waits for all of them.                    *)
EXTENDS Naturals, Sequences, FiniteSets

CONSTANTS BMembers,  \* the jobs of the batch, each a chain
          BLength    \* how many jobs each chain has

NoMember == "none"
ASSUME BatchAssumption == BLength \in Nat /\ BMembers \cap {NoMember, "new", "done"} = {}

VARIABLES bMember,   \* where each member's goroutine is
          bStep,     \* jobs of each chain that have ended without an error
          bOnce,     \* the sync.Once: "new", the member inside, or "done"
          bFirstErr, \* whose error Handle will return
          bCalled,   \* the calls of OnFail and OnSuccess, in order
          bHandle    \* the call of Handle: "run", then what it returned

bvars == <<bMember, bStep, bOnce, bFirstErr, bCalled, bHandle>>

BInit == /\ bMember = [m \in BMembers |-> "new"] /\ bStep = [m \in BMembers |-> 0]
         /\ bOnce = "new" /\ bFirstErr = NoMember /\ bCalled = <<>> /\ bHandle = "run"

(* Handle starts the goroutines one after the other; they run from then on.       *)
BStart(m) == /\ bMember[m] = "new"
             /\ bMember' = [bMember EXCEPT ![m] = "run"]
             /\ UNCHANGED <<bStep, bOnce, bFirstErr, bCalled, bHandle>>

(* JobChain.Handle: the next job of the chain, or the end of the chain; the first  *)
(* error ends it.                                                                  *)
ChainJob(m) == /\ bMember[m] = "run" /\ bStep[m] < BLength
               /\ \/ bStep' = [bStep EXCEPT ![m] = @ + 1] /\ bMember' = bMember
                  \/ bStep' = bStep /\ bMember' = [bMember EXCEPT ![m] = "failed"]
               /\ UNCHANGED <<bOnce, bFirstErr, bCalled, bHandle>>

ChainEnd(m) == /\ bMember[m] = "run" /\ bStep[m] = BLength
               /\ bMember' = [bMember EXCEPT ![m] = "done"]
               /\ UNCHANGED <<bStep, bOnce, bFirstErr, bCalled, bHandle>>

(* once.Do: the first caller enters, a later one waits for it and passes.          *)
\* Mutant of OnceEnter: a flag instead of the sync.Once, cleared when OnFail returns.
OnceEnterAgain(m) == /\ bMember[m] = "failed" /\ bOnce \in {"new", "done"}
                     /\ bOnce' = m /\ bFirstErr' = m
                     /\ UNCHANGED <<bMember, bStep, bCalled, bHandle>>
OnceEnter(m) == /\ bMember[m] = "failed" /\ bOnce = "new"
                /\ bOnce' = m /\ bFirstErr' = m
                /\ UNCHANGED <<bMember, bStep, bCalled, bHandle>>

OnceLeave(m) == /\ bOnce = m
                /\ bCalled' = Append(bCalled, "onFail") /\ bOnce' = "done"
                /\ bMember' = [bMember EXCEPT ![m] = "done"]
                /\ UNCHANGED <<bStep, bFirstErr, bHandle>>

OncePass(m) == /\ bMember[m] = "failed" /\ bOnce = "done"
               /\ bMember' = [bMember EXCEPT ![m] = "done"]
               /\ UNCHANGED <<bStep, bOnce, bFirstErr, bCalled, bHandle>>

(* wg.Wait returns when every goroutine is done; then OnSuccess, unless an error   *)
(* was recorded, and the error is returned.                                        *)
BReturn == /\ bHandle = "run" /\ \A m \in BMembers : bMember[m] = "done"
           /\ IF bFirstErr = NoMember
              THEN bCalled' = Append(bCalled, "onSuccess") /\ bHandle' = "nil"
              ELSE bCalled' = bCalled /\ bHandle' = "error"
           /\ UNCHANGED <<bMember, bStep, bOnce, bFirstErr>>

BNext == \/ BReturn
         \/ \E m \in BMembers : \/ BStart(m) \/ ChainJob(m) \/ ChainEnd(m)
                                \/ OnceEnter(m) \/ OnceLeave(m) \/ OncePass(m)

BSpec == BInit /\ [][BNext]_bvars

-----------------------------------------------------------------------------
BTypeOK == /\ bMember \in [BMembers -> {"new", "run", "failed", "done"}]
           /\ bStep \in [BMembers -> 0 .. BLength]
           /\ bOnce \in BMembers \cup {"new", "done"} /\ bFirstErr \in BMembers \cup {NoMember}
           /\ bCalled \in Seq({"onFail", "onSuccess"}) /\ bHandle \in {"run", "nil", "error"}

(* However many members fail at once, OnFail is called once, and never together    *)
(* with OnSuccess; when Handle returns, no member is still running, OnSuccess was  *)
(* called exactly when every job of every chain ended well, and an error is        *)
(* returned exactly when some member stopped before the end of its chain.          *)
BatchReportsOnce ==
  /\ Len(bCalled) <= 1
  /\ bHandle # "run" =>
       /\ \A m \in BMembers : bMember[m] = "done"
       /\ LET allWell == \A m \in BMembers : bStep[m] = BLength IN
          /\ bHandle = IF allWell THEN "nil" ELSE "error"
          /\ bCalled = IF allWell THEN <<"onSuccess">> ELSE <<"onFail">>

(* What it rests on: the error that is recorded is that of the member that went into    *)
(* the sync.Once, and a member that stopped before the end of its chain gets past it      *)
(* only when it is done; Handle finds what the sync.Once left.                            *)
FirstErrorWins ==
  /\ bOnce = "new" <=> bFirstErr = NoMember
  /\ bOnce \in BMembers => bFirstErr = bOnce /\ bMember[bOnce] = "failed"
  /\ bFirstErr # NoMember => bMember[bFirstErr] \in {"failed", "done"} /\ bStep[bFirstErr] < BLength
  /\ \A m \in BMembers : /\ bMember[m] = "failed" => bStep[m] < BLength
                         /\ bMember[m] = "done" => bStep[m] = BLength \/ bOnce = "done"
CalledByTheOnce ==
  /\ bHandle = "run" => bCalled = IF bOnce = "done" THEN <<"onFail">> ELSE <<>>
  /\ bHandle # "run" =>
       /\ \A m \in BMembers : bMember[m] = "done"
       /\ \/ bHandle = "nil" /\ bOnce = "new" /\ bCalled = <<"onSuccess">>
          \/ bHandle = "error" /\ bOnce = "done" /\ bCalled = <<"onFail">>

BIndInv == BTypeOK /\ FirstErrorWins /\ CalledByTheOnce
=============================================================================
