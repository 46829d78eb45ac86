----------------------------- MODULE Transactions -----------------------------
(* database.Transaction, nested: the outermost call begins a transaction, a call    *)
(* that is given a Tx sets a savepoint.  The closure runs statements, nests further  *)
(* calls, survives their errors and panics or passes them on; every call ends with   *)
(* COMMIT or RELEASE, or with a rollback whose error is dropped.  The database       *)
(* (external): a refused statement aborts the transaction of a driver like Postgres   *)
(* until a rollback; when the connection is lost every later statement fails, and     *)
(* the transaction is rolled back.                                                    *)
EXTENDS Naturals, Sequences, SequencesExt

CONSTANTS TxWrites,  \* the statements closures run, each once
          TxNested   \* bound: nested calls in one transaction
ASSUME TxAssumption == TxNested \in Nat

VARIABLES txAborts,   \* does a refused statement abort the transaction?
          txRows,     \* rows of the statements that are committed
          txOpen,     \* the open transaction: rows, savepoints, aborted and lost
          txCalls,    \* the calls of Transaction under way: savepoint, and (history) the
                      \* statements that are to stay if the call succeeds
          txCounter,  \* savepointCounter
          txTried,    \* statements run so far
          txOutcome   \* history: of the outermost call: its result, statements to stay, doubt

txvars == <<txAborts, txRows, txOpen, txCalls, txCounter, txTried, txOutcome>>

Closed == [rows |-> {}, savepoints |-> <<>>, aborted |-> FALSE, lost |-> FALSE]
Running == [result |-> "none", keep |-> {}, doubt |-> FALSE]

TxInit == /\ txAborts \in BOOLEAN /\ txRows = {} /\ txOpen = Closed /\ txCalls = <<>>
          /\ txCounter = 0 /\ txTried = {} /\ txOutcome = Running

Inside == txCalls # <<>>
Nested == Len(txCalls) > 1
Works == ~txOpen.aborted /\ ~txOpen.lost
Call == Last(txCalls)
Savepoint(name) == CHOOSE n \in DOMAIN txOpen.savepoints : txOpen.savepoints[n].name = name

(* db.BeginTx.                                                                        *)
Begin == /\ txOutcome.result = "none" /\ ~Inside
         /\ txCalls' = <<[name |-> 0, keep |-> {}]>> /\ txOpen' = Closed
         /\ UNCHANGED <<txAborts, txRows, txCounter, txTried, txOutcome>>

(* A builder given WithTx, or tx.Exec itself, runs a statement in the transaction.    *)
Statement(w, ok) ==
  /\ Inside /\ w \notin txTried /\ txTried' = txTried \cup {w}
  /\ ok => Works
  /\ txOpen' = IF ok THEN [txOpen EXCEPT !.rows = @ \cup {w}]
               ELSE [txOpen EXCEPT !.aborted = @ \/ txAborts]
  /\ txCalls' = IF ok THEN [txCalls EXCEPT ![Len(txCalls)].keep = @ \cup {w}] ELSE txCalls
  /\ UNCHANGED <<txAborts, txRows, txCounter, txOutcome>>

(* SAVEPOINT, with a fresh name; its error is the result of the nested call.           *)
Nest == /\ Inside /\ txCounter < TxNested
        /\ txCounter' = txCounter + 1
        /\ IF Works
           THEN /\ txOpen' = [txOpen EXCEPT !.savepoints =
                                Append(@, [name |-> txCounter', rows |-> txOpen.rows])]
                /\ txCalls' = Append(txCalls, [name |-> txCounter', keep |-> {}])
           ELSE UNCHANGED <<txOpen, txCalls>>
        /\ UNCHANGED <<txAborts, txRows, txTried, txOutcome>>

(* The nested closure returned nil: RELEASE, whose error is the result of the call.    *)
Release ==
  /\ Nested
  /\ LET outer == Front(txCalls) IN
     IF Works
     THEN /\ txOpen' = [txOpen EXCEPT !.savepoints = SubSeq(@, 1, Savepoint(Call.name) - 1)]
          /\ txCalls' = [outer EXCEPT ![Len(outer)].keep = @ \cup Call.keep]
     ELSE txOpen' = txOpen /\ txCalls' = outer
  /\ UNCHANGED <<txAborts, txRows, txCounter, txTried, txOutcome>>

(* It returned an error or panicked: ROLLBACK TO SAVEPOINT, and the outer closure goes  *)
(* on with the error, or with the panic if it recovers.                                *)
\* Mutant of RollbackTo: savepointTx.Rollback does nothing, like its Commit.
RollbackToDropped == /\ Nested /\ txCalls' = Front(txCalls)
                     /\ UNCHANGED <<txAborts, txRows, txOpen, txCounter, txTried, txOutcome>>
RollbackTo ==
  /\ Nested
  /\ txOpen' = IF txOpen.lost THEN txOpen
               ELSE LET n == Savepoint(Call.name) IN
                    [txOpen EXCEPT !.rows = txOpen.savepoints[n].rows, !.aborted = FALSE,
                                   !.savepoints = SubSeq(@, 1, n)]
  /\ txCalls' = Front(txCalls)
  /\ UNCHANGED <<txAborts, txRows, txCounter, txTried, txOutcome>>

(* The outermost closure returned nil: COMMIT.  In an aborted transaction it rolls back  *)
(* and is an error; when the connection breaks under it, either may have happened.       *)
Ends(rows, result, doubt) ==
  /\ txRows' = txRows \cup rows /\ txOpen' = Closed /\ txCalls' = <<>>
  /\ txOutcome' = [result |-> result, keep |-> Call.keep, doubt |-> doubt]
  /\ UNCHANGED <<txAborts, txCounter, txTried>>
Commit == /\ Inside /\ ~Nested
          /\ \/ Works /\ Ends(txOpen.rows, "nil", FALSE)
             \/ ~Works /\ Ends({}, "error", FALSE)
             \/ Works /\ \E rows \in {{}, txOpen.rows} : Ends(rows, "error", TRUE)
Rollback == Inside /\ ~Nested /\ Ends({}, "error", FALSE)

(* The connection is lost: the database rolls the transaction back.                      *)
Lose == /\ Inside /\ ~txOpen.lost
        /\ txOpen' = [Closed EXCEPT !.lost = TRUE]
        /\ UNCHANGED <<txAborts, txRows, txCalls, txCounter, txTried, txOutcome>>

TxNext == \/ Begin \/ Nest \/ Release \/ RollbackTo \/ Commit \/ Rollback \/ Lose
          \/ \E w \in TxWrites, ok \in BOOLEAN : Statement(w, ok)

TxSpec == TxInit /\ [][TxNext]_txvars

-----------------------------------------------------------------------------
Savepoints == [name : Nat, rows : SUBSET TxWrites]
TxTypeOK == /\ txRows \subseteq TxWrites /\ txCounter \in 0 .. TxNested
            /\ txOpen \in [rows : SUBSET TxWrites, savepoints : Seq(Savepoints),
                           aborted : BOOLEAN, lost : BOOLEAN]
            /\ txCalls \in Seq([name : Nat, keep : SUBSET TxWrites]) /\ Len(txCalls) <= txCounter + 1
            /\ txOutcome \in [result : {"none", "nil", "error"}, keep : SUBSET TxWrites, doubt : BOOLEAN]

(* What is committed in the end are exactly the statements of the calls whose closures   *)
(* returned nil all the way up, though closures swallowed the errors and panics of calls  *)
(* below; the outermost call reports nil only if that happened, and an error leaves        *)
(* nothing, save when the connection breaks under COMMIT.                                   *)
Kept == UNION {txCalls[n].keep : n \in DOMAIN txCalls}
NestedAllOrNothing ==
  /\ Inside => txRows = {} /\ (Works => txOpen.rows = Kept)
  /\ txOutcome.result = "nil" => txRows = txOutcome.keep
  /\ txOutcome.result = "error" =>
       IF txOutcome.doubt THEN txRows \in {{}, txOutcome.keep} ELSE txRows = {}

(* What it rests on: names are fresh, so that those of the calls and of the savepoints grow; *)
(* and while the connection lasts, the database still has the savepoint of every nested call  *)
(* under way, with the rows of the calls around it, whatever savepoints a rollback left over.   *)
Around(calls, d) == UNION {calls[e].keep : e \in 1 .. d - 1}
Grow(s, top) == /\ \A n \in 1 .. Len(s) : s[n].name <= top
                /\ \A m, n \in 1 .. Len(s) : m < n => s[m].name < s[n].name
FreshNames == Grow(txCalls, txCounter) /\ Grow(txOpen.savepoints, txCounter)
SavepointsHold ==
  ~txOpen.lost => \A d \in 2 .. Len(txCalls) : \E n \in 1 .. Len(txOpen.savepoints) :
    /\ txOpen.savepoints[n].name = txCalls[d].name
    /\ txOpen.savepoints[n].rows = Around(txCalls, d)
EndsOnce == /\ Inside => txOutcome.result = "none"
            /\ txOutcome.result = "none" => txRows = {}
TxIndInv == TxTypeOK /\ FreshNames /\ SavepointsHold /\ EndsOnce /\ NestedAllOrNothing
=============================================================================
