---------------------------- MODULE OutletCounters ----------------------------
(***************************************************************************)
(* next_outlet_counter (app/services/owner/order_counters.py): the daily   *)
(* numbers of one outlet's orders, kitchen tickets, bills and invoices.    *)
(* It is the only function of the application that takes a row lock.       *)
(*                                                                         *)
(* Every request runs one database transaction at READ COMMITTED: a row    *)
(* that another transaction inserted and did not commit is invisible to    *)
(* SELECT ... FOR UPDATE, but the unique constraint on (outlet, date,      *)
(* kind) makes a second INSERT wait for it; a row another transaction has  *)
(* locked makes SELECT ... FOR UPDATE wait and then read the new value.    *)
(***************************************************************************)
EXTENDS Naturals

CONSTANTS Request,   \* HTTP requests; a client's retry is another request
          Kind,      \* counter_kind: "order", "kot", "bill", "invoice"
          LastDay    \* bound on the number of days a behaviour spans

ASSUME LastDayAssumption == LastDay \in Nat \ {0}

Day == 1 .. LastDay

VARIABLES today,     \* date.today() of the server
          counter,   \* committed OutletCounter.value; 0 stands for "no row"
          txn,       \* the requests and their transactions
          issued     \* the numbered documents that were committed

counterVars == <<today, counter, txn, issued>>

\* "new": no transaction; "selecting": before the SELECT ... FOR UPDATE;
\* "inserting": the SELECT found no row; "holding": the number is drawn and
\* the row is locked (or inserted) but not committed; the last three have ended.
Phase == {"new", "selecting", "inserting", "holding",
          "committed", "conflict", "rolled_back"}

RequestState == [pc : Phase, kind : Kind, day : Day, number : Nat]

Document == [kind : Kind, day : Day, number : Nat, request : Request]

OnKey(r, k, d) == txn[r].kind = k /\ txn[r].day = d

\* Mutant of KeyFree: the SELECT does not ask for the row lock.
KeyFreeUnlocked(k, d) == TRUE

\* Mutant of KeyFree: the lock outlives the transaction that took it.
KeyFreeLeaked(k, d) ==
  \A r \in Request : ~ (txn[r].pc \in {"holding", "committed"} /\ OnKey(r, k, d))

\* Nobody holds the row of (k, d), locked or inserted and not yet committed.
KeyFree(k, d) == \A r \in Request : ~ (txn[r].pc = "holding" /\ OnKey(r, k, d))

CountersTypeOK ==
  /\ today \in Day
  /\ counter \in [Kind -> [Day -> Nat]]
  /\ txn \in [Request -> RequestState]
  /\ issued \subseteq Document

CountersInit ==
  /\ today = 1
  /\ counter = [k \in Kind |-> [d \in Day |-> 0]]
  /\ txn \in [Request -> [pc : {"new"}, kind : Kind, day : {1}, number : {0}]]
  /\ issued = {}

\* A handler (create_order, send_kot, create_or_refresh_bill or the settling
\* ones) calls next_outlet_counter, which fixes the date it counts for.
Call(r) ==
  /\ txn[r].pc = "new"
  /\ txn' = [txn EXCEPT ![r].pc = "selecting", ![r].day = today]
  /\ UNCHANGED <<today, counter, issued>>

\* SELECT ... FOR UPDATE finds the committed row, once nobody else locks it;
\* row.value += 1 is flushed inside the transaction.
LockRow(r) ==
  LET k == txn[r].kind
      d == txn[r].day
  IN /\ txn[r].pc = "selecting"
     /\ counter[k][d] # 0
     /\ KeyFree(k, d)
     /\ txn' = [txn EXCEPT ![r].pc = "holding", ![r].number = counter[k][d] + 1]
     /\ UNCHANGED <<today, counter, issued>>

\* SELECT ... FOR UPDATE finds no committed row: an uncommitted one is invisible.
FindNoRow(r) ==
  /\ txn[r].pc = "selecting"
  /\ counter[txn[r].kind][txn[r].day] = 0
  /\ txn' = [txn EXCEPT ![r].pc = "inserting"]
  /\ UNCHANGED <<today, counter, issued>>

\* The flush inserts the day's first row, with value 1.
InsertRow(r) ==
  LET k == txn[r].kind
      d == txn[r].day
  IN /\ txn[r].pc = "inserting"
     /\ counter[k][d] = 0
     /\ KeyFree(k, d)
     /\ txn' = [txn EXCEPT ![r].pc = "holding", ![r].number = 1]
     /\ UNCHANGED <<today, counter, issued>>

\* Another request committed the day's first row in the meantime: the unique
\* constraint rejects the INSERT and the whole request fails.
InsertConflict(r) ==
  /\ txn[r].pc = "inserting"
  /\ counter[txn[r].kind][txn[r].day] # 0
  /\ txn' = [txn EXCEPT ![r].pc = "conflict"]
  /\ UNCHANGED <<today, counter, issued>>

\* The handler commits the document together with the counter.
CommitNumber(r) ==
  LET k == txn[r].kind
      d == txn[r].day
  IN /\ txn[r].pc = "holding"
     /\ counter' = [counter EXCEPT ![k][d] = txn[r].number]
     /\ issued' = issued \cup {[kind |-> k, day |-> d,
                                number |-> txn[r].number, request |-> r]}
     /\ txn' = [txn EXCEPT ![r].pc = "committed"]
     /\ UNCHANGED today

\* The handler raises after the number is drawn (create_or_refresh_bill checks
\* the discount after drawing the bill number), or the connection or the
\* process dies: the session closes without a commit.
Rollback(r) ==
  /\ txn[r].pc \in {"selecting", "inserting", "holding"}
  /\ txn' = [txn EXCEPT ![r].pc = "rolled_back"]
  /\ UNCHANGED <<today, counter, issued>>

Midnight ==
  /\ today < LastDay
  /\ today' = today + 1
  /\ UNCHANGED <<counter, txn, issued>>

Progress(r) ==
  \/ LockRow(r)
  \/ FindNoRow(r)
  \/ InsertRow(r)
  \/ InsertConflict(r)
  \/ CommitNumber(r)

CountersNext ==
  \/ \E r \in Request : Call(r) \/ Progress(r) \/ Rollback(r)
  \/ Midnight

CountersSpec == CountersInit /\ [][CountersNext]_counterVars

\* A transaction that can take its next step takes it: the event loop resumes
\* a handler whose statement returned. Calls, failures and midnight are free.
FairCountersSpec == CountersSpec /\ \A r \in Request : WF_counterVars(Progress(r))

-----------------------------------------------------------------------------
\* Two committed documents of one kind and day never carry the same number,
\* whatever requests overlap on the counter row (order_counters.py:12).
NoDuplicateNumbers ==
  \A a, b \in issued :
    (a.kind = b.kind /\ a.day = b.day /\ a.number = b.number) => a = b

\* Numbering has no gaps: a request that draws a number and then fails gives
\* it back, so the committed numbers of a day are exactly 1 up to the counter.
GapFree ==
  \A k \in Kind, d \in Day :
    {doc.number : doc \in {x \in issued : x.kind = k /\ x.day = d}}
      = 1 .. counter[k][d]

\* The serialisation the lock buys: at most one request holds a number of a
\* key, and it is the successor of the committed value.
HolderIsNext ==
  \A r \in Request : txn[r].pc = "holding" =>
    /\ txn[r].number = counter[txn[r].kind][txn[r].day] + 1
    /\ \A s \in Request : (txn[s].pc = "holding" /\ s # r) =>
         ~ OnKey(s, txn[r].kind, txn[r].day)

\* The first numbers of a day lose at most the requests that raced for them:
\* a request is rejected by the unique constraint only if some other request
\* of the same key was committed (order_counters.py:25).
ConflictHasWinner ==
  \A r \in Request : txn[r].pc = "conflict" =>
    \E doc \in issued :
      /\ doc.request # r
      /\ doc.kind = txn[r].kind
      /\ doc.day = txn[r].day
      /\ doc.number = 1

\* Waiting for a counter row always ends: no request is left blocked behind
\* the lock of another one.
EveryCallEnds ==
  \A r \in Request :
    txn[r].pc = "selecting" ~>
      txn[r].pc \in {"committed", "conflict", "rolled_back"}

\* The counters implement the abstract dispenser: documents are committed in
\* the order of their numbers, one successor at a time.
Dispenser == INSTANCE NumberDispenser WITH last <- counter
ImplementsDispenser == Dispenser!DispenserSpec
=============================================================================
