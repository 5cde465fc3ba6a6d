--------------------------- MODULE NumberDispenser ---------------------------
(***************************************************************************)
(* What the outlet's daily numbering promises to the rest of the           *)
(* application: for each (kind, day) the committed documents carry the      *)
(* numbers 1, 2, 3, ... one after the other, each given to one request.    *)
(* There are no locks, failed requests or half-done transactions here;     *)
(* OutletCounters is shown to implement this module.                       *)
(***************************************************************************)
EXTENDS Naturals

CONSTANTS Request,   \* HTTP requests, each of which numbers at most one document
          Kind,      \* the counters: orders, KOTs, bills, invoices
          Day        \* calendar days

VARIABLES last,      \* last[k][d]: the newest number of kind k on day d
          issued     \* the committed documents

dispenserVars == <<last, issued>>

DispenserInit ==
  /\ last = [k \in Kind |-> [d \in Day |-> 0]]
  /\ issued = {}

\* A request that has no document yet gets the successor of the newest number.
Issue(r, k, d) ==
  /\ \A doc \in issued : doc.request # r
  /\ last' = [last EXCEPT ![k][d] = @ + 1]
  /\ issued' = issued \cup
       {[kind |-> k, day |-> d, number |-> last[k][d] + 1, request |-> r]}

DispenserNext == \E r \in Request, k \in Kind, d \in Day : Issue(r, k, d)

DispenserSpec == DispenserInit /\ [][DispenserNext]_dispenserVars
=============================================================================
