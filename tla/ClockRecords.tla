---------------------------- MODULE ClockRecords ----------------------------
(***************************************************************************)
(* One user's rows in one Content Node's database, and the pure parts of   *)
(* the operations on them: what an export contains, which imports the      *)
(* ClockRecord hook accepts, how new data records are numbered.            *)
(*                                                                         *)
(* A user is the CNodeUsers row (its clock, NoUser when there is no row)   *)
(* and the ClockRecords rows, each with the data row it numbers abstracted *)
(* to an Entry: Files, Tracks and AudiusUsers rows are always written in   *)
(* the transaction that writes their ClockRecord.                          *)
(***************************************************************************)
EXTENDS Integers, FiniteSetsExt

CONSTANT
    Entry,          \* contents of data rows (a file, track or metadata row)
    MaxExportRange  \* maxExportClockValueRange: clock values per export page

ASSUME MaxExportRangeAssumption == MaxExportRange \in Nat \ {0}

Record == [clock : Nat \ {0}, entry : Entry]

User == [clock : Nat \cup {-1}, records : SUBSET Record]

\* No CNodeUsers row; a lookup of its clock then answers -1.
NoUser == [clock |-> -1, records |-> {}]

\* The row POST /users creates.
FreshUser == [clock |-> 0, records |-> {}]

Clocks(R) == {r.clock : r \in R}

Entries(R) == {r.entry : r \in R}

\* ClockRecord.max('clock'): null, which the hooks treat like 0, without rows.
MaxClock(R) == IF R = {} THEN 0 ELSE Max(Clocks(R))

(***************************************************************************)
(* createNewDataRecord, once: the user's clock is incremented and the new  *)
(* row takes it. (cnodeUserUUID, clock) is the primary key of              *)
(* ClockRecords: the transaction fails when a row has that clock already.  *)
(***************************************************************************)
CanAppend(u) == u.clock >= 0 /\ u.clock + 1 \notin Clocks(u.records)

\* Variant: the new row takes the clock read before the increment.
AppendAtOldClock(u, e) ==
    [clock   |-> u.clock + 1,
     records |-> u.records \cup {[clock |-> u.clock, entry |-> e]}]

Append1(u, e) ==
    [clock   |-> u.clock + 1,
     records |-> u.records \cup {[clock |-> u.clock + 1, entry |-> e]}]

(***************************************************************************)
(* GET /export for the clock values min .. min + MaxExportRange - 1. The   *)
(* clock reported is capped to the requested range, so that it matches the *)
(* records of the page.                                                    *)
(***************************************************************************)
RangeMax(min) == min + MaxExportRange - 1

\* Variant: the clock is reported as it is.
ExportUncapped(u, min) ==
    [clock   |-> u.clock,
     records |-> {r \in u.records : r.clock \in min .. RangeMax(min)}]

Export(u, min) ==
    [clock   |-> Min({u.clock, RangeMax(min)}),
     records |-> {r \in u.records : r.clock \in min .. RangeMax(min)}]

(***************************************************************************)
(* The checks a secondary makes on an export before it opens the import    *)
(* transaction, local being its clock (-1 for none) when it asked.         *)
(***************************************************************************)
\* Variant: the clock of the export is not compared.
ImportOfAnyAge(x, local) == TRUE

ImportIsNewer(x, local) == x.clock > local

ImportIsContiguous(x, local) ==
    local # -1 /\ x.records # {} => Min(Clocks(x.records)) = local + 1

ImportIsConsistent(x) ==
    x.records # {} => Max(Clocks(x.records)) = x.clock

ValidImport(x, local) ==
    /\ ImportIsNewer(x, local)
    /\ ImportIsContiguous(x, local)
    /\ ImportIsConsistent(x)

(***************************************************************************)
(* ClockRecord.beforeBulkCreate: the first imported clock follows the      *)
(* local maximum (1 when there is none) and the rest follow one by one.    *)
(***************************************************************************)
HookAccepts(R, new) ==
    new # {} => Clocks(new) = MaxClock(R) + 1 .. Max(Clocks(new))

\* Variant: an existing row keeps its clock.
ImportKeepingClock(u, x) ==
    [clock |-> IF u = NoUser THEN x.clock ELSE u.clock,
     records |-> u.records \cup x.records]

\* The import transaction: upsert the CNodeUsers row, bulkCreate the rest.
Import(u, x) ==
    [clock |-> x.clock, records |-> u.records \cup x.records]

(***************************************************************************)
(* saveEntriesToDB: the exported entries the user does not have yet,       *)
(* appended in clock order by one createNewDataRecord each, so f gives     *)
(* every missing record its new local clock. A user with no row starts     *)
(* from a row with clock 0.                                                *)
(***************************************************************************)
\* Variants: entries are compared by clock value, or not at all.
MissingByClock(u, R) == {r \in R : r.clock \notin Clocks(u.records)}

MissingUnfiltered(u, R) == R

Missing(u, R) == {r \in R : r.entry \notin Entries(u.records)}

MergeBase(u) == IF u = NoUser THEN FreshUser ELSE u

Renumbering(new, first) ==
    {f \in Bijection(new, first .. first + Cardinality(new) - 1) :
        \A r, q \in new : r.clock < q.clock => f[r] < f[q]}

Merge(u, f) ==
    [clock   |-> u.clock + Cardinality(DOMAIN f),
     records |-> u.records \cup
                   {[clock |-> f[r], entry |-> r.entry] : r \in DOMAIN f}]
=============================================================================
