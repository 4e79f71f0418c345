------------------------------ MODULE Registry ------------------------------
(***************************************************************************)
(* The table organizations as every job fills it: _get_or_create_org of    *)
(* jobs/run_preset.py, called inside the transactions of the listing, the  *)
(* details, the bids and the contracts, which run at the same time on      *)
(* PostgreSQL (READ COMMITTED).                                            *)
(***************************************************************************)
EXTENDS Naturals, FiniteSets

CONSTANTS
    Sessions,     \* transactions of the jobs
    Facts,        \* [bin, name] pairs the sources deliver
    NoBin, NoName,
    MaxRows,      \* bound: rows of the table
    MaxFacts,     \* bound: organisations of one transaction
    MaxTxns       \* bound: transactions of one session

ASSUME RegistryAssumption ==
    /\ \A f \in Facts : f.bin # NoName /\ (f.bin # NoBin \/ f.name # NoName)
    /\ {MaxRows, MaxFacts, MaxTxns} \subseteq Nat

RowIds == 1..MaxRows
NoRow == [bin |-> NoBin, name |-> NoName]    \* the id is not in use

VARIABLES
    orgs,         \* committed rows
    txn,          \* session -> the call under way and what it has written
    txns,         \* session -> transactions begun
    refs          \* committed attributions: a BIN and the row it was given

registryVars == <<orgs, txn, txns, refs>>

Bins == {f.bin : f \in Facts}
Names == {f.name : f \in Facts} \cup Bins
Records == [bin : Bins \cup {NoBin}, name : Names \cup {NoName}]
Closed == [at |-> "closed", fact |-> NoRow, row |-> 0, saw |-> NoBin,
           writes |-> [r \in RowIds |-> NoRow], refs |-> {}, facts |-> 0]

RegistryTypeOK ==
    /\ orgs \in [RowIds -> Records]
    /\ \A s \in Sessions :
        /\ txn[s].at \in {"closed", "open", "look", "missing", "again", "found"}
        /\ txn[s].row \in 0..MaxRows /\ txn[s].writes \in [RowIds -> Records]
    /\ refs \subseteq Bins \X RowIds

RegistryInit ==
    /\ orgs = [r \in RowIds |-> NoRow]
    /\ txn = [s \in Sessions |-> Closed] /\ txns = [s \in Sessions |-> 0]
    /\ refs = {}

(* What a session reads: its own writes over the committed rows. *)
Wrote(s, r) == txn[s].writes[r] # NoRow
View(s) == [r \in RowIds |-> IF Wrote(s, r) THEN txn[s].writes[r] ELSE orgs[r]]
InUse(r) == orgs[r] # NoRow \/ \E s \in Sessions : Wrote(s, r)

(* _find_org: by BIN, then by name, whatever BIN the row has. *)
ByBin(s, f) == IF f.bin = NoBin THEN {} ELSE {r \in RowIds : View(s)[r].bin = f.bin}
ByName(s, f) == IF f.name = NoName THEN {} ELSE {r \in RowIds : View(s)[r].name = f.name}
Found(s, f) == IF ByBin(s, f) # {} THEN ByBin(s, f) ELSE ByName(s, f)

(* The unique index on bin and the partial one on the name of rows without *)
(* BIN (uq_org_name_no_bin).                                               *)
Clash(x, y) ==
    \/ x.bin # NoBin /\ x.bin = y.bin
    \/ x.bin = NoBin /\ y.bin = NoBin /\ x.name = y.name /\ x.name # NoName

ClashesCommitted(s, r, x) == \E q \in RowIds \ {r} : Clash(x, View(s)[q])
ClashesPending(s, r, x) ==
    \E t \in Sessions \ {s}, q \in RowIds \ {r} : Wrote(t, q) /\ Clash(x, txn[t].writes[q])
Locked(s, r) == \E t \in Sessions \ {s} : Wrote(t, r)

(* The name its row gets: the BIN stands in for a missing one. *)
RowName(f) == IF f.name = NoName THEN f.bin ELSE f.name

OpenTxn(s) ==
    /\ txn[s].at = "closed" /\ txns[s] < MaxTxns
    /\ txn' = [txn EXCEPT ![s].at = "open"]
    /\ txns' = [txns EXCEPT ![s] = @ + 1]
    /\ UNCHANGED <<orgs, refs>>

(* _get_or_create_org is called for the next organisation of the batch. *)
CallFor(s) ==
    /\ txn[s].at = "open" /\ txn[s].facts < MaxFacts
    /\ \E f \in Facts :
        txn' = [txn EXCEPT ![s].at = "look", ![s].fact = f, ![s].facts = @ + 1]
    /\ UNCHANGED <<orgs, txns, refs>>

(* The lookup; the BIN the session has seen stays in its identity map. *)
Look(s) ==
    /\ txn[s].at \in {"look", "again"}
    /\ LET f == txn[s].fact
       IN  IF Found(s, f) # {}
           THEN \E r \in Found(s, f) :
                   txn' = [txn EXCEPT ![s].at = "found", ![s].row = r,
                                      ![s].saw = View(s)[r].bin]
           ELSE /\ txn[s].at = "look"
                /\ txn' = [txn EXCEPT ![s].at = "missing"]
    /\ UNCHANGED <<orgs, txns, refs>>

(* The insertion in a savepoint: it waits for a transaction that writes    *)
(* the same key, and takes the competitor's row after an IntegrityError.   *)
InsertOrg(s) ==
    /\ txn[s].at = "missing"
    /\ LET f == txn[s].fact
           x == [bin |-> f.bin, name |-> RowName(f)]
       IN  \E r \in RowIds :
             /\ ~InUse(r) /\ \A q \in RowIds : q < r => InUse(q)
             /\ ~ClashesPending(s, r, x)
             /\ IF ClashesCommitted(s, r, x)
                THEN txn' = [txn EXCEPT ![s].at = "again"]
                ELSE txn' = [txn EXCEPT ![s].at = "found", ![s].row = r,
                                        ![s].saw = x.bin, ![s].writes[r] = x]
    /\ UNCHANGED <<orgs, txns, refs>>

Attributed(s) == IF txn[s].fact.bin = NoBin THEN {} ELSE {<<txn[s].fact.bin, txn[s].row>>}

Rollback(s) ==
    txn' = [txn EXCEPT ![s] = Closed]

\* Mutant: a row found by its name keeps its BIN empty.
GiveOrgAsFound(s) ==
    /\ txn[s].at = "found"
    /\ txn' = [txn EXCEPT ![s].at = "open", ![s].refs = @ \cup Attributed(s)]
    /\ UNCHANGED <<orgs, txns, refs>>

(* A row without BIN takes the BIN of the fact, outside the savepoint: it  *)
(* waits for the row and for the key, and a clash ends the transaction.    *)
GiveOrg(s) ==
    /\ txn[s].at = "found"
    /\ LET r == txn[s].row
           x == [View(s)[r] EXCEPT !.bin = txn[s].fact.bin]
           done == [txn[s] EXCEPT !.at = "open", !.refs = @ \cup Attributed(s)]
       IN  IF txn[s].fact.bin = NoBin \/ txn[s].saw # NoBin
           THEN txn' = [txn EXCEPT ![s] = done]
           ELSE /\ ~Locked(s, r) /\ ~ClashesPending(s, r, x)
                /\ IF ClashesCommitted(s, r, x)
                   THEN Rollback(s)
                   ELSE txn' = [txn EXCEPT ![s] = [done EXCEPT !.writes[r] = x]]
    /\ UNCHANGED <<orgs, txns, refs>>

CommitTxn(s) ==
    /\ txn[s].at = "open"
    /\ orgs' = View(s)
    /\ refs' = refs \cup txn[s].refs
    /\ txn' = [txn EXCEPT ![s] = Closed]
    /\ UNCHANGED txns

(* OwsApiError, an error elsewhere in the transaction, a deadlock that     *)
(* PostgreSQL breaks, or a clash with no row to take.                      *)
AbortTxn(s) ==
    /\ txn[s].at \in {"open", "missing", "again", "found"}
    /\ Rollback(s)
    /\ UNCHANGED <<orgs, txns, refs>>

RegistryNext ==
    \E s \in Sessions : \/ OpenTxn(s) \/ CallFor(s) \/ Look(s) \/ InsertOrg(s)
                        \/ GiveOrg(s) \/ CommitTxn(s) \/ AbortTxn(s)

RegistrySpec == RegistryInit /\ [][RegistryNext]_registryVars

(* Whatever the transactions of the jobs interleave and roll back, a bid,  *)
(* a contract or a lot that was attributed by BIN points to the row of     *)
(* that BIN (run_preset.py:57-75), as long as no two BINs share a name:    *)
(* the lookup by name does not look at the BIN of the row it finds.        *)
NamesAreUnique ==
    \A f, g \in Facts : RowName(f) = RowName(g) => NoBin \in {f.bin, g.bin} \/ f.bin = g.bin

AttributionIsRight ==
    NamesAreUnique => \A p \in refs : orgs[p[2]].bin = p[1]
=============================================================================
