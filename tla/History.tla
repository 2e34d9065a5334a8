-------------------------------- MODULE History --------------------------------
(***************************************************************************)
(* The ring buffer of finished runs behind GET /api/v1/runs                *)
(* (internal/history).  Record and Entries hold the mutex for the whole    *)
(* call.  The zero Entry that make() fills the slice with is NoEntry.      *)
(***************************************************************************)
EXTENDS Integers, Sequences

CONSTANTS
    Entry,       \* what finish records about a run
    NoEntry,     \* a slot that was never written
    Size,        \* server.historySize as configured, after applyDefaults
    MaxRecords   \* bound on the runs that finish

ASSUME SizeAssumption == Size \in Int
ASSUME MaxRecordsAssumption == MaxRecords \in Nat
ASSUME EntryAssumption == NoEntry \notin Entry

VARIABLES
    entries,   \* the slots, indexed from 0
    idx,       \* next write position
    filled,    \* every slot has been written
    log        \* history variable: everything ever recorded, oldest first

vars == <<entries, idx, filled, log>>

\* New: a size that is not positive means 100.
Len_entries == IF Size <= 0 THEN 100 ELSE Size

Slot == 0..(Len_entries - 1)

Init ==
    /\ entries = [i \in Slot |-> NoEntry]
    /\ idx = 0
    /\ filled = FALSE
    /\ log = <<>>

\* Mutation: the write position wraps one slot late.
RecordWrapsLate(e) ==
    /\ Len(log) < MaxRecords
    /\ entries' = [entries EXCEPT ![idx] = e]
    /\ idx' = IF idx = Len_entries THEN 0 ELSE idx + 1
    /\ filled' = (filled \/ idx = Len_entries)
    /\ log' = Append(log, e)

\* Record: overwrite the oldest slot, move on, wrap around.
Record(e) ==
    /\ Len(log) < MaxRecords
    /\ entries' = [entries EXCEPT ![idx] = e]
    /\ idx' = IF idx + 1 = Len_entries THEN 0 ELSE idx + 1
    /\ filled' = (filled \/ idx + 1 = Len_entries)
    /\ log' = Append(log, e)

Next == \E e \in Entry : Record(e)

Spec == Init /\ [][Next]_vars

\* How many entries there are to show.
Count == IF filled THEN Len_entries ELSE idx

\* Mutation: reading begins at the write position itself.
EntriesOffByOne == [i \in 1..Count |-> entries[(idx - i + 1 + Len_entries) % Len_entries]]

\* Entries: from the slot before the write position backwards, around the ring.
Entries == [i \in 1..Count |-> entries[(idx - i + Len_entries) % Len_entries]]

------------------------------------------------------------------------------
(***************************************************************************)
(* Properties.                                                             *)
(***************************************************************************)
\* The write position of Record stays inside the slice.
TypeOK ==
    /\ entries \in [Slot -> Entry \union {NoEntry}]
    /\ idx \in Slot
    /\ filled \in BOOLEAN
    /\ log \in Seq(Entry)

(***************************************************************************)
(* "a fixed-size ring buffer ... When full, the oldest entry is            *)
(* overwritten" (history.go:21-22), "all recorded entries, newest first"   *)
(* (history.go:50): before, at and after every wrap-around, Entries is the *)
(* newest Len_entries records, newest first, and never an unwritten slot.  *)
(***************************************************************************)
NewestFirst ==
    /\ Count = IF Len(log) < Len_entries THEN Len(log) ELSE Len_entries
    /\ \A i \in 1..Count : Entries[i] = log[Len(log) + 1 - i]
================================================================================
