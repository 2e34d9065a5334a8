---------------------------- MODULE HistoryProofs ----------------------------
(***************************************************************************)
(* The run history shows the newest records, newest first, for every size  *)
(* and after any number of wrap-arounds.                                   *)
(***************************************************************************)
EXTENDS History, TLAPS

(***************************************************************************)
(* New makes at least one slot, whatever size is configured.               *)
(***************************************************************************)
LEMMA LenPositive == Len_entries \in Nat /\ Len_entries > 0
  BY SizeAssumption DEF Len_entries

(***************************************************************************)
(* The remainder of a number below twice the divisor.                      *)
(***************************************************************************)
LEMMA ModBelow ==
  ASSUME NEW n \in Nat, n > 0, NEW k \in 0..(n - 1)
  PROVE  k % n = k /\ (k + n) % n = k
  OBVIOUS

(***************************************************************************)
(* The slot that the index arithmetic of Entries reads: i positions before *)
(* the write position, counted around the ring.                            *)
(***************************************************************************)
LEMMA SlotBefore ==
  ASSUME NEW j \in Slot, NEW i \in 1..Len_entries
  PROVE  (j - i + Len_entries) % Len_entries =
           IF i <= j THEN j - i ELSE j - i + Len_entries
<1>1. CASE i <= j
  <2>1. j - i \in 0..(Len_entries - 1)
    BY <1>1, LenPositive DEF Slot
  <2>2. ((j - i) + Len_entries) % Len_entries = j - i
    BY <2>1, LenPositive, ModBelow
  <2> QED BY <1>1, <2>2
<1>2. CASE i > j
  <2>1. j - i + Len_entries \in 0..(Len_entries - 1)
    BY <1>2, LenPositive DEF Slot
  <2>2. (j - i + Len_entries) % Len_entries = j - i + Len_entries
    BY <2>1, LenPositive, ModBelow
  <2> QED BY <1>2, <2>2, LenPositive DEF Slot
<1> QED BY <1>1, <1>2, LenPositive DEF Slot

(***************************************************************************)
(* The write position stays inside the slice that New made, and what is    *)
(* recorded ends up in it.                                                 *)
(***************************************************************************)
THEOREM HistoryTypeCorrect == Spec => []TypeOK
<1>1. Init => TypeOK
  BY LenPositive DEF Init, TypeOK, Slot
<1>2. TypeOK /\ [Next]_vars => TypeOK'
  <2> SUFFICES ASSUME TypeOK, [Next]_vars PROVE TypeOK'
    OBVIOUS
  <2>1. ASSUME NEW e \in Entry, Record(e) PROVE TypeOK'
    <3>1. entries' \in [Slot -> Entry \union {NoEntry}]
      BY <2>1 DEF TypeOK, Record
    <3>2. idx' \in Slot
      BY <2>1, LenPositive DEF TypeOK, Record, Slot
    <3>3. filled' \in BOOLEAN /\ log' \in Seq(Entry)
      BY <2>1 DEF TypeOK, Record
    <3> QED BY <3>1, <3>2, <3>3 DEF TypeOK
  <2>2. CASE UNCHANGED vars
    BY <2>2 DEF TypeOK, vars
  <2> QED BY <2>1, <2>2 DEF Next
<1> QED BY <1>1, <1>2, PTL DEF Spec

(***************************************************************************)
(* GET /api/v1/runs shows the last runs, newest first: the arithmetic of   *)
(* Record and Entries agrees at every fill level and position of the ring. *)
(***************************************************************************)
THEOREM HistoryNewestFirst == Spec => []NewestFirst
<1>1. Init => NewestFirst
  BY LenPositive DEF Init, NewestFirst, Count
<1>2. TypeOK /\ NewestFirst /\ [Next]_vars => NewestFirst'
  <2> SUFFICES ASSUME TypeOK, NewestFirst, [Next]_vars PROVE NewestFirst'
    OBVIOUS
  <2>1. ASSUME NEW e \in Entry, Record(e) PROVE NewestFirst'
    <3> DEFINE N == Len_entries
    <3>1. N \in Nat /\ N > 0 /\ idx \in 0..(N - 1) /\ idx' \in 0..(N - 1) /\ Len(log) \in Nat
      BY <2>1, LenPositive DEF TypeOK, Record, Slot
    <3>2. Len(log') = Len(log) + 1 /\ log'[Len(log) + 1] = e
          /\ \A k \in 1..Len(log) : log'[k] = log[k]
      BY <2>1 DEF TypeOK, Record
    <3>3. Count' = IF Len(log') < N THEN Len(log') ELSE N
      <4>1. CASE filled
        <5>1. filled' BY <2>1, <4>1 DEF Record
        <5>2. Count = N /\ Count' = N BY <4>1, <5>1 DEF Count
        <5> QED BY <3>1, <3>2, <5>2 DEF NewestFirst
      <4>2. CASE ~filled /\ idx + 1 = N
        <5>1. filled' BY <2>1, <4>2 DEF Record
        <5>2. Count = idx /\ Count' = N BY <4>2, <5>1 DEF Count
        <5> QED BY <3>1, <3>2, <4>2, <5>2 DEF NewestFirst
      <4>3. CASE ~filled /\ idx + 1 # N
        <5>1. ~filled' /\ idx' = idx + 1 BY <2>1, <4>3 DEF Record
        <5>2. Count = idx /\ Count' = idx + 1 BY <4>3, <5>1 DEF Count
        <5> QED BY <3>1, <3>2, <4>3, <5>2 DEF NewestFirst
      <4> QED BY <4>1, <4>2, <4>3
    <3>4. ASSUME NEW i \in 1..Count' PROVE Entries'[i] = log'[Len(log') + 1 - i]
      <4>1. i \in 1..N /\ Entries'[i] = entries'[(idx' - i + N) % N]
        BY <3>1, <3>2, <3>3, <3>4 DEF Entries
      <4>2. (idx' - i + N) % N = IF i <= idx' THEN idx' - i ELSE idx' - i + N
        BY <3>1, <4>1, SlotBefore DEF Slot
      <4>3. CASE i = 1
        <5>1. (idx' - i + N) % N = idx
          BY <2>1, <3>1, <4>2, <4>3 DEF Record
        <5> QED BY <2>1, <3>1, <3>2, <4>1, <4>3, <5>1 DEF Record, TypeOK, Slot
      <4>4. CASE i > 1
        <5> DEFINE k == i - 1
        <5>1. k \in 1..Count /\ k \in 1..(N - 1) /\ k <= Len(log)
          BY <2>1, <3>1, <3>2, <3>3, <4>1, <4>4 DEF NewestFirst, Record, Count
        <5>2. (idx - k + N) % N = IF k <= idx THEN idx - k ELSE idx - k + N
          BY <3>1, <5>1, SlotBefore DEF Slot
        <5>3. (idx' - i + N) % N = (idx - k + N) % N /\ (idx - k + N) % N \in Slot \ {idx}
          BY <2>1, <3>1, <4>1, <4>2, <4>4, <5>1, <5>2 DEF Record, Slot
        <5>4. Entries[k] = entries[(idx - k + N) % N] /\ Entries[k] = log[Len(log) + 1 - k]
          BY <5>1 DEF Entries, NewestFirst
        <5>5. entries'[(idx' - i + N) % N] = entries[(idx - k + N) % N]
          BY <2>1, <5>3 DEF Record, TypeOK
        <5>6. log'[Len(log') + 1 - i] = log[Len(log) + 1 - k]
          BY <3>1, <3>2, <5>1
        <5> QED BY <4>1, <5>4, <5>5, <5>6
      <4> QED BY <4>1, <4>3, <4>4
    <3> QED BY <3>3, <3>4 DEF NewestFirst
  <2>2. CASE UNCHANGED vars
    BY <2>2 DEF NewestFirst, Count, Entries, vars
  <2> QED BY <2>1, <2>2 DEF Next
<1> QED BY <1>1, <1>2, HistoryTypeCorrect, PTL DEF Spec
==============================================================================
