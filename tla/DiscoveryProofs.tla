---------------------------- MODULE DiscoveryProofs ----------------------------
(***************************************************************************)
(* Proofs about Discovery, for every number of repositories, every layout  *)
(* of groups, every page size and every number of changes and failures.    *)
(***************************************************************************)
EXTENDS Discovery, FiniteSetTheorems, TLAPS

\* The entries of listing L up to and including r: the newest come first.
UpTo(L, r) == {s \in L : s >= r}

(***************************************************************************)
(* The rank of a repository is a number between 1 and the length of the    *)
(* listing it is in.                                                       *)
(***************************************************************************)
LEMMA RankType ==
    ASSUME NEW L \in SUBSET Repo, NEW r
    PROVE  /\ IsFiniteSet(L) /\ Cardinality(L) \in Nat
           /\ Cardinality(L) <= Cardinality(Repo)
           /\ IsFiniteSet(UpTo(L, r)) /\ Cardinality(UpTo(L, r)) \in Nat
           /\ Cardinality(UpTo(L, r)) <= Cardinality(L)
           /\ r \in L => Cardinality(UpTo(L, r)) >= 1
<1>1. IsFiniteSet(L) /\ Cardinality(L) \in Nat /\ Cardinality(L) <= Cardinality(Repo)
  BY RepoAssumption, FS_Subset, FS_CardinalityType
<1>2. UpTo(L, r) \in SUBSET L
  BY DEF UpTo
<1>3. /\ IsFiniteSet(UpTo(L, r)) /\ Cardinality(UpTo(L, r)) \in Nat
      /\ Cardinality(UpTo(L, r)) <= Cardinality(L)
  BY <1>1, <1>2, FS_Subset, FS_CardinalityType
<1>4. ASSUME r \in L PROVE Cardinality(UpTo(L, r)) # 0
  <2>1. r \in UpTo(L, r)
    BY <1>4, RepoAssumption DEF UpTo
  <2> QED
    BY <1>3, <2>1, FS_EmptySet
<1> QED
  BY <1>1, <1>3, <1>4

(***************************************************************************)
(* No two repositories of a listing have the same rank.                    *)
(***************************************************************************)
LEMMA RankIsUnique ==
    ASSUME NEW L \in SUBSET Repo, NEW r \in L, NEW s \in L,
           Cardinality(UpTo(L, r)) = Cardinality(UpTo(L, s))
    PROVE  r = s
<1>1. ASSUME NEW a \in L, NEW b \in L, a < b
      PROVE  Cardinality(UpTo(L, a)) # Cardinality(UpTo(L, b))
  <2>0. \A c \in L : c \in Nat
    BY RepoAssumption
  <2>1. UpTo(L, b) \in SUBSET UpTo(L, a)
    BY <1>1, <2>0 DEF UpTo
  <2>2. a \in UpTo(L, a) /\ a \notin UpTo(L, b)
    BY <1>1, RepoAssumption DEF UpTo
  <2>3. IsFiniteSet(UpTo(L, a))
    BY RankType
  <2> QED
    BY <2>1, <2>2, <2>3, FS_Subset
<1>2. r \in Nat /\ s \in Nat
  BY RepoAssumption
<1> QED
  BY <1>1, <1>2

(***************************************************************************)
(* Entries that join a listing move nobody to the front.                   *)
(***************************************************************************)
LEMMA RankGrows ==
    ASSUME NEW M \in SUBSET Repo, NEW L \in SUBSET M, NEW r
    PROVE  Cardinality(UpTo(L, r)) <= Cardinality(UpTo(M, r))
<1>1. UpTo(L, r) \in SUBSET UpTo(M, r)
  BY DEF UpTo
<1> QED
  BY <1>1, RankType, FS_Subset

(***************************************************************************)
(* An entry that leaves a listing moves the others to the front by one at  *)
(* most.                                                                   *)
(***************************************************************************)
LEMMA RankShrinks ==
    ASSUME NEW L \in SUBSET Repo, NEW x, NEW r
    PROVE  Cardinality(UpTo(L, r)) - 1 <= Cardinality(UpTo(L \ {x}, r))
<1>1. UpTo(L \ {x}, r) = UpTo(L, r) \ {x}
  BY DEF UpTo
<1>2. IsFiniteSet(UpTo(L, r)) /\ Cardinality(UpTo(L, r)) \in Nat
  BY RankType
<1>3. Cardinality(UpTo(L, r) \ {x}) =
        IF x \in UpTo(L, r) THEN Cardinality(UpTo(L, r)) - 1 ELSE Cardinality(UpTo(L, r))
  BY <1>2, FS_RemoveElement
<1> QED
  BY <1>1, <1>2, <1>3

(***************************************************************************)
(* A repository that was there all along is in the listings of its groups. *)
(***************************************************************************)
LEMMA StableIsListed ==
    ASSUME DiscoveryInv, NEW g \in 1..Groups
    PROVE  /\ Listing(g) \in SUBSET Repo
           /\ \A r \in stable : r \in InGroup[g] => r \in Listing(g)
           /\ \A r : Rank(g, r) = Cardinality(UpTo(Listing(g), r))
  BY GroupAssumption DEF DiscoveryInv, TypeOK, Listing, Eligible, Rank, UpTo

(***************************************************************************)
(* What was missed is a finite set.                                        *)
(***************************************************************************)
LEMMA MissedType ==
    ASSUME NEW S \in SUBSET Repo
    PROVE  IsFiniteSet(S) /\ Cardinality(S) \in Nat
  BY RepoAssumption, FS_Subset, FS_CardinalityType

(***************************************************************************)
(* The job itself: a page that is read holds everything between its ends,  *)
(* so that reading on misses nothing new; the last page of a group ends    *)
(* behind its last entry (gitlab.go:288-319, github.go:194-220).           *)
(***************************************************************************)
LEMMA ListPageStep ==
    ASSUME DiscoveryInv, ListPage
    PROVE  /\ DiscoveryInv'
           /\ job' = "enqueue" => Cardinality((stable \ repos)') <= removals'
<1>0. TypeOK /\ group \in 1..Groups /\ page \in Nat /\ page >= 1 /\ PerPage \in Nat
      /\ PerPage >= 1 /\ Groups \in Nat /\ Cardinality(Repo) \in Nat
  BY PageAssumption, RepoAssumption, FS_CardinalityType DEF DiscoveryInv, TypeOK
<1> DEFINE L == Listing(group)
           end == page * PerPage
<1>1. /\ L \in SUBSET Repo /\ Cardinality(L) \in Nat /\ Cardinality(L) <= Cardinality(Repo)
      /\ \A r \in stable : r \in InGroup[group] => r \in L
      /\ \A r : Rank(group, r) = Cardinality(UpTo(L, r))
      /\ \A r : Rank(group, r) \in Nat /\ Rank(group, r) <= Cardinality(L)
  BY <1>0, StableIsListed, RankType
<1>2. end \in Nat /\ page <= end
  BY <1>0
<1>3. /\ UNCHANGED <<conf, exists, archived, changes, failures, stable, removals>>
      /\ repos' = repos \union (Page(group, page) \intersect Eligible)
      /\ repos' \subseteq Repo
  BY <1>0, <1>1 DEF ListPage, Page, TypeOK
<1>4. \A r \in stable : r \in InGroup[group] /\ r \notin repos' /\ Rank(group, r) <= end
        => r \in Missed
  <2> SUFFICES ASSUME NEW r \in stable, r \in InGroup[group], r \notin repos',
                      Rank(group, r) <= end
               PROVE  r \in Missed
    OBVIOUS
  <2>1. r \in L /\ r \in Eligible
    BY <1>1 DEF DiscoveryInv
  <2>2. r \notin Page(group, page) /\ r \notin repos
    BY <1>3, <2>1
  <2>3. ~((page - 1) * PerPage < Rank(group, r))
    BY <2>1, <2>2 DEF Page
  <2> QED
    BY <1>0, <1>1, <2>2, <2>3 DEF Missed
<1>5. \A r \in stable : \A g \in 1..Groups :
        g < group /\ r \in InGroup[g] /\ r \notin repos' => r \in Missed
  BY <1>3 DEF Missed
<1>6. ASSUME NEW S, S \subseteq Missed PROVE Cardinality(S) <= removals'
  <2>1. IsFiniteSet(Missed) /\ Cardinality(Missed) \in Nat
    BY <1>0, MissedType DEF Missed, TypeOK
  <2>2. Cardinality(S) <= Cardinality(Missed) /\ Cardinality(S) \in Nat
    BY <1>6, <2>1, FS_Subset, FS_CardinalityType
  <2>3. Cardinality(Missed) <= removals /\ removals \in Nat
    BY <1>0 DEF DiscoveryInv, ListPage, TypeOK
  <2> QED
    BY <1>3, <2>1, <2>2, <2>3
<1>7. (\A g, r : Rank(g, r)' = Rank(g, r)) /\ Eligible' = Eligible
  BY <1>3 DEF Rank, Listing, Eligible
<1>8. ASSUME job' \in {"idle", "list", "enqueue"}, group' \in 1..Groups,
             page' \in 1..(Cardinality(Repo) + 1)
      PROVE  TypeOK'
  BY <1>0, <1>3, <1>8 DEF TypeOK
<1>9. CASE NextPage(group, page) # 0
  <2>1. /\ Cardinality(L) > end /\ page' = page + 1 /\ UNCHANGED <<job, group>>
    BY <1>9 DEF ListPage, NextPage
  <2>2. page' \in 1..(Cardinality(Repo) + 1)
    BY <1>0, <1>1, <1>2, <2>1
  <2>3. TypeOK'
    BY <1>0, <1>8, <2>1, <2>2 DEF TypeOK
  <2>4. (page' - 1) * PerPage = end
    BY <1>0, <2>1
  <2>5. Missed' \subseteq Missed
    BY <1>3, <1>4, <1>5, <1>7, <2>1, <2>4 DEF Missed
  <2>6. Cardinality(Missed') <= removals'
    BY <1>6, <2>5
  <2> QED
    BY <1>3, <1>7, <2>1, <2>3, <2>6 DEF DiscoveryInv, ListPage
<1>10. CASE NextPage(group, page) = 0
  <2>1. Cardinality(L) <= end
    BY <1>0, <1>1, <1>2, <1>10 DEF NextPage
  <2>2. \A r \in stable : \A g \in 1..Groups :
          g <= group /\ r \in InGroup[g] /\ r \notin repos' => r \in Missed
    BY <1>0, <1>1, <1>2, <1>4, <1>5, <2>1
  <2>3. CASE group < Groups
    <3>1. group' = group + 1 /\ page' = 1 /\ UNCHANGED job
      BY <1>10, <2>3 DEF ListPage
    <3>2. group' \in 1..Groups /\ TypeOK'
      BY <1>0, <1>8, <2>3, <3>1 DEF TypeOK
    <3>3. \A r \in stable : r \in InGroup[group + 1] => ~(Rank(group + 1, r) <= 0)
      <4> SUFFICES ASSUME NEW r \in stable, r \in InGroup[group + 1]
                   PROVE  ~(Rank(group + 1, r) <= 0)
        OBVIOUS
      <4>1. group + 1 \in 1..Groups
        BY <3>1, <3>2
      <4>2. Rank(group + 1, r) >= 1 /\ Rank(group + 1, r) \in Nat
        BY <4>1, StableIsListed, RankType
      <4> QED
        BY <4>2
    <3>4. Missed' \subseteq Missed
      <4>1. (page' - 1) * PerPage = 0
        BY <1>0, <3>1
      <4>2. \A r : Rank(group, r)' = Rank(group + 1, r)
        BY <1>3, <3>1 DEF Rank, Listing, Eligible
      <4>3. \A r \in Missed' : \E g \in 1..Groups : g < group + 1 /\ r \in InGroup[g]
        BY <1>3, <3>1, <3>3, <4>1, <4>2 DEF Missed
      <4> QED
        BY <1>0, <1>3, <2>2, <4>3 DEF Missed
    <3>5. Cardinality(Missed') <= removals'
      BY <1>6, <3>4
    <3> QED
      BY <1>3, <1>7, <3>1, <3>2, <3>5 DEF DiscoveryInv, ListPage
  <2>4. CASE ~(group < Groups)
    <3>1. job' = "enqueue" /\ UNCHANGED <<group, page>>
      BY <1>10, <2>4 DEF ListPage
    <3>2. TypeOK'
      BY <1>0, <1>8, <3>1 DEF TypeOK
    <3>3. (stable \ repos)' \subseteq Missed
      BY <1>0, <1>3, <2>2, <2>4 DEF DiscoveryInv
    <3>4. Cardinality((stable \ repos)') <= removals'
      BY <1>6, <3>3
    <3> QED
      BY <1>3, <1>7, <3>1, <3>2, <3>4 DEF DiscoveryInv
  <2> QED
    BY <2>3, <2>4
<1> QED
  BY <1>9, <1>10

(***************************************************************************)
(* A change of the platform that takes at most x out of the listings: it   *)
(* moves at most one repository, the first of the page to be read next, to *)
(* a page that was read, and then a removal is counted.                    *)
(***************************************************************************)
LEMMA ChangeStep ==
    ASSUME DiscoveryInv, NEW x \in Repo, NEW es \in SUBSET Repo, NEW as \in SUBSET es,
           Change(es, as),
           \A g \in 1..Groups : Listing(g) \ Listing(g)' \subseteq {x}
    PROVE  DiscoveryInv'
<1>0. /\ TypeOK /\ group \in 1..Groups /\ page \in Nat /\ PerPage \in Nat /\ page >= 1
      /\ removals \in Nat /\ changes \in Nat /\ removals <= changes
      /\ MaxChanges \in Nat /\ changes < MaxChanges
  BY PageAssumption, BoundAssumption DEF DiscoveryInv, TypeOK, Change
<1>1. /\ UNCHANGED <<conf, job, group, page, repos, failures>>
      /\ exists' = es /\ archived' = as /\ changes' = changes + 1
      /\ stable' = stable \intersect Eligible'
  BY DEF Change
<1> DEFINE Out == UNION {Listing(g) \ Listing(g)' : g \in 1..Groups}
           L == Listing(group)
           start == (page - 1) * PerPage
<1>2. removals' = removals + Cardinality(Out)
  BY DEF Change
<1>3. Cardinality(Out) \in {0, 1} /\ (Out # {} => Cardinality(Out) = 1)
  <2>1. CASE Out = {}
    BY <2>1, FS_EmptySet
  <2>2. CASE Out # {}
    <3>1. Out = {x}
      BY <2>2
    <3>2. Cardinality({x}) = 1
      BY FS_Singleton
    <3> QED
      BY <2>2, <3>1, <3>2
  <2> QED
    BY <2>1, <2>2
<1>4. /\ removals' \in Nat /\ removals <= removals' /\ removals' <= changes'
      /\ Out # {} => removals' = removals + 1
  <2> HIDE DEF Out
  <2> QED
    BY <1>0, <1>1, <1>2, <1>3
<1> HIDE DEF Out
<1>5. TypeOK' /\ stable' \subseteq stable
  <2>1. changes' \in 0..MaxChanges /\ removals' \in 0..MaxChanges
    BY <1>0, <1>1, <1>4
  <2> QED
    BY <1>0, <1>1, <2>1 DEF TypeOK
<1>6. start \in Nat
  BY <1>0
<1>7. /\ L \in SUBSET Repo /\ L' \in SUBSET Repo /\ L \ {x} \subseteq L'
      /\ L \ L' # {} => Out # {}
      /\ \A r \in stable : r \in InGroup[group] => r \in L
  <2>1. L \in SUBSET Repo /\ \A r \in stable : r \in InGroup[group] => r \in L
    BY <1>0, StableIsListed
  <2>2. L' \in SUBSET Repo
    BY <1>0, <1>1, <1>5 DEF Listing, Eligible, TypeOK
  <2>3. \A g : g = group => L' = Listing(g)'
    BY <1>1 DEF Listing
  <2>4. L \ L' \subseteq {x}
    BY <1>0, <2>3
  <2>5. L \ L' # {} => Out # {}
    BY <1>0, <2>3 DEF Out
  <2> QED
    BY <2>1, <2>2, <2>4, <2>5
<1>8. \A r : /\ Rank(group, r) = Cardinality(UpTo(L, r))
             /\ Rank(group, r)' = Cardinality(UpTo(L', r))
  BY <1>1 DEF Rank, UpTo
<1> HIDE DEF L, start
<1>9. \A r : /\ Cardinality(UpTo(L, r)) \in Nat /\ Cardinality(UpTo(L', r)) \in Nat
             /\ Cardinality(UpTo(L, r)) - 1 <= Cardinality(UpTo(L', r))
             /\ Out = {} => Cardinality(UpTo(L, r)) <= Cardinality(UpTo(L', r))
  <2> SUFFICES ASSUME NEW r
               PROVE  /\ Cardinality(UpTo(L, r)) \in Nat /\ Cardinality(UpTo(L', r)) \in Nat
                      /\ Cardinality(UpTo(L, r)) - 1 <= Cardinality(UpTo(L', r))
                      /\ Out = {} => Cardinality(UpTo(L, r)) <= Cardinality(UpTo(L', r))
    OBVIOUS
  <2>1. Cardinality(UpTo(L, r)) \in Nat /\ Cardinality(UpTo(L', r)) \in Nat
    BY <1>7, RankType
  <2>2. L \ {x} \in SUBSET Repo /\ Cardinality(UpTo(L \ {x}, r)) \in Nat
    BY <1>7, RankType
  <2>3. Cardinality(UpTo(L, r)) - 1 <= Cardinality(UpTo(L \ {x}, r))
    BY <1>7, RankShrinks
  <2>4. Cardinality(UpTo(L \ {x}, r)) <= Cardinality(UpTo(L', r))
    BY <1>7, RankGrows
  <2>5. ASSUME Out = {} PROVE Cardinality(UpTo(L, r)) <= Cardinality(UpTo(L', r))
    <3>1. L \in SUBSET L'
      BY <1>7, <2>5
    <3> QED
      BY <1>7, <3>1, RankGrows
  <2> QED
    BY <2>1, <2>2, <2>3, <2>4, <2>5
<1> DEFINE Moved == {r \in L : Rank(group, r) = start + 1}
<1>10. Missed' \subseteq Missed \union IF Out = {} THEN {} ELSE Moved
  <2> SUFFICES ASSUME NEW r \in Missed', r \notin Missed PROVE Out # {} /\ r \in Moved
    OBVIOUS
  <2>1. /\ r \in stable \ repos /\ r \in InGroup[group] /\ r \in L
        /\ Rank(group, r)' <= start /\ ~(Rank(group, r) <= start)
    BY <1>1, <1>5, <1>7 DEF Missed, start
  <2>2. Out # {}
    BY <1>6, <1>8, <1>9, <2>1
  <2>3. Rank(group, r) = start + 1
    BY <1>6, <1>8, <1>9, <2>1
  <2> QED
    BY <2>1, <2>2, <2>3
<1>11. \A r, s \in Moved : r = s
  BY <1>7, <1>8, RankIsUnique
<1>12. ASSUME job = "list" PROVE Cardinality(Missed') <= removals'
  <2>1. /\ IsFiniteSet(Missed) /\ Cardinality(Missed) \in Nat /\ Cardinality(Missed) <= removals
        /\ IsFiniteSet(Missed') /\ Cardinality(Missed') \in Nat
    <3>1. Missed \in SUBSET Repo /\ Missed' \in SUBSET Repo
      BY <1>0, <1>5 DEF Missed, TypeOK
    <3> QED
      BY <1>12, <3>1, MissedType DEF DiscoveryInv
  <2>2. CASE Missed' \subseteq Missed
    <3>1. Cardinality(Missed') <= Cardinality(Missed)
      BY <2>1, <2>2, FS_Subset
    <3> QED
      BY <1>0, <1>4, <2>1, <3>1
  <2>3. CASE ~(Missed' \subseteq Missed)
    <3>1. PICK m \in Moved : Missed' \subseteq Missed \union {m}
      BY <1>10, <1>11, <2>3
    <3>2. Out # {}
      BY <1>10, <2>3
    <3>3. /\ IsFiniteSet(Missed \union {m})
          /\ Cardinality(Missed \union {m}) \in {Cardinality(Missed), Cardinality(Missed) + 1}
      BY <2>1, FS_AddElement
    <3>4. Cardinality(Missed') <= Cardinality(Missed \union {m})
      BY <3>1, <3>3, FS_Subset
    <3> QED
      BY <1>0, <1>4, <2>1, <3>2, <3>3, <3>4
  <2> QED
    BY <2>2, <2>3
<1> QED
  BY <1>1, <1>4, <1>5, <1>12 DEF DiscoveryInv

(***************************************************************************)
(* A repository that is created, deleted, archived or unarchived: at most  *)
(* it leaves the listings.                                                 *)
(***************************************************************************)
LEMMA PlatformStep ==
    ASSUME DiscoveryInv, PlatformChanges
    PROVE  DiscoveryInv'
<1>0. exists \subseteq Repo /\ archived \subseteq exists
  BY DEF DiscoveryInv, TypeOK
<1>1. ASSUME NEW r \in Repo, Created(r) PROVE DiscoveryInv'
  <2>1. \A g \in 1..Groups : Listing(g) \ Listing(g)' \subseteq {r}
    BY <1>1 DEF Created, Change, Listing, Eligible
  <2> QED
    BY <1>0, <1>1, <2>1, ChangeStep DEF Created
<1>2. ASSUME NEW r \in Repo, Deleted(r) PROVE DiscoveryInv'
  <2>1. \A g \in 1..Groups : Listing(g) \ Listing(g)' \subseteq {r}
    BY <1>2 DEF Deleted, Change, Listing, Eligible
  <2> QED
    BY <1>0, <1>2, <2>1, ChangeStep DEF Deleted
<1>3. ASSUME NEW r \in Repo, Archived(r) PROVE DiscoveryInv'
  <2>1. \A g \in 1..Groups : Listing(g) \ Listing(g)' \subseteq {r}
    BY <1>3 DEF Archived, Change, Listing, Eligible
  <2> QED
    BY <1>0, <1>3, <2>1, ChangeStep DEF Archived
<1>4. ASSUME NEW r \in Repo, Unarchived(r) PROVE DiscoveryInv'
  <2>1. \A g \in 1..Groups : Listing(g) \ Listing(g)' \subseteq {r}
    BY <1>4 DEF Unarchived, Change, Listing, Eligible
  <2> QED
    BY <1>0, <1>4, <2>1, ChangeStep DEF Unarchived
<1> QED
  BY <1>1, <1>2, <1>3, <1>4 DEF PlatformChanges

(***************************************************************************)
(* Every step of the job and of the platform keeps the count.              *)
(***************************************************************************)
LEMMA DiscoveryStep ==
    ASSUME DiscoveryInv, [Next]_vars
    PROVE  /\ DiscoveryInv'
           /\ job = "list" /\ job' = "enqueue" => Cardinality((stable \ repos)') <= removals'
<1>0. TypeOK
  BY DEF DiscoveryInv
<1>1. CASE ListPage
  BY <1>1, ListPageStep
<1>2. CASE PlatformChanges
  <2>1. job' = job
    BY <1>2 DEF PlatformChanges, Created, Deleted, Archived, Unarchived, Change
  <2> QED
    BY <1>2, <2>1, PlatformStep
<1>3. CASE Fire
  <2>1. /\ UNCHANGED <<conf, exists, archived, changes, failures>>
        /\ job' = "list" /\ group' = 1 /\ page' = 1 /\ repos' = {} /\ removals' = 0
        /\ stable' = Eligible \intersect UNION {InGroup[g] : g \in 1..Groups}
        /\ Eligible' = Eligible
    BY <1>3 DEF Fire, Eligible
  <2>2. Cardinality(Repo) \in Nat /\ Groups \in Nat /\ 1 <= Groups /\ 1 \in 1..Groups
        /\ PerPage \in Nat /\ changes \in Nat
    BY <1>0, RepoAssumption, PageAssumption, BoundAssumption, FS_CardinalityType DEF TypeOK
  <2>3. TypeOK'
    <3>1. page' \in 1..(Cardinality(Repo) + 1) /\ group' \in 1..Groups /\ removals' \in 0..MaxChanges
      BY <2>1, <2>2, BoundAssumption
    <3>2. stable' \subseteq Repo
      BY <1>0, <2>1 DEF TypeOK, Eligible
    <3> QED
      BY <1>0, <2>1, <3>1, <3>2 DEF TypeOK
  <2>4. Missed' = {}
    <3> SUFFICES ASSUME NEW r \in Missed' PROVE FALSE
      OBVIOUS
    <3>1. r \in InGroup[1] /\ Rank(group, r)' <= 0 /\ r \in Eligible
      BY <2>1, <2>2 DEF Missed
    <3>2. \A s : Rank(group, s)' = Cardinality(UpTo(Listing(1), s))
      BY <2>1 DEF Rank, UpTo, Listing, Eligible
    <3>3. Listing(1) \in SUBSET Repo /\ r \in Listing(1)
      BY <1>0, <2>2, <3>1, GroupAssumption DEF Listing, Eligible, TypeOK
    <3> QED
      BY <3>1, <3>2, <3>3, RankType
  <2>5. Cardinality(Missed') = 0
    BY <2>4, FS_EmptySet
  <2> QED
    BY <2>1, <2>2, <2>3, <2>5 DEF DiscoveryInv
<1>4. CASE ListFails \/ (\E r \in Repo : EnqueueNext(r)) \/ JobEnds
  <2>1. /\ UNCHANGED <<conf, exists, archived, group, page, changes, stable, removals>>
        /\ job' \in {"idle", "enqueue"} /\ repos' \subseteq repos
        /\ job = "list" => job' = "idle"
        /\ failures' \in 0..MaxFailures
    BY <1>0, <1>4, BoundAssumption DEF ListFails, EnqueueNext, JobEnds, TypeOK
  <2>2. TypeOK'
    BY <1>0, <2>1 DEF TypeOK
  <2> QED
    BY <2>1, <2>2 DEF DiscoveryInv, Eligible
<1>5. CASE UNCHANGED vars
  BY <1>5 DEF vars, DiscoveryInv, TypeOK, Eligible, Missed, Rank, Listing
<1> QED
  BY <1>1, <1>2, <1>3, <1>4, <1>5 DEF Next, JobStep

(***************************************************************************)
(* While a cron job lists, what it has passed without seeing is never more *)
(* than what has left the listings: for any layout of groups, any size of  *)
(* the pages and any changes of the platform.                              *)
(***************************************************************************)
THEOREM DiscoveryInvariance == Spec => []DiscoveryInv
<1>1. Init => DiscoveryInv
  <2> SUFFICES ASSUME Init PROVE DiscoveryInv
    OBVIOUS
  <2>1. TypeOK
    <3>1. 1 \in 1..Groups /\ 1 \in 1..(Cardinality(Repo) + 1) /\ 0 \in 0..MaxChanges
          /\ 0 \in 0..MaxFailures
      BY RepoAssumption, PageAssumption, BoundAssumption, FS_CardinalityType
    <3> QED
      BY <3>1 DEF Init, TypeOK
  <2> QED
    BY <2>1 DEF Init, DiscoveryInv
<1>2. DiscoveryInv /\ [Next]_vars => DiscoveryInv'
  BY DiscoveryStep
<1> QED
  BY <1>1, <1>2, PTL DEF Spec

(***************************************************************************)
(* The job asks for no page behind the last one there could be, finds only *)
(* repositories, and stays within its groups.                              *)
(***************************************************************************)
THEOREM DiscoveryTypeCorrect == Spec => []TypeOK
<1>1. DiscoveryInv => TypeOK
  BY DEF DiscoveryInv
<1> QED
  BY DiscoveryInvariance, <1>1, PTL

(***************************************************************************)
(* "DiscoverRepos lists all projects of the configured groups"             *)
(* (gitlab.go:288) up to what its offset pagination can miss: of the       *)
(* repositories that were there all along, no more than left the listings  *)
(* while they were read.                                                   *)
(***************************************************************************)
THEOREM MissesAreBounded == Spec => MissesBoundedByRemovals
<1>1. DiscoveryInv /\ [Next]_vars =>
        [job = "list" /\ job' = "enqueue" => Cardinality((stable \ repos)') <= removals']_vars
  BY DiscoveryStep
<1> QED
  BY DiscoveryInvariance, <1>1, PTL DEF Spec, MissesBoundedByRemovals
================================================================================
