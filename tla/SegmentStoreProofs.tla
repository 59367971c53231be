-------------------------- MODULE SegmentStoreProofs --------------------------
(***************************************************************************)
(* Proofs about module SegmentStore, for any documents, values and number  *)
(* of generations.                                                         *)
(***************************************************************************)
EXTENDS SegmentStore, TLAPS, NaturalsInduction, WellFoundedInduction, FiniteSetTheorems

-----------------------------------------------------------------------------
(* The inductive invariant.                                                *)

\* A merged segment is newer than the segments it replaces, and those are the only
\* others; a document that it does not name is deleted in them.
Covered ==
    /\ call.generation \in DOMAIN segments
    /\ call.old = DOMAIN segments \ {call.generation}
    /\ \A g \in call.old : g < call.generation
    /\ \A id \in Ids : id \notin DOMAIN segments[call.generation] =>
            Documents(segments)[id] = Deleted

\* What a call has done so far.
CallInv ==
    /\ call.pc = "written" => \A g \in DOMAIN segments : g < call.generation
    /\ call.op = "publish" => call.pc # "removing"
    /\ call.op = "publish" /\ call.pc = "renamed" =>
            \E d \in possible : Documents(segments) = Applied(d, call.records)
    /\ call.op = "compact" /\ call.pc = "written" =>
            call.records = Merged(segments) /\ call.old = DOMAIN segments
    /\ call.op = "compact" /\ call.pc # "written" => Covered

\* The records of every directory are of possible documents, readable or not.
LatestInv == \A dir \in images \union {segments} : Documents(dir) \in possible

StoreInv ==
    /\ TypeOK
    /\ LatestInv
    /\ call # Idle => CallInv

\* A directory that can be read hides none that cannot, and a compaction takes away
\* only what can be read.
ReadableInv ==
    /\ Listed(segments) => \A dir \in images : Listed(dir)
    /\ call # Idle /\ call.op = "compact" => \A g \in call.old : readSegment(g, segments[g])

-----------------------------------------------------------------------------
(* The newest record of a document.                                        *)

\* A set of naturals that is not empty has a least element.
LEMMA LeastNatural ==
    ASSUME NEW T, T \subseteq Nat, T # {}
    PROVE  \E x \in T : \A y \in T : x =< y
<1>1. PICK x \in T : \A y \in T : ~ (<<y, x>> \in OpToRel(<, Nat))
  BY WFMin, NatLessThanWellFounded
<1>2. \A y \in T : ~ (y < x)
  BY <1>1 DEF OpToRel
<1>3. ASSUME NEW y \in T PROVE x =< y
  <2>1. x \in Nat /\ y \in Nat
    OBVIOUS
  <2> QED
    BY <1>2, <2>1
<1> QED
  BY <1>3

\* The first and the last of some generations.
LEMMA Extremes ==
    ASSUME NEW S, S \subseteq Generations, S # {}
    PROVE  /\ Min(S) \in S /\ \A y \in S : Min(S) =< y
           /\ Max(S) \in S /\ \A y \in S : y =< Max(S)
<1>1. MaxGeneration \in Nat /\ \A s \in S : s \in Nat /\ s =< MaxGeneration
  BY StoreAssumption DEF Generations
<1>2. Min(S) \in S /\ \A y \in S : Min(S) =< y
  <2>1. \E x \in S : \A y \in S : x =< y
    BY <1>1, LeastNatural
  <2> QED
    BY <2>1 DEF Min
<1>3. Max(S) \in S /\ \A y \in S : y =< Max(S)
  <2> DEFINE T == {MaxGeneration - s : s \in S}
  <2>1. T \subseteq Nat /\ T # {}
    <3>1. \A s \in S : MaxGeneration - s \in Nat
      BY <1>1
    <3> QED
      BY <3>1
  <2>2. PICK t \in T : \A y \in T : t =< y
    BY <2>1, LeastNatural
  <2>3. PICK s \in S : t = MaxGeneration - s
    BY <2>2
  <2>4. ASSUME NEW y \in S PROVE s >= y
    <3>1. MaxGeneration - y \in T
      OBVIOUS
    <3>2. MaxGeneration - s =< MaxGeneration - y
      BY <2>2, <2>3, <3>1
    <3> QED
      BY <1>1, <3>2
  <2>5. \E x \in S : \A y \in S : x >= y
    BY <2>4
  <2>6. Max(S) \in S /\ \A y \in S : Max(S) >= y
    BY <2>5 DEF Max
  <2> QED
    BY <1>1, <2>6
<1> QED
  BY <1>2, <1>3

\* A directory is a function from some generations to records, and a segment one
\* from some documents to values and deletions.
LEMMA DirectoryIs ==
    ASSUME NEW dir \in Directory
    PROVE  /\ DOMAIN dir \subseteq Generations
           /\ \A g \in DOMAIN dir : dir[g] \in Records
           /\ \A g \in DOMAIN dir : DOMAIN dir[g] \subseteq Ids
           /\ \A g \in DOMAIN dir : \A id \in DOMAIN dir[g] : dir[g][id] \in Values \union {Deleted}
<1>1. PICK S \in SUBSET Generations : dir \in [S -> Records]
  BY DEF Directory
<1>2. ASSUME NEW r \in Records
      PROVE  DOMAIN r \subseteq Ids /\ \A id \in DOMAIN r : r[id] \in Values \union {Deleted}
  <2>1. PICK T \in SUBSET Ids : r \in [T -> Values \union {Deleted}]
    BY DEF Records
  <2> QED
    BY <2>1
<1> QED
  BY <1>1, <1>2

\* Documents reads the newest record.
LEMMA DocumentsAt ==
    ASSUME NEW dir \in Directory, NEW id \in Ids
    PROVE  /\ (\A k \in DOMAIN dir : id \notin DOMAIN dir[k]) => Documents(dir)[id] = Deleted
           /\ \A g \in DOMAIN dir :
                id \in DOMAIN dir[g] /\ (\A k \in DOMAIN dir : id \in DOMAIN dir[k] => k =< g) =>
                    Documents(dir)[id] = dir[g][id]
           /\ \/ \A k \in DOMAIN dir : id \notin DOMAIN dir[k]
              \/ \E g \in DOMAIN dir :
                    id \in DOMAIN dir[g] /\ \A k \in DOMAIN dir : id \in DOMAIN dir[k] => k =< g
<1> DEFINE with == {g \in DOMAIN dir : id \in DOMAIN dir[g]}
<1>1. Documents(dir)[id] = IF with = {} THEN Deleted ELSE dir[Max(with)][id]
  BY DEF Documents
<1>2. with \subseteq Generations /\ Generations \subseteq Nat
  BY DirectoryIs, StoreAssumption DEF Generations
<1>3. with # {} => Max(with) \in with /\ \A y \in with : y =< Max(with)
  BY <1>2, Extremes
<1>4. ASSUME NEW g \in with, \A k \in with : k =< g PROVE Max(with) = g
  <2>1. Max(with) \in Nat /\ g \in Nat /\ Max(with) =< g /\ g =< Max(with)
    BY <1>2, <1>3, <1>4
  <2> QED
    BY <2>1
<1> QED
  BY <1>1, <1>3, <1>4

LEMMA DocumentsTyped ==
    ASSUME NEW dir \in Directory
    PROVE  Documents(dir) \in [Ids -> Values \union {Deleted}]
<1>1. \A id \in Ids : Documents(dir)[id] \in Values \union {Deleted}
  BY DirectoryIs, DocumentsAt
<1>2. Documents(dir) = [id \in Ids |-> Documents(dir)[id]]
  BY DEF Documents
<1> QED
  BY <1>1, <1>2

-----------------------------------------------------------------------------
(* What an update of the directory does to the documents.                  *)

\* A directory with one more segment, and with one segment less.
With(dir, gen, records) ==
    [g \in DOMAIN dir \union {gen} |-> IF g = gen THEN records ELSE dir[g]]
Without(dir, gen) == [g \in DOMAIN dir \ {gen} |-> dir[g]]

LEMMA DirectoryFrom ==
    ASSUME NEW S \in SUBSET Generations, NEW f \in [S -> Records]
    PROVE  f \in Directory
  BY DEF Directory

LEMMA WithTyped ==
    ASSUME NEW dir \in Directory, NEW gen \in Generations, NEW records \in Records
    PROVE  With(dir, gen, records) \in Directory
<1>1. With(dir, gen, records) \in [DOMAIN dir \union {gen} -> Records]
  BY DirectoryIs DEF With
<1>2. DOMAIN dir \union {gen} \in SUBSET Generations
  BY DirectoryIs
<1> QED
  BY <1>1, <1>2, DirectoryFrom

LEMMA WithoutTyped ==
    ASSUME NEW dir \in Directory, NEW gen
    PROVE  Without(dir, gen) \in Directory
<1>1. Without(dir, gen) \in [DOMAIN dir \ {gen} -> Records]
  BY DirectoryIs DEF Without
<1>2. DOMAIN dir \ {gen} \in SUBSET Generations
  BY DirectoryIs
<1> QED
  BY <1>1, <1>2, DirectoryFrom

\* A segment newer than all others is a batch on top of them.
LEMMA NewestOnTop ==
    ASSUME NEW dir \in Directory, NEW gen \in Generations, NEW records \in Records,
           \A g \in DOMAIN dir : g < gen
    PROVE  Documents(With(dir, gen, records)) = Applied(Documents(dir), records)
<1> DEFINE new == With(dir, gen, records)
<1>1. new \in Directory
  BY WithTyped
<1>2. /\ DOMAIN new = DOMAIN dir \union {gen} /\ new[gen] = records
      /\ \A g \in DOMAIN dir : new[g] = dir[g] /\ g < gen /\ g # gen
  <2>1. \A g \in DOMAIN dir : g \in Nat /\ gen \in Nat
    BY DirectoryIs, StoreAssumption DEF Generations
  <2> QED
    BY <2>1 DEF With
<1> HIDE DEF new
<1>3. \A g \in DOMAIN new : g =< gen
  <2>1. \A g \in DOMAIN dir : g \in Nat
    BY DirectoryIs, StoreAssumption DEF Generations
  <2>2. gen \in Nat
    BY StoreAssumption DEF Generations
  <2> QED
    BY <1>2, <2>1, <2>2
<1>4. ASSUME NEW id \in Ids PROVE Documents(new)[id] = Applied(Documents(dir), records)[id]
  <2>1. CASE id \in DOMAIN records
    <3>1. Documents(new)[id] = records[id]
      BY <1>1, <1>2, <1>3, <2>1, DocumentsAt
    <3> QED
      BY <2>1, <3>1 DEF Applied
  <2>2. CASE id \notin DOMAIN records
    <3>1. Applied(Documents(dir), records)[id] = Documents(dir)[id]
      BY <2>2 DEF Applied
    <3>2. CASE \A k \in DOMAIN dir : id \notin DOMAIN dir[k]
      <4>1. \A k \in DOMAIN new : id \notin DOMAIN new[k]
        BY <1>2, <2>2, <3>2
      <4> QED
        BY <1>1, <3>1, <3>2, <4>1, DocumentsAt
    <3>3. ASSUME NEW g \in DOMAIN dir, id \in DOMAIN dir[g],
                 \A k \in DOMAIN dir : id \in DOMAIN dir[k] => k =< g
          PROVE  Documents(new)[id] = Documents(dir)[id]
      <4>1. Documents(dir)[id] = dir[g][id]
        BY <3>3, DocumentsAt
      <4>2. g \in DOMAIN new /\ id \in DOMAIN new[g] /\ new[g] = dir[g]
        BY <1>2, <3>3
      <4>3. \A k \in DOMAIN new : id \in DOMAIN new[k] => k =< g
        BY <1>2, <2>2, <3>3
      <4> QED
        BY <1>1, <4>1, <4>2, <4>3, DocumentsAt
    <3> QED
      BY <3>1, <3>2, <3>3, DocumentsAt
  <2> QED
    BY <2>1, <2>2
<1>5. Documents(new) \in [Ids -> Values \union {Deleted}]
  BY <1>1, DocumentsTyped
<1>6. Applied(Documents(dir), records) = [id \in Ids |-> Applied(Documents(dir), records)[id]]
  BY DEF Applied
<1>7. Documents(new) = Applied(Documents(dir), records)
  BY <1>4, <1>5, <1>6
<1> QED
  BY <1>7 DEF new

\* The merged segment, newest of all, changes no document.
LEMMA MergedOnTop ==
    ASSUME NEW dir \in Directory
    PROVE  /\ Merged(dir) \in Records
           /\ Applied(Documents(dir), Merged(dir)) = Documents(dir)
           /\ \A id \in Ids : id \notin DOMAIN Merged(dir) => Documents(dir)[id] = Deleted
<1>1. Documents(dir) \in [Ids -> Values \union {Deleted}]
  BY DocumentsTyped
<1> DEFINE S == {i \in Ids : Documents(dir)[i] # Deleted}
<1>2. Merged(dir) \in [S -> Values \union {Deleted}]
  BY <1>1 DEF Merged
<1>3. S \in SUBSET Ids
  OBVIOUS
<1>4. Merged(dir) \in Records
  BY <1>2, <1>3 DEF Records
<1>5. Applied(Documents(dir), Merged(dir)) = Documents(dir)
  <2>1. \A id \in Ids : Applied(Documents(dir), Merged(dir))[id] = Documents(dir)[id]
    BY DEF Applied, Merged
  <2>2. Applied(Documents(dir), Merged(dir)) = [id \in Ids |-> Applied(Documents(dir), Merged(dir))[id]]
    BY DEF Applied
  <2> QED
    BY <1>1, <2>1, <2>2
<1> QED
  BY <1>2, <1>4, <1>5

\* The oldest segment can go when its documents are in a newer one or are deleted.
LEMMA OldestRemoved ==
    ASSUME NEW dir \in Directory, NEW gen \in DOMAIN dir,
           \A k \in DOMAIN dir : gen =< k,
           \A id \in DOMAIN dir[gen] :
                \/ \E k \in DOMAIN dir : k # gen /\ id \in DOMAIN dir[k]
                \/ Documents(dir)[id] = Deleted
    PROVE  Documents(Without(dir, gen)) = Documents(dir)
<1> DEFINE new == Without(dir, gen)
<1>1. new \in Directory
  BY WithoutTyped
<1>2. DOMAIN new = DOMAIN dir \ {gen} /\ \A g \in DOMAIN new : new[g] = dir[g]
  BY DEF Without
<1> HIDE DEF new
<1>3. \A g \in DOMAIN dir : g \in Nat
  BY DirectoryIs, StoreAssumption DEF Generations
<1>4. ASSUME NEW id \in Ids PROVE Documents(new)[id] = Documents(dir)[id]
  <2>1. CASE \A k \in DOMAIN dir : id \notin DOMAIN dir[k]
    <3>1. \A k \in DOMAIN new : id \notin DOMAIN new[k]
      BY <1>2, <2>1
    <3> QED
      BY <1>1, <2>1, <3>1, DocumentsAt
  <2>2. ASSUME NEW g \in DOMAIN dir, id \in DOMAIN dir[g], g # gen,
               \A k \in DOMAIN dir : id \in DOMAIN dir[k] => k =< g
        PROVE  Documents(new)[id] = Documents(dir)[id]
    <3>1. Documents(dir)[id] = dir[g][id]
      BY <2>2, DocumentsAt
    <3>2. g \in DOMAIN new /\ id \in DOMAIN new[g] /\ new[g] = dir[g]
      BY <1>2, <2>2
    <3>3. \A k \in DOMAIN new : id \in DOMAIN new[k] => k =< g
      BY <1>2, <2>2
    <3> QED
      BY <1>1, <3>1, <3>2, <3>3, DocumentsAt
  <2>3. CASE id \in DOMAIN dir[gen] /\ \A k \in DOMAIN dir : id \in DOMAIN dir[k] => k =< gen
    <3>1. \A k \in DOMAIN dir : id \in DOMAIN dir[k] => k = gen
      BY <1>3, <2>3
    <3>2. Documents(dir)[id] = Deleted
      BY <2>3, <3>1
    <3>3. \A k \in DOMAIN new : id \notin DOMAIN new[k]
      BY <1>2, <3>1
    <3> QED
      BY <1>1, <3>2, <3>3, DocumentsAt
  <2> QED
    BY <2>1, <2>2, <2>3, DocumentsAt
<1>5. /\ Documents(new) \in [Ids -> Values \union {Deleted}]
      /\ Documents(dir) \in [Ids -> Values \union {Deleted}]
  BY <1>1, DocumentsTyped
<1>6. Documents(new) = Documents(dir)
  BY <1>4, <1>5
<1> QED
  BY <1>6 DEF new

-----------------------------------------------------------------------------
(* The updates as the steps make them.                                     *)

LEMMA RenameIs ==
    ASSUME NEW dir
    PROVE  Updated(dir, Rename) = With(dir, call.generation, call.records)
  BY DEF Updated, Rename, With

LEMMA RemovalIs ==
    ASSUME NEW dir, NEW g
    PROVE  Updated(dir, Removal(g)) = Without(dir, g)
  BY DEF Updated, Removal, Without

\* The next generation is newer than all there are, unless they are used up.
LEMMA NextIsNewest ==
    ASSUME NEW dir \in Directory, nextGeneration(dir) # 0
    PROVE  nextGeneration(dir) \in Generations /\ \A g \in DOMAIN dir : g < nextGeneration(dir)
<1>1. MaxGeneration \in Nat /\ MaxGeneration # 0 /\ DOMAIN dir \subseteq 1..MaxGeneration
  BY StoreAssumption, DirectoryIs DEF Generations
<1>2. CASE DOMAIN dir = {}
  BY <1>1, <1>2 DEF nextGeneration, Generations
<1>3. CASE DOMAIN dir # {}
  <2> DEFINE m == Max(DOMAIN dir)
  <2>1. m \in DOMAIN dir /\ \A y \in DOMAIN dir : y =< m
    BY <1>3, DirectoryIs, Extremes
  <2>2. nextGeneration(dir) = (m + 1) % (MaxGeneration + 1)
    BY <1>3 DEF nextGeneration
  <2>3. m \in 1..MaxGeneration
    BY <1>1, <2>1
  <2> HIDE DEF m
  <2>4. m # MaxGeneration
    <3>1. (MaxGeneration + 1) % (MaxGeneration + 1) = 0
      BY <1>1
    <3> QED
      BY <2>2, <3>1
  <2>5. (m + 1) % (MaxGeneration + 1) = m + 1
    BY <1>1, <2>3, <2>4
  <2>6. nextGeneration(dir) = m + 1 /\ m + 1 \in Generations
    BY <1>1, <2>2, <2>3, <2>4, <2>5 DEF Generations
  <2>7. \A g \in DOMAIN dir : g < m + 1
    BY <1>1, <2>1, <2>3
  <2> QED
    BY <2>6, <2>7
<1> QED
  BY <1>2, <1>3

-----------------------------------------------------------------------------
(* Types.                                                                  *)

LEMMA AppliedTyped ==
    ASSUME NEW d \in [Ids -> Values \union {Deleted}], NEW r \in Records
    PROVE  Applied(d, r) \in [Ids -> Values \union {Deleted}]
<1>1. PICK T \in SUBSET Ids : r \in [T -> Values \union {Deleted}]
  BY DEF Records
<1> QED
  BY <1>1 DEF Applied

LEMMA UpdateTyped ==
    ASSUME TypeOK, NEW u, Update(u),
           \A dir \in Directory : Updated(dir, u) \in Directory
    PROVE  segments' \in images' /\ images' \subseteq Directory
<1>1. segments \in Directory /\ segments \in images /\ images \subseteq Directory
  BY DEF TypeOK
<1> QED
  BY <1>1, StoreAssumption DEF Update

LEMMA TypeInit ==
    ASSUME Init PROVE TypeOK
<1>1. segments \in [{} -> Records]
  BY DEF Init
<1>2. segments \in Directory
  BY <1>1, DirectoryFrom
<1> QED
  BY <1>2 DEF Init, TypeOK

LEMMA TypeStep ==
    ASSUME TypeOK, [Next]_vars PROVE TypeOK'
<1> USE DEF TypeOK
<1>1. CASE UNCHANGED vars
  BY <1>1 DEF vars
<1>2. CASE NewStore
  BY <1>2 DEF NewStore
<1>3. ASSUME NEW op \in {"publish", "compact"}, NEW records \in Records,
             NEW old \in SUBSET Generations, Begin(op, records, old)
      PROVE  TypeOK'
  <2>1. nextGeneration(segments) \in Generations
    BY <1>3, NextIsNewest DEF Begin, writeSegment
  <2>2. call' \in Calls
    BY <1>3, <2>1 DEF Begin, Calls
  <2> QED
    BY <1>3, <2>2 DEF Begin
<1>4. ASSUME NEW batch \in Batches, Publish(batch) PROVE TypeOK'
  <2>1. batch \in Records
    BY DEF Batches
  <2> QED
    BY <1>3, <1>4, <2>1 DEF Publish
<1>5. CASE Compact
  <2>1. Merged(segments) \in Records /\ DOMAIN segments \in SUBSET Generations
    BY MergedOnTop, DirectoryIs
  <2> QED
    BY <1>3, <1>5, <2>1 DEF Compact
<1>6. CASE PublishFails
  BY <1>6 DEF PublishFails
<1>7. CASE Renames
  <2>1. call \in Calls /\ call.generation \in Generations /\ call.records \in Records
    BY <1>7 DEF Renames, Calls
  <2>2. segments' \in images' /\ images' \subseteq Directory
    BY <1>7, <2>1, RenameIs, WithTyped, UpdateTyped DEF Renames
  <2>3. call' \in Calls
    BY <1>7, <2>1 DEF Renames, Calls
  <2>4. possible' \subseteq [Ids -> Values \union {Deleted}]
    BY <1>7, <2>1, AppliedTyped DEF Renames
  <2> QED
    BY <1>7, <2>2, <2>3, <2>4 DEF Renames
<1>8. CASE PublishSyncs
  <2>1. call \in Calls /\ call.records \in Records
    BY <1>8 DEF PublishSyncs, Calls
  <2>2. call' \in {Idle} \union Calls
    BY <1>8, <2>1 DEF PublishSyncs, Calls
  <2>3. possible' \subseteq [Ids -> Values \union {Deleted}]
    BY <1>8, <2>1, AppliedTyped DEF PublishSyncs
  <2> QED
    BY <1>8, <2>2, <2>3 DEF PublishSyncs, Sync
<1>9. CASE Removes
  <2>1. call \in Calls
    BY <1>9 DEF Removes
  <2>2. segments' \in images' /\ images' \subseteq Directory
    BY <1>9, RemovalIs, WithoutTyped, UpdateTyped DEF Removes
  <2>3. call' \in Calls
    BY <1>9, <2>1 DEF Removes, Calls
  <2> QED
    BY <1>9, <2>2, <2>3 DEF Removes
<1>10. CASE CompactSyncs
  BY <1>10 DEF CompactSyncs, Sync
<1>11. CASE CallFails
  BY <1>11 DEF CallFails
<1>12. CASE ProcessEnds
  BY <1>12 DEF ProcessEnds
<1>13. CASE PowerLoss
  BY <1>13 DEF PowerLoss
<1> QED
  BY <1>1, <1>2, <1>4, <1>5, <1>6, <1>7, <1>8, <1>9, <1>10, <1>11, <1>12, <1>13 DEF Next

\* The types hold for ever, whatever order the file system keeps: no segment has
\* generation zero, and none a generation beyond the last.
THEOREM SegmentTypes == Spec => []TypeOK
  BY TypeInit, TypeStep, PTL DEF Spec

-----------------------------------------------------------------------------
(* The latest documents, if the file system orders directory updates.      *)

LEMMA OrderedUpdate ==
    ASSUME OrderedDirectory, TypeOK, LatestInv, NEW u, Update(u),
           possible \subseteq possible', Documents(Updated(segments, u)) \in possible'
    PROVE  LatestInv'
<1>1. images' = images \union {Updated(segments, u)} /\ segments' = Updated(segments, u)
  BY DEF Update
<1>2. \A dir \in images : Documents(dir) \in possible'
  BY DEF LatestInv
<1>3. \A dir \in images' \union {segments'} : Documents(dir) \in possible'
  BY <1>1, <1>2
<1> QED
  BY <1>3 DEF LatestInv

LEMMA AppliedTwice ==
    ASSUME NEW d, NEW r
    PROVE  Applied(Applied(d, r), r) = Applied(d, r)
  BY DEF Applied

\* The rename: a published batch goes on top of the documents, a merged segment
\* changes none.
LEMMA RenamesInv ==
    ASSUME OrderedDirectory, StoreInv, Renames
    PROVE  /\ LatestInv' /\ CallInv'
           /\ call.op = "compact" => Documents(segments') = Documents(segments)
<1>1. /\ TypeOK /\ LatestInv /\ CallInv /\ call \in Calls /\ call.pc = "written"
      /\ segments \in Directory
  BY DEF StoreInv, Renames, TypeOK
<1>2. call.generation \in Generations /\ call.records \in Records /\ call.op \in {"publish", "compact"}
  BY <1>1 DEF Calls
<1>3. segments' = With(segments, call.generation, call.records)
  BY RenameIs DEF Renames, Update
<1>4. Documents(segments') = Applied(Documents(segments), call.records)
  BY <1>1, <1>2, <1>3, NewestOnTop DEF CallInv
<1>5. /\ call'.pc = "renamed" /\ call'.op = call.op /\ call'.records = call.records
      /\ call'.generation = call.generation /\ call'.old = call.old
  BY <1>1 DEF Renames, Calls
<1>6. Documents(segments) \in possible
  BY <1>1 DEF LatestInv
<1>7. Updated(segments, Rename) = segments'
  BY DEF Renames, Update
<1>8. CASE call.op = "publish"
  <2>1. possible' = possible \union {Applied(d, call.records) : d \in possible}
    BY <1>8 DEF Renames
  <2>2. Documents(segments') \in possible' /\ possible \subseteq possible'
    BY <1>4, <1>6, <2>1
  <2>3. LatestInv'
    BY <1>1, <1>7, <2>2, OrderedUpdate DEF Renames
  <2>4. \E d \in possible' : Documents(segments') = Applied(d, call.records)
    BY <1>4, <1>6, <2>1
  <2>5. CallInv'
    BY <1>5, <1>8, <2>4 DEF CallInv
  <2> QED
    BY <1>8, <2>3, <2>5
<1>9. CASE call.op = "compact"
  <2>1. possible' = possible
    BY <1>9 DEF Renames
  <2>2. call.records = Merged(segments) /\ call.old = DOMAIN segments
    BY <1>1, <1>9 DEF CallInv
  <2>3. Documents(segments') = Documents(segments)
    BY <1>1, <1>4, <2>2, MergedOnTop
  <2>4. LatestInv'
    BY <1>1, <1>6, <1>7, <2>1, <2>3, OrderedUpdate DEF Renames
  <2>5. Covered'
    <3>1. /\ DOMAIN segments' = DOMAIN segments \union {call.generation}
          /\ segments'[call.generation] = call.records
      BY <1>3 DEF With
    <3>2. call.generation \notin DOMAIN segments /\ \A g \in DOMAIN segments : g < call.generation
      <4>1. \A g \in DOMAIN segments : g \in Nat /\ g < call.generation
        BY <1>1, DirectoryIs, StoreAssumption DEF CallInv, Generations
      <4> QED
        BY <4>1
    <3>3. \A id \in Ids : id \notin DOMAIN call.records => Documents(segments')[id] = Deleted
      BY <1>1, <2>2, <2>3, MergedOnTop
    <3> QED
      BY <1>5, <2>2, <3>1, <3>2, <3>3 DEF Covered
  <2>6. CallInv'
    BY <1>5, <1>9, <2>5 DEF CallInv
  <2> QED
    BY <2>3, <2>4, <2>6
<1> QED
  BY <1>2, <1>8, <1>9

\* A removal takes the oldest segment away, whose documents are in the merged one
\* or deleted.
LEMMA RemovesInv ==
    ASSUME OrderedDirectory, StoreInv, Removes
    PROVE  LatestInv' /\ CallInv' /\ Documents(segments') = Documents(segments)
<1>1. /\ TypeOK /\ LatestInv /\ CallInv /\ call \in Calls /\ call.pc = "removing"
      /\ segments \in Directory /\ call.old # {}
  BY DEF StoreInv, Removes, TypeOK
<1>2. call.op = "compact" /\ Covered
  BY <1>1 DEF CallInv, Calls
<1> DEFINE g == Min(call.old)
<1>3. g \in call.old /\ \A y \in call.old : g =< y
  BY <1>1, Extremes DEF Calls
<1>4. segments' = Without(segments, g) /\ Updated(segments, Removal(g)) = segments'
  BY RemovalIs DEF Removes, Update
<1>5. /\ call'.pc = call.pc /\ call'.op = call.op /\ call'.records = call.records
      /\ call'.generation = call.generation /\ call'.old = call.old \ {g}
  BY <1>1 DEF Removes, Calls
<1>6. possible' = possible /\ Update(Removal(g))
  BY DEF Removes
<1> HIDE DEF g
<1>7. Documents(segments') = Documents(segments)
  <2>1. g \in DOMAIN segments /\ g # call.generation /\ g < call.generation
    BY <1>2, <1>3 DEF Covered
  <2>2. \A k \in DOMAIN segments : k \in Nat
    BY <1>1, DirectoryIs, StoreAssumption DEF Generations
  <2>3. ASSUME NEW k \in DOMAIN segments PROVE g =< k
    <3>1. CASE k = call.generation
      BY <2>1, <2>2, <3>1
    <3>2. CASE k # call.generation
      BY <1>2, <1>3, <3>2 DEF Covered
    <3> QED
      BY <3>1, <3>2
  <2>4. ASSUME NEW id \in DOMAIN segments[g]
        PROVE  \/ \E k \in DOMAIN segments : k # g /\ id \in DOMAIN segments[k]
               \/ Documents(segments)[id] = Deleted
    <3>1. id \in Ids
      BY <1>1, <2>1, DirectoryIs
    <3> QED
      BY <1>2, <2>1, <3>1 DEF Covered
  <2> QED
    BY <1>1, <1>4, <2>1, <2>3, <2>4, OldestRemoved
<1>8. LatestInv'
  <2>1. Documents(segments) \in possible
    BY <1>1 DEF LatestInv
  <2> QED
    BY <1>1, <1>4, <1>6, <1>7, <2>1, OrderedUpdate
<1>9. Covered'
  <2>1. /\ DOMAIN segments' = DOMAIN segments \ {g}
        /\ \A k \in DOMAIN segments' : segments'[k] = segments[k]
    BY <1>4 DEF Without
  <2>2. g # call.generation
    BY <1>2, <1>3 DEF Covered
  <2> QED
    BY <1>2, <1>5, <1>7, <2>1, <2>2 DEF Covered
<1>10. CallInv'
  BY <1>1, <1>2, <1>5, <1>9 DEF CallInv
<1> QED
  BY <1>7, <1>8, <1>10

LEMMA StoreInit ==
    ASSUME Init PROVE StoreInv
<1>1. TypeOK /\ segments \in Directory
  BY TypeInit DEF TypeOK
<1>2. DOMAIN segments = {}
  BY DEF Init
<1>3. \A id \in Ids : Documents(segments)[id] = Deleted
  BY <1>1, <1>2, DocumentsAt
<1>4. Documents(segments) = [id \in Ids |-> Deleted]
  BY <1>1, <1>3, DocumentsTyped
<1>5. LatestInv
  BY <1>4 DEF Init, LatestInv
<1> QED
  BY <1>1, <1>5 DEF StoreInv, Init

LEMMA StoreStep ==
    ASSUME OrderedDirectory, StoreInv, [Next]_vars
    PROVE  StoreInv'
<1>0. TypeOK /\ TypeOK' /\ LatestInv /\ segments \in Directory
  BY TypeStep DEF StoreInv, TypeOK
<1>1. CASE UNCHANGED vars
  BY <1>0, <1>1 DEF vars, StoreInv, LatestInv, CallInv, Covered
<1>2. CASE NewStore
  BY <1>0, <1>2 DEF NewStore, StoreInv, LatestInv, CallInv, Covered
<1>3. ASSUME NEW op \in {"publish", "compact"}, NEW records, NEW old, Begin(op, records, old),
             op = "compact" => records = Merged(segments) /\ old = DOMAIN segments
      PROVE  StoreInv'
  <2>1. /\ call'.op = op /\ call'.pc = "written" /\ call'.records = records /\ call'.old = old
        /\ call'.generation = nextGeneration(segments)
        /\ nextGeneration(segments) # 0
        /\ UNCHANGED <<segments, images, running, possible>>
    BY <1>3 DEF Begin, writeSegment
  <2>2. \A g \in DOMAIN segments : g < nextGeneration(segments)
    BY <1>0, <2>1, NextIsNewest
  <2>3. LatestInv'
    BY <1>0, <2>1 DEF LatestInv
  <2>4. CallInv'
    BY <1>3, <2>1, <2>2 DEF CallInv
  <2> QED
    BY <1>0, <2>3, <2>4 DEF StoreInv
<1>4. ASSUME NEW batch \in Batches, Publish(batch) PROVE StoreInv'
  BY <1>3, <1>4 DEF Publish
<1>5. CASE Compact
  BY <1>3, <1>5 DEF Compact
<1>6. CASE PublishFails
  BY <1>0, <1>6 DEF PublishFails, StoreInv, LatestInv
<1>7. CASE Renames
  BY <1>0, <1>7, RenamesInv DEF StoreInv
<1>8. CASE PublishSyncs
  <2>1. /\ call \in Calls /\ CallInv /\ call.pc = "renamed" /\ call.op \in {"publish", "compact"}
        /\ images' = {segments} /\ segments' = segments
    BY <1>0, <1>8 DEF PublishSyncs, Sync, StoreInv, TypeOK, Calls
  <2>2. CASE call.op = "publish"
    <3>1. /\ possible' = {Applied(d, call.records) : d \in possible}
          /\ call' = Idle
      BY <1>8, <2>2 DEF PublishSyncs
    <3>2. Documents(segments) \in possible'
      BY <2>1, <2>2, <3>1 DEF CallInv
    <3>3. LatestInv'
      BY <2>1, <3>2 DEF LatestInv
    <3> QED
      BY <1>0, <3>1, <3>3 DEF StoreInv
  <2>3. CASE call.op = "compact"
    <3>1. possible' = possible /\ Covered
      BY <1>8, <2>1, <2>3 DEF PublishSyncs, CallInv
    <3>2. /\ call'.pc = "removing" /\ call'.op = "compact" /\ call'.records = call.records
          /\ call'.generation = call.generation /\ call'.old = call.old
      BY <1>8, <2>1, <2>3 DEF PublishSyncs, Calls
    <3>3. LatestInv'
      BY <1>0, <2>1, <3>1 DEF LatestInv
    <3>4. Covered'
      BY <2>1, <3>1, <3>2 DEF Covered
    <3> QED
      BY <1>0, <3>2, <3>3, <3>4 DEF StoreInv, CallInv
  <2> QED
    BY <2>1, <2>2, <2>3
<1>9. CASE Removes
  BY <1>0, <1>9, RemovesInv DEF StoreInv
<1>10. CASE CompactSyncs
  BY <1>0, <1>10 DEF CompactSyncs, Sync, StoreInv, LatestInv
<1>11. CASE CallFails
  BY <1>0, <1>11 DEF CallFails, StoreInv, LatestInv
<1>12. CASE ProcessEnds
  BY <1>0, <1>12 DEF ProcessEnds, StoreInv, LatestInv
<1>13. CASE PowerLoss
  BY <1>0, <1>13 DEF PowerLoss, StoreInv, LatestInv
<1> QED
  BY <1>1, <1>2, <1>4, <1>5, <1>6, <1>7, <1>8, <1>9, <1>10, <1>11, <1>12, <1>13 DEF Next

-----------------------------------------------------------------------------
(* What can be read.                                                       *)

\* One more segment leaves the others as they were.
LEMMA ListedWith ==
    ASSUME NEW dir \in Directory, NEW gen \in Generations, NEW records \in Records,
           gen \notin DOMAIN dir
    PROVE  Listed(With(dir, gen, records)) <=> Listed(dir) /\ decodePayload(records)
<1> DEFINE new == With(dir, gen, records)
<1>1. /\ DOMAIN new = DOMAIN dir \union {gen} /\ new[gen] = records
      /\ \A g \in DOMAIN dir : new[g] = dir[g]
  BY DEF With
<1>2. gen # 0
  BY StoreAssumption DEF Generations
<1> HIDE DEF new
<1>3. readSegment(gen, new[gen]) <=> decodePayload(records)
  BY <1>1, <1>2 DEF readSegment
<1>4. Listed(new) <=> Listed(dir) /\ decodePayload(records)
  BY <1>1, <1>3 DEF Listed
<1> QED
  BY <1>4 DEF new

\* One readable segment less makes nothing readable and nothing unreadable.
LEMMA ListedWithout ==
    ASSUME NEW dir \in Directory, NEW gen \in DOMAIN dir, readSegment(gen, dir[gen])
    PROVE  Listed(Without(dir, gen)) <=> Listed(dir)
<1>1. /\ DOMAIN Without(dir, gen) = DOMAIN dir \ {gen}
      /\ \A g \in DOMAIN dir \ {gen} : Without(dir, gen)[g] = dir[g]
  BY DEF Without
<1> QED
  BY <1>1 DEF Listed

\* An update after which the directory can be read only if it could before.
LEMMA ReadableUpdate ==
    ASSUME OrderedDirectory, ReadableInv, NEW u, Update(u), Listed(segments') => Listed(segments)
    PROVE  Listed(segments') => \A dir \in images' : Listed(dir)
<1>1. images' = images \union {segments'}
  BY DEF Update
<1> QED
  BY <1>1 DEF ReadableInv

\* A rename makes the directory unreadable, or leaves it as it was.
LEMMA RenamesListed ==
    ASSUME StoreInv, Renames
    PROVE  /\ Listed(segments') <=> Listed(segments) /\ decodePayload(call.records)
           /\ \A g \in DOMAIN segments : segments'[g] = segments[g]
<1>1. /\ CallInv /\ call \in Calls /\ call.pc = "written" /\ segments \in Directory
  BY DEF StoreInv, Renames, TypeOK
<1>2. call.generation \in Generations /\ call.records \in Records
  BY <1>1 DEF Calls
<1>3. segments' = With(segments, call.generation, call.records)
  BY RenameIs DEF Renames, Update
<1>4. \A g \in DOMAIN segments : g \in Nat /\ g < call.generation
  BY <1>1, DirectoryIs, StoreAssumption DEF CallInv, Generations
<1>5. call.generation \notin DOMAIN segments
  BY <1>4
<1> QED
  BY <1>1, <1>2, <1>3, <1>5, ListedWith DEF With

\* A removal changes nothing about that.
LEMMA RemovesListed ==
    ASSUME StoreInv, ReadableInv, Removes
    PROVE  /\ Listed(segments') <=> Listed(segments)
           /\ call'.op = call.op /\ call'.old \subseteq call.old
           /\ \A g \in call'.old : segments'[g] = segments[g]
<1>1. /\ CallInv /\ call \in Calls /\ call.pc = "removing" /\ segments \in Directory
      /\ call.old # {} /\ call # Idle
  BY DEF StoreInv, Removes, TypeOK
<1>2. call.op = "compact" /\ Covered
  BY <1>1 DEF CallInv, Calls
<1> DEFINE g == Min(call.old)
<1>3. g \in call.old
  BY <1>1, Extremes DEF Calls
<1>4. segments' = Without(segments, g)
  BY RemovalIs DEF Removes, Update
<1>5. call'.op = call.op /\ call'.old = call.old \ {g}
  BY <1>1 DEF Removes, Calls
<1> HIDE DEF g
<1>6. g \in DOMAIN segments /\ call.old \subseteq DOMAIN segments
  BY <1>2, <1>3 DEF Covered
<1>7. readSegment(g, segments[g])
  BY <1>1, <1>2, <1>3 DEF ReadableInv
<1>8. Listed(segments') <=> Listed(segments)
  BY <1>1, <1>4, <1>6, <1>7, ListedWithout
<1>9. \A k \in call.old \ {g} : segments'[k] = segments[k]
  BY <1>4, <1>6 DEF Without
<1> QED
  BY <1>5, <1>8, <1>9

LEMMA ReadableInit ==
    ASSUME Init PROVE ReadableInv
<1>1. images = {segments} /\ call = Idle
  BY DEF Init
<1> QED
  BY <1>1 DEF ReadableInv

LEMMA ReadableStep ==
    ASSUME OrderedDirectory, StoreInv, ReadableInv, [Next]_vars
    PROVE  ReadableInv'
<1>1. CASE UNCHANGED vars
  BY <1>1 DEF vars, ReadableInv, Listed
<1>2. CASE NewStore
  BY <1>2 DEF NewStore, ReadableInv, Listed
<1>3. ASSUME NEW op, NEW records, NEW old, Begin(op, records, old),
             op = "compact" => old = DOMAIN segments
      PROVE  ReadableInv'
  <2>1. /\ call'.op = op /\ call'.old = old
        /\ Listed(segments)
        /\ UNCHANGED <<segments, images>>
    BY <1>3 DEF Begin
  <2>2. op = "compact" => \A g \in old : readSegment(g, segments[g])
    BY <1>3, <2>1 DEF Listed
  <2> QED
    BY <2>1, <2>2 DEF ReadableInv, Listed
<1>4. ASSUME NEW batch \in Batches, Publish(batch) PROVE ReadableInv'
  BY <1>3, <1>4 DEF Publish
<1>5. CASE Compact
  BY <1>3, <1>5 DEF Compact
<1>6. CASE PublishFails
  BY <1>6 DEF PublishFails, ReadableInv, Listed
<1>7. CASE Renames
  <2>1. Listed(segments') => \A dir \in images' : Listed(dir)
    BY <1>7, RenamesListed, ReadableUpdate DEF Renames
  <2>2. call # Idle /\ call'.op = call.op /\ call'.old = call.old
    BY <1>7 DEF Renames, StoreInv, TypeOK, Calls
  <2>3. ASSUME call.op = "compact", NEW g \in call.old PROVE readSegment(g, segments'[g])
    <3>1. call.old = DOMAIN segments
      BY <1>7, <2>3 DEF Renames, StoreInv, CallInv
    <3>2. readSegment(g, segments[g])
      BY <2>2, <2>3 DEF ReadableInv
    <3> QED
      BY <1>7, <2>3, <3>1, <3>2, RenamesListed
  <2> QED
    BY <2>1, <2>2, <2>3 DEF ReadableInv, Listed
<1>8. CASE PublishSyncs
  <2>1. images' = {segments'} /\ segments' = segments
    BY <1>8 DEF PublishSyncs, Sync
  <2>2. \/ call' = Idle
        \/ call # Idle /\ call'.op = call.op /\ call'.old = call.old
    BY <1>8 DEF PublishSyncs, StoreInv, TypeOK, Calls
  <2> QED
    BY <2>1, <2>2 DEF ReadableInv, Listed
<1>9. CASE Removes
  <2>1. Listed(segments') => \A dir \in images' : Listed(dir)
    BY <1>9, RemovesListed, ReadableUpdate DEF Removes
  <2>2. call # Idle
    BY <1>9 DEF Removes
  <2>3. ASSUME call'.op = "compact", NEW g \in call'.old PROVE readSegment(g, segments'[g])
    BY <1>9, <2>2, <2>3, RemovesListed DEF ReadableInv
  <2> QED
    BY <2>1, <2>3 DEF ReadableInv, Listed
<1>10. CASE CompactSyncs
  BY <1>10 DEF CompactSyncs, Sync, ReadableInv, Listed
<1>11. CASE CallFails
  BY <1>11 DEF CallFails, ReadableInv, Listed
<1>12. CASE ProcessEnds
  BY <1>12 DEF ProcessEnds, ReadableInv, Listed
<1>13. CASE PowerLoss
  BY <1>13 DEF PowerLoss, ReadableInv, Listed
<1> QED
  BY <1>1, <1>2, <1>4, <1>5, <1>6, <1>7, <1>8, <1>9, <1>10, <1>11, <1>12, <1>13 DEF Next

\* What Documents returns, now and after a power loss, is what was acknowledged, and whole
\* batches of what was not, if the file system orders its directory updates: no
\* crash in the middle of Compact brings a deleted document back.  Documents may
\* fail instead; WithinLimits says when it does not.
THEOREM LatestDocuments == OrderedDirectory => (Spec => []DocumentsAreLatest)
<1> SUFFICES ASSUME OrderedDirectory PROVE Spec => []DocumentsAreLatest
  OBVIOUS
<1>1. Init => StoreInv
  BY StoreInit
<1>2. StoreInv /\ [Next]_vars => StoreInv'
  BY StoreStep
<1>3. StoreInv => DocumentsAreLatest
  BY DEF StoreInv, LatestInv, DocumentsAreLatest, Answer
<1> QED
  BY <1>1, <1>2, <1>3, PTL DEF Spec

\* Only the rename of a Publish changes what Documents returns, or a power loss that
\* undoes one, or the rename of a merged segment that cannot be read; any other
\* step of a compaction, a restart or an error never does.
THEOREM OnlyPublishChanges == OrderedDirectory => (Spec => OnlyPublishChangesDocuments)
<1> SUFFICES ASSUME OrderedDirectory PROVE Spec => OnlyPublishChangesDocuments
  OBVIOUS
<1> DEFINE Visible ==
        Answer(segments') # Answer(segments) =>
          \/ call # Idle /\ call.op = "publish" /\ call.pc = "written"
          \/ call # Idle /\ call.op = "compact" /\ call.pc = "written"
             /\ ~ decodePayload(call.records) /\ Answer(segments') = {}
          \/ PowerLoss /\ possible # Answer(segments)
<1> DEFINE Inv == StoreInv /\ ReadableInv
<1>1. Init => Inv
  BY StoreInit, ReadableInit
<1>2. Inv /\ [Next]_vars => Inv'
  BY StoreStep, ReadableStep
<1>3. ASSUME StoreInv, ReadableInv, [Next]_vars PROVE Visible \/ UNCHANGED vars
  <2>0. TypeOK /\ LatestInv
    BY <1>3 DEF StoreInv
  <2>1. CASE UNCHANGED <<segments>>
    BY <2>1
  <2>2. CASE Renames
    <3>1. call # Idle /\ call.pc = "written" /\ call.op \in {"publish", "compact"}
      BY <2>0, <2>2 DEF Renames, TypeOK, Calls
    <3>2. CASE call.op = "compact" /\ decodePayload(call.records)
      <4>1. Listed(segments') <=> Listed(segments)
        BY <1>3, <2>2, <3>2, RenamesListed
      <4>2. Documents(segments') = Documents(segments)
        BY <1>3, <2>2, <3>2, RenamesInv
      <4> QED
        BY <4>1, <4>2 DEF Answer
    <3>3. CASE call.op = "compact" /\ ~ decodePayload(call.records)
      <4>1. ~ Listed(segments')
        BY <1>3, <2>2, <3>3, RenamesListed
      <4>2. Answer(segments') = {}
        BY <4>1 DEF Answer
      <4> QED
        BY <3>1, <3>3, <4>2
    <3> QED
      BY <3>1, <3>2, <3>3
  <2>3. CASE Removes
    <3>1. Listed(segments') <=> Listed(segments)
      BY <1>3, <2>3, RemovesListed
    <3>2. Documents(segments') = Documents(segments)
      BY <1>3, <2>3, RemovesInv
    <3> QED
      BY <3>1, <3>2 DEF Answer
  <2>4. CASE PowerLoss
    <3>1. Documents(segments) \in possible /\ Documents(segments') \in possible
      BY <2>0, <2>4 DEF PowerLoss, LatestInv
    <3>2. CASE Listed(segments)
      <4>1. Listed(segments')
        BY <1>3, <2>4, <3>2 DEF PowerLoss, ReadableInv
      <4>2. Answer(segments) = {Documents(segments)} /\ Answer(segments') = {Documents(segments')}
        BY <3>2, <4>1 DEF Answer
      <4> QED
        BY <2>4, <3>1, <4>2
    <3>3. CASE ~ Listed(segments)
      <4>1. Answer(segments) = {}
        BY <3>3 DEF Answer
      <4> QED
        BY <2>4, <3>1, <4>1
    <3> QED
      BY <3>2, <3>3
  <2> QED
    BY <1>3, <2>1, <2>2, <2>3, <2>4
       DEF Next, vars, NewStore, Publish, Compact, Begin, PublishFails, PublishSyncs, Sync,
           CompactSyncs, CallFails, ProcessEnds
<1>4. Inv /\ [Next]_vars => [Visible]_vars
  BY <1>3
<1> QED
  BY <1>1, <1>2, <1>4, PTL DEF Spec, OnlyPublishChangesDocuments

-----------------------------------------------------------------------------
(* Within the limits of the decoder.                                       *)

\* If no string is too long and the documents there can be are not more than a segment
\* may hold, no segment is refused, so Documents never fails, nor do Publish and
\* Compact for that reason, whatever order the file system keeps.
THEOREM WithinLimits ==
    ASSUME TooLong = {}, IsFiniteSet(Ids), Cardinality(Ids) =< MaxRecordCount
    PROVE  Spec => []DocumentsReturns
<1>1. ASSUME NEW r \in Records PROVE decodePayload(r)
  <2>1. DOMAIN r \in SUBSET Ids
    BY DEF Records
  <2>2. IsFiniteSet(DOMAIN r) /\ Cardinality(DOMAIN r) =< Cardinality(Ids)
    BY <2>1, FS_Subset
  <2>3. Cardinality(DOMAIN r) \in Nat /\ Cardinality(Ids) \in Nat
    BY <2>2, FS_CardinalityType
  <2>4. Cardinality(DOMAIN r) =< MaxRecordCount
    BY <2>2, <2>3, StoreAssumption
  <2> QED
    BY <2>4 DEF decodePayload
<1>2. ASSUME NEW dir \in Directory PROVE Listed(dir)
  <2>1. \A g \in DOMAIN dir : dir[g] \in Records /\ g # 0
    BY DirectoryIs, StoreAssumption DEF Generations
  <2> QED
    BY <1>1, <2>1 DEF Listed, readSegment
<1>3. TypeOK => DocumentsReturns
  BY <1>2 DEF TypeOK, DocumentsReturns
<1> QED
  BY <1>3, SegmentTypes, PTL

=============================================================================
