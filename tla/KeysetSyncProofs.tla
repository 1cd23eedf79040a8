--------------------------- MODULE KeysetSyncProofs ---------------------------
(***************************************************************************)
(* The keyset list for any number of keysets, any cap and any order in     *)
(* which the mint lists them: types, the keysets of held proofs are in     *)
(* flash at every moment of a save, and the cap prefers them.              *)
(***************************************************************************)
EXTENDS KeysetSync, FiniteSetTheorems, SequenceTheorems, WellFoundedInduction, TLAPS

-------------------------------------------------------------------------------
(* The inductive invariant *)

Items == 1 .. MaxKeysets
Written(i) == nvs.items[i] # NoBlob

\* A row per keyset.
RowsOK ==
    /\ IsFiniteSet(infos)
    /\ \A r, q \in infos : r.id = q.id => r = q

\* The items in flash have no gap, and the older format has none.
ItemsOK ==
    /\ \A i, j \in Items : Written(i) /\ j < i => Written(j)
    /\ nvs.legacy \in LegacyLists \cup {<<>>}
    /\ nvs.legacy # <<>> =>
        /\ nvs.count = 0
        /\ \A i \in Items : ~Written(i)
        /\ stage \notin {"counting", "writing"}

\* A save has written the keysets whose place it has passed.
SaveOK ==
    stage = "writing" =>
        /\ nvs.count = Saved
        /\ at \in 1 .. Saved + 1
        /\ \A j \in Items : j < at => Written(j)
        /\ \A i \in DOMAIN keysets : Place(i) < at => nvs.items[Place(i)] = keysets[i]

\* While flash lacks nothing, a keyset has the same place in flash and in RAM, so
\* that a save overwrites each item with the terms of the same keyset.
InPlace ==
    /\ \A i \in Items : Written(i) => i <= nvs.count
    /\ \A i, j \in Items :
        Written(i) /\ Written(j) /\ nvs.items[i].id = nvs.items[j].id => i = j
    /\ stage # "off" /\ nvs.legacy = <<>> =>
        \A i \in Items : Written(i) => i <= Len(keysets) /\ nvs.items[i].id = keysets[i].id

\* Then what RAM lists between two saves is in flash, and what is held always is.
Listed ==
    /\ stage \in {"idle", "infos"} => IdsOf(keysets) \subseteq StoredIds
    /\ stage \in {"counting", "writing"} => Len(keysets) <= MaxKeysets
    /\ held \subseteq StoredIds

KeysetInv ==
    /\ TypeOK
    /\ RowsOK
    /\ ItemsOK
    /\ SaveOK
    /\ ~short => InPlace /\ Listed

-------------------------------------------------------------------------------
(* Places *)

LEMMA ConstantTypes ==
    /\ MaxKeysets \in Nat /\ MaxKeysets > 0 /\ MaxKeysets <= 255
    /\ NoBlob \notin Keyset
    /\ \A k \in Keyset : k.id \in Ids
<1>1. MaxKeysets \in Nat /\ MaxKeysets > 0 /\ MaxKeysets <= 255
  BY KeysetAssumption
<1>2. ASSUME NoBlob \in Keyset
      PROVE  FALSE
  <2>1. DOMAIN NoBlob = {"id", "active", "dear"}
    BY <1>2 DEF Keyset
  <2>2. DOMAIN NoBlob = {"id"}
    BY DEF NoBlob
  <2> QED BY <2>1, <2>2
<1>3. \A k \in Keyset : k.id \in Ids
  BY DEF Keyset
<1> QED BY <1>1, <1>2, <1>3

LEMMA SavedType ==
    ASSUME TypeOK
    PROVE  /\ Saved \in 0 .. MaxKeysets /\ Saved <= Len(keysets)
           /\ Len(keysets) <= MaxKeysets => Saved = Len(keysets)
           /\ Len(keysets) > MaxKeysets /\ Len(keysets) <= 255 => Saved = MaxKeysets
<1>1. Len(keysets) \in Nat
  BY DEF TypeOK
<1>2. /\ Len(keysets) % 256 \in Nat /\ Len(keysets) % 256 <= Len(keysets)
      /\ Len(keysets) <= 255 => Len(keysets) % 256 = Len(keysets)
  BY <1>1
<1> QED BY <1>1, <1>2, ConstantTypes DEF Saved

LEMMA BeforeFinite ==
    ASSUME TypeOK, NEW i
    PROVE  IsFiniteSet(Before(i)) /\ Cardinality(Before(i)) \in Nat
<1>1. Len(keysets) \in Nat /\ DOMAIN keysets = 1 .. Len(keysets)
  BY DEF TypeOK
<1>2. IsFiniteSet(1 .. Len(keysets))
  BY <1>1, FS_Interval
<1>3. Before(i) \in SUBSET (1 .. Len(keysets))
  BY <1>1 DEF Before
<1>4. IsFiniteSet(Before(i))
  BY <1>2, <1>3, FS_Subset
<1> QED BY <1>4, FS_CardinalityType

LEMMA PlaceType ==
    ASSUME TypeOK, NEW i \in DOMAIN keysets
    PROVE  Place(i) \in Nat /\ Place(i) > 0
<1>1. i \in Nat /\ i > 0
  BY DEF TypeOK
<1> QED BY <1>1, BeforeFinite DEF Place

LEMMA RankType ==
    ASSUME NEW i
    PROVE  Rank(i) \in 0 .. 2
BY DEF Rank

\* Who ranks before a keyset ranks before those that it ranks before.
LEMMA BeforeGrows ==
    ASSUME TypeOK, NEW i \in DOMAIN keysets, NEW j \in DOMAIN keysets, i \in Before(j)
    PROVE  Cardinality(Before(i)) < Cardinality(Before(j))
<1>1. i \in Nat /\ j \in Nat /\ DOMAIN keysets \subseteq Nat
  BY DEF TypeOK
<1>2. Rank(i) < Rank(j) \/ (Rank(i) = Rank(j) /\ i < j)
  BY DEF Before
<1>3. i \notin Before(i)
  BY <1>1, RankType DEF Before
<1>4. ASSUME NEW k \in Before(i)
      PROVE  k \in Before(j)
  <2>1. k \in DOMAIN keysets /\ (Rank(k) < Rank(i) \/ (Rank(k) = Rank(i) /\ k < i))
    BY <1>4 DEF Before
  <2>2. Rank(i) \in Nat /\ Rank(j) \in Nat /\ Rank(k) \in Nat
    BY RankType
  <2>3. Rank(k) < Rank(j) \/ (Rank(k) = Rank(j) /\ k < j)
    BY <1>1, <1>2, <2>1, <2>2
  <2> QED BY <2>1, <2>3 DEF Before
<1>5. Before(i) \cup {i} \in SUBSET Before(j)
  BY <1>4
<1>6. Cardinality(Before(i) \cup {i}) = Cardinality(Before(i)) + 1
  BY <1>3, BeforeFinite, FS_AddElement
<1>7. Cardinality(Before(i) \cup {i}) <= Cardinality(Before(j))
  BY <1>5, BeforeFinite, FS_Subset
<1> QED BY <1>6, <1>7, BeforeFinite

\* save_keysets: order is a permutation, so no two keysets get one item.
LEMMA PlacesApart ==
    ASSUME TypeOK, NEW i \in DOMAIN keysets, NEW j \in DOMAIN keysets, Place(i) = Place(j)
    PROVE  i = j
<1>1. CASE Len(keysets) <= MaxKeysets
  BY <1>1 DEF Place
<1>2. CASE ~(Len(keysets) <= MaxKeysets)
  <2>1. Cardinality(Before(i)) = Cardinality(Before(j))
    BY <1>2, BeforeFinite DEF Place
  <2>2. i \notin Before(j) /\ j \notin Before(i)
    BY <2>1, BeforeGrows, BeforeFinite
  <2>3. Rank(i) \in Nat /\ Rank(j) \in Nat /\ i \in Nat /\ j \in Nat
    BY RankType DEF TypeOK
  <2> QED BY <2>2, <2>3 DEF Before
<1> QED BY <1>1, <1>2

LEMMA PlacesKept ==
    ASSUME UNCHANGED <<keysets, held>>
    PROVE  Saved' = Saved /\ \A i : Place(i)' = Place(i)
<1>1. Saved' = Saved
  BY DEF Saved
<1>2. ASSUME NEW i
      PROVE  Rank(i)' = Rank(i)
  BY DEF Rank, First
<1>3. ASSUME NEW i
      PROVE  Before(i)' = Before(i)
  BY <1>2 DEF Before
<1>4. ASSUME NEW i
      PROVE  Place(i)' = Place(i)
  BY <1>3 DEF Place
<1> QED BY <1>1, <1>4

-------------------------------------------------------------------------------
(* The merge *)

\* A new list of keysets has the rows of the set, each once.
LEMMA SequenceOfSet ==
    ASSUME NEW S, IsFiniteSet(S), NEW list \in SetToSeqs(S)
    PROVE  /\ list \in Seq(S)
           /\ Len(list) \in Nat /\ DOMAIN list = 1 .. Len(list)
           /\ \A i, j \in DOMAIN list : list[i] = list[j] => i = j
<1> DEFINE n == Cardinality(S)
<1>1. n \in Nat
  BY FS_CardinalityType
<1>2. list \in [1 .. n -> S] /\ \A i, j \in 1 .. n : i # j => list[i] # list[j]
  BY DEF SetToSeqs
<1>3. list \in Seq(S) /\ Len(list) = n /\ DOMAIN list = 1 .. n
  BY <1>1, <1>2
<1> QED BY <1>1, <1>2, <1>3

\* merge_keysets: every keyset stays where it is, under its id; what follows are new
\* ids, each once.
LEMMA MergeKeepsPlaces ==
    ASSUME TypeOK, RowsOK,
           NEW fresh \in SUBSET infos, NEW list \in Merged(fresh)
    PROVE  /\ list \in Seq(Keyset)
           /\ Len(list) >= Len(keysets)
           /\ \A i \in DOMAIN keysets : i \in DOMAIN list /\ list[i].id = keysets[i].id
           /\ Distinct(keysets) => Distinct(list)
<1> DEFINE unknown == {r \in fresh : r.id \notin IdsOf(keysets)}
<1>1. PICK new \in SetToSeqs(unknown) : list = Updated(fresh) \o new
  BY DEF Merged
<1>2. IsFiniteSet(unknown) /\ unknown \subseteq Keyset
  BY FS_Subset DEF RowsOK, TypeOK
<1>3. /\ new \in Seq(Keyset) /\ DOMAIN new = 1 .. Len(new) /\ Len(new) \in Nat
      /\ \A i \in DOMAIN new : new[i] \in unknown
      /\ \A i, j \in DOMAIN new : new[i] = new[j] => i = j
  BY <1>2, SequenceOfSet
<1>4. keysets \in Seq(Keyset) /\ DOMAIN keysets = 1 .. Len(keysets) /\ Len(keysets) \in Nat
  BY DEF TypeOK
<1>5. ASSUME NEW i \in DOMAIN keysets
      PROVE  Updated(fresh)[i] \in Keyset /\ Updated(fresh)[i].id = keysets[i].id
  <2>1. CASE First(i) /\ \E r \in fresh : r.id = keysets[i].id
    <3>1. Updated(fresh)[i] = CHOOSE r \in fresh : r.id = keysets[i].id
      BY <2>1 DEF Updated
    <3>2. Updated(fresh)[i] \in fresh /\ Updated(fresh)[i].id = keysets[i].id
      BY <2>1, <3>1
    <3> QED BY <3>2 DEF TypeOK
  <2>2. CASE ~(First(i) /\ \E r \in fresh : r.id = keysets[i].id)
    BY <1>4, <2>2 DEF Updated
  <2> QED BY <2>1, <2>2
<1>6. DOMAIN Updated(fresh) = 1 .. Len(keysets)
  BY <1>4 DEF Updated
<1>7. Updated(fresh) \in Seq(Keyset) /\ Len(Updated(fresh)) = Len(keysets)
  <2>1. Updated(fresh) \in [1 .. Len(keysets) -> Keyset]
    BY <1>4, <1>5 DEF Updated
  <2> QED BY <1>4, <2>1
<1> HIDE DEF unknown
<1>8. /\ list \in Seq(Keyset)
      /\ Len(list) = Len(keysets) + Len(new)
      /\ DOMAIN list = 1 .. Len(keysets) + Len(new)
      /\ \A i \in DOMAIN keysets : list[i] = Updated(fresh)[i]
      /\ \A i \in 1 .. Len(keysets) + Len(new) :
            i > Len(keysets) => list[i] = new[i - Len(keysets)]
  <2> DEFINE old == Updated(fresh)
  <2> HIDE DEF old
  <2>1. /\ list = old \o new /\ old \in Seq(Keyset) /\ new \in Seq(Keyset)
        /\ Len(old) = Len(keysets) /\ Len(new) \in Nat /\ Len(old) \in Nat
    BY <1>1, <1>3, <1>4, <1>7 DEF old
  <2>2. list \in Seq(Keyset) /\ Len(list) = Len(old) + Len(new)
    BY <2>1, ConcatProperties
  <2>3. \A i \in 1 .. Len(old) + Len(new) :
            list[i] = IF i <= Len(old) THEN old[i] ELSE new[i - Len(old)]
    BY <2>1, ConcatProperties
  <2>4. DOMAIN list = 1 .. Len(old) + Len(new)
    BY <2>1, <2>2
  <2>5. \A i \in DOMAIN keysets : list[i] = old[i]
    BY <1>4, <2>1, <2>3
  <2> QED BY <2>1, <2>2, <2>3, <2>4, <2>5 DEF old
<1>9. ASSUME Distinct(keysets), NEW i \in DOMAIN list, NEW j \in DOMAIN list,
             list[i].id = list[j].id
      PROVE  i = j
  <2>1. ASSUME NEW k \in DOMAIN list, k > Len(keysets)
        PROVE  /\ k - Len(keysets) \in DOMAIN new
               /\ list[k] = new[k - Len(keysets)]
               /\ list[k] \in fresh /\ \A m \in DOMAIN keysets : list[k].id # keysets[m].id
    <3>1. k - Len(keysets) \in DOMAIN new /\ list[k] = new[k - Len(keysets)]
      BY <1>3, <1>4, <1>8, <2>1
    <3>2. list[k] \in unknown
      BY <1>3, <3>1
    <3> QED BY <3>1, <3>2 DEF unknown, IdsOf
  <2>2. i \in Nat /\ j \in Nat /\ i > 0 /\ j > 0
    BY <1>3, <1>4, <1>8
  <2>3. CASE i <= Len(keysets) /\ j <= Len(keysets)
    BY <1>4, <1>5, <1>8, <1>9, <2>2, <2>3 DEF Distinct
  <2>4. CASE i <= Len(keysets) /\ j > Len(keysets)
    BY <1>4, <1>5, <1>8, <1>9, <2>1, <2>2, <2>4
  <2>5. CASE i > Len(keysets) /\ j <= Len(keysets)
    BY <1>4, <1>5, <1>8, <1>9, <2>1, <2>2, <2>5
  <2>6. CASE i > Len(keysets) /\ j > Len(keysets)
    <3>1. list[i] = list[j]
      BY <1>9, <2>1, <2>6 DEF RowsOK
    <3>2. i - Len(keysets) = j - Len(keysets)
      BY <1>3, <2>1, <2>6, <3>1
    <3> QED BY <1>4, <2>2, <3>2
  <2> QED BY <1>4, <2>2, <2>3, <2>4, <2>5, <2>6
<1>10. Distinct(keysets) => Distinct(list)
  BY <1>9 DEF Distinct
<1>11. \A i \in DOMAIN keysets : i \in DOMAIN list /\ list[i].id = keysets[i].id
  BY <1>3, <1>4, <1>5, <1>8
<1> QED BY <1>3, <1>4, <1>8, <1>10, <1>11

-------------------------------------------------------------------------------
(* The load at boot *)

Below == {ss \in Nat \X Nat : ss[1] < ss[2]}

LEMMA BelowWellFounded == IsWellFoundedOn(Below, Nat)
BY NatLessThanWellFounded DEF OpToRel, Below

\* load_keysets_nvs: as the items have no gap, an item keeps its place when it is
\* loaded.
LEMMA LoadKeepsPlaces ==
    ASSUME TypeOK,
           \A i, j \in Items : Written(i) /\ j < i => Written(j),
           NEW n, NEW list \in [1 .. n -> Readable], n \in Nat,
           \A k, m \in DOMAIN list : k < m => list[k] < list[m],
           ToSet(list) = Readable
    PROVE  1 .. n = Readable /\ \A i \in 1 .. n : list[i] = i
<1>1. /\ nvs.count \in Nat /\ nvs.count <= MaxKeysets /\ MaxKeysets \in Nat
      /\ \A i \in Readable : i \in Nat /\ i > 0 /\ i <= nvs.count
      /\ \A i \in Readable, j \in Nat : j > 0 /\ j < i => j \in Readable
  BY ConstantTypes DEF TypeOK, Readable, Items, Written
<1>2. /\ \A i \in 1 .. n : list[i] \in Readable
      /\ \A k, m \in 1 .. n : k < m => list[k] < list[m]
      /\ \A i \in Readable : \E j \in 1 .. n : list[j] = i
  BY DEF ToSet
<1> DEFINE bad == {i \in 1 .. n : list[i] # i}
<1>3. ASSUME bad # {}
      PROVE  FALSE
  <2>1. bad \subseteq Nat
    OBVIOUS
  <2>2. PICK i \in bad : \A j \in bad : ~(<<j, i>> \in Below)
    BY <1>3, <2>1, BelowWellFounded, WFMin
  <2>3. \A j \in 1 .. n : j < i => list[j] = j
    BY <2>1, <2>2 DEF Below
  <2>4. i \in 1 .. n /\ list[i] # i /\ i \in Nat /\ i > 0
    BY <2>2
  <2>5. list[i] \in Nat /\ list[i] > 0
    BY <1>1, <1>2, <2>4
  <2>6. list[i] > i
    <3>1. CASE list[i] < i
      <4>1. list[i] \in 1 .. n
        BY <2>4, <2>5, <3>1
      <4>2. list[list[i]] = list[i] /\ list[list[i]] < list[i]
        BY <1>2, <2>3, <2>4, <3>1, <4>1
      <4> QED BY <2>5, <4>2
    <3> QED BY <2>4, <2>5, <3>1
  <2>7. i \in Readable
    BY <1>1, <1>2, <2>4, <2>6
  <2>8. PICK j \in 1 .. n : list[j] = i
    BY <1>2, <2>7
  <2>9. j < i \/ j = i \/ i < j
    BY <2>4
  <2>10. CASE i < j
    <3>1. list[i] < list[j]
      BY <1>2, <2>4, <2>10
    <3> QED BY <2>4, <2>5, <2>6, <2>8, <3>1
  <2> QED BY <2>3, <2>4, <2>8, <2>9, <2>10
<1>4. \A i \in 1 .. n : list[i] = i
  BY <1>3
<1> HIDE DEF bad
<1>5. \A i : i \in 1 .. n <=> i \in Readable
  BY <1>2, <1>4
<1> QED BY <1>4, <1>5

-------------------------------------------------------------------------------
(* Types and rows *)

LEMMA FetchedRows ==
    ASSUME TypeOK, FetchInfos
    PROVE  RowsOK' /\ infos' \subseteq Keyset /\ Cardinality(infos') <= MaxKeysets
<1>1. PICK some \in SUBSET offers :
        /\ IF Cardinality(offers) <= MaxKeysets
           THEN some = offers
           ELSE Cardinality(some) = MaxKeysets
        /\ infos' = {Row(id) : id \in some}
  BY DEF FetchInfos
<1>2. some \in SUBSET Ids /\ IsFiniteSet(some)
  BY <1>1, FS_Subset, KeysetAssumption DEF TypeOK
<1>3. Cardinality(some) <= MaxKeysets /\ Cardinality(some) \in Nat
  BY <1>1, <1>2, FS_CardinalityType, ConstantTypes
<1>4. infos' \subseteq Keyset
  <2>1. ASSUME NEW id \in Ids
        PROVE  Row(id) \in Keyset
    <3>1. (id \in offers) \in BOOLEAN /\ (id \in dear) \in BOOLEAN
      OBVIOUS
    <3> QED BY <3>1, Zenon DEF Row, Keyset
  <2> QED BY <1>1, <1>2, <2>1
<1>5. \A r, q \in infos' : r.id = q.id => r = q
  BY <1>1 DEF Row
<1> DEFINE f == [id \in some |-> Row(id)]
<1>6. f \in Surjection(some, infos')
  BY <1>1 DEF Surjection
<1>7. IsFiniteSet(infos') /\ Cardinality(infos') <= Cardinality(some)
  BY <1>2, <1>6, FS_Surjection
<1>8. Cardinality(infos') \in Nat
  BY <1>7, FS_CardinalityType
<1> QED BY <1>3, <1>4, <1>5, <1>7, <1>8, ConstantTypes DEF RowsOK

LEMMA NoRows ==
    /\ IsFiniteSet({}) /\ {} \subseteq Keyset /\ Cardinality({}) <= MaxKeysets
    /\ \A r, q \in {} : r.id = q.id => r = q
BY FS_EmptySet, ConstantTypes

LEMMA RowsStep ==
    ASSUME TypeOK, RowsOK, [Next]_vars
    PROVE  RowsOK'
<1>1. CASE FetchInfos
  BY <1>1, FetchedRows
<1>2. CASE FetchKeys \/ PowerLoss
  BY <1>2, NoRows DEF FetchKeys, PowerLoss, RowsOK
<1>3. CASE UNCHANGED infos
  BY <1>3 DEF RowsOK
<1>4. FetchInfos \/ FetchKeys \/ PowerLoss \/ UNCHANGED infos
  BY DEF Next, vars, Rotate, RaiseFee, Open, SaveCount, SaveItem, EraseRest, SaveFails,
         Boot, Receive, Spend
<1> QED BY <1>1, <1>2, <1>3, <1>4

\* What FetchKeys makes of the list.
LEMMA Refreshed ==
    ASSUME TypeOK, RowsOK, FetchKeys
    PROVE  /\ keysets' \in Seq(Keyset)
           /\ Len(keysets') >= Len(keysets)
           /\ \A i \in DOMAIN keysets : i \in DOMAIN keysets' /\ keysets'[i].id = keysets[i].id
           /\ Distinct(keysets) => Distinct(keysets')
           /\ stage' = "opening" \/ (stage' = "idle" /\ keysets' = keysets)
<1>1. CASE keysets' = keysets /\ stage' = "idle"
  BY <1>1 DEF TypeOK
<1>2. ASSUME NEW served \in {offers, {}},
             keysets' \in Merged(Validated(served)),
             stage' = IF keysets' = keysets THEN "idle" ELSE "opening"
      PROVE  /\ keysets' \in Seq(Keyset)
             /\ Len(keysets') >= Len(keysets)
             /\ \A i \in DOMAIN keysets : i \in DOMAIN keysets' /\ keysets'[i].id = keysets[i].id
             /\ Distinct(keysets) => Distinct(keysets')
             /\ stage' = "opening" \/ (stage' = "idle" /\ keysets' = keysets)
  <2>1. Validated(served) \in SUBSET infos
    BY DEF Validated
  <2> QED BY <1>2, <2>1, MergeKeepsPlaces
<1> QED BY <1>1, <1>2 DEF FetchKeys

\* What Boot makes of flash.
LEMMA Loaded ==
    ASSUME TypeOK, ItemsOK, Boot
    PROVE  /\ keysets' \in Seq(Keyset)
           /\ nvs.count = 0 => keysets' = nvs.legacy
           /\ nvs.count > 0 =>
                /\ DOMAIN keysets' = Readable
                /\ \A i \in Readable : keysets'[i] = nvs.items[i]
<1>1. nvs.count \in Nat /\ nvs.count <= MaxKeysets /\ MaxKeysets \in Nat /\ nvs.legacy \in Seq(Keyset)
  BY ConstantTypes DEF TypeOK
<1>2. CASE nvs.count = 0
  BY <1>1, <1>2 DEF Boot
<1>3. CASE nvs.count > 0
  <2> DEFINE n == Cardinality(Readable)
  <2>1. IsFiniteSet(Readable) /\ n \in Nat
    <3>1. Readable \in SUBSET (1 .. nvs.count)
      BY DEF Readable
    <3>2. IsFiniteSet(1 .. nvs.count)
      BY <1>1, FS_Interval
    <3>3. IsFiniteSet(Readable)
      BY <3>1, <3>2, FS_Subset
    <3> QED BY <3>3, FS_CardinalityType
  <2>2. PICK list \in [1 .. n -> Readable] :
            /\ \A k, m \in DOMAIN list : k < m => list[k] < list[m]
            /\ ToSet(list) = Readable
            /\ keysets' = [k \in DOMAIN list |-> nvs.items[list[k]]]
    BY <1>1, <1>3 DEF Boot
  <2>3. \A i, j \in Items : Written(i) /\ j < i => Written(j)
    BY DEF ItemsOK
  <2> HIDE DEF n
  <2>4. 1 .. n = Readable /\ \A i \in 1 .. n : list[i] = i
    BY <2>1, <2>2, <2>3, LoadKeepsPlaces
  <2>5. keysets' = [k \in 1 .. n |-> nvs.items[k]]
    BY <2>2, <2>4
  <2>6. \A k \in 1 .. n : nvs.items[k] \in Keyset
    BY <1>1, <2>4 DEF TypeOK, Readable
  <2>7. keysets' \in Seq(Keyset)
    BY <2>1, <2>5, <2>6
  <2>8. DOMAIN keysets' = Readable /\ \A i \in Readable : keysets'[i] = nvs.items[i]
    BY <2>4, <2>5
  <2> QED BY <1>1, <1>3, <2>7, <2>8
<1> QED BY <1>1, <1>2, <1>3

-------------------------------------------------------------------------------
(* The writes of a save *)

Flash == [count : 0 .. MaxKeysets,
          items : [Items -> Keyset \cup {NoBlob}],
          legacy : Seq(Keyset)]

LEMMA FlashType == TypeOK => nvs \in Flash
BY DEF TypeOK, Flash, Items

\* Only keyset i goes to the place at.
LEMMA ItemSaved ==
    ASSUME TypeOK, SaveOK, SaveItem
    PROVE  \E i \in DOMAIN keysets :
        /\ Place(i) = at /\ at \in Items /\ at <= Saved /\ keysets[i] \in Keyset
        /\ nvs' \in Flash /\ nvs'.count = nvs.count /\ nvs'.legacy = nvs.legacy
        /\ \A j \in Items : nvs'.items[j] = IF j = at THEN keysets[i] ELSE nvs.items[j]
<1>1. PICK i \in DOMAIN keysets : Place(i) = at /\ nvs' = [nvs EXCEPT !.items[at] = keysets[i]]
  BY DEF SaveItem
<1>2. at \in Items /\ at <= Saved
  BY SavedType, ConstantTypes DEF SaveItem, SaveOK, Items
<1>3. keysets[i] \in Keyset
  BY DEF TypeOK
<1>4. nvs \in Flash
  BY FlashType
<1>5. nvs' = [count |-> nvs.count, legacy |-> nvs.legacy,
              items |-> [nvs.items EXCEPT ![at] = keysets[i]]]
  BY <1>1, <1>4 DEF Flash
<1>6. nvs.items \in [Items -> Keyset \cup {NoBlob}]
  BY <1>4 DEF Flash
<1>7. [nvs.items EXCEPT ![at] = keysets[i]] \in [Items -> Keyset \cup {NoBlob}]
  BY <1>2, <1>3, <1>6
<1>8. nvs' \in Flash
  BY <1>4, <1>5, <1>7 DEF Flash
<1>9. \A j \in Items : nvs'.items[j] = IF j = at THEN keysets[i] ELSE nvs.items[j]
  BY <1>2, <1>5, <1>6
<1> QED BY <1>1, <1>2, <1>3, <1>5, <1>8, <1>9

LEMMA OtherWrites ==
    ASSUME TypeOK
    PROVE  /\ Open => /\ nvs' \in Flash /\ nvs'.legacy = <<>>
                      /\ nvs'.count = nvs.count /\ nvs'.items = nvs.items
           /\ SaveCount => /\ nvs' \in Flash /\ nvs'.legacy = nvs.legacy
                           /\ nvs'.count = Saved /\ nvs'.items = nvs.items
           /\ EraseRest => /\ nvs' \in Flash /\ nvs'.legacy = nvs.legacy
                           /\ nvs'.count = nvs.count
                           /\ \A j \in Items :
                                nvs'.items[j] = IF j < at THEN nvs.items[j] ELSE NoBlob
<1>1. nvs \in Flash
  BY FlashType
<1>2. nvs.items \in [Items -> Keyset \cup {NoBlob}]
  BY <1>1 DEF Flash
<1>3. ASSUME Open
      PROVE  /\ nvs' \in Flash /\ nvs'.legacy = <<>>
             /\ nvs'.count = nvs.count /\ nvs'.items = nvs.items
  <2>1. nvs' = [count |-> nvs.count, items |-> nvs.items, legacy |-> <<>>]
    BY <1>1, <1>3 DEF Open, Flash
  <2>2. <<>> \in Seq(Keyset)
    OBVIOUS
  <2> QED BY <1>1, <2>1, <2>2 DEF Flash
<1>4. ASSUME SaveCount
      PROVE  /\ nvs' \in Flash /\ nvs'.legacy = nvs.legacy
             /\ nvs'.count = Saved /\ nvs'.items = nvs.items
  <2>1. nvs' = [count |-> Saved, items |-> nvs.items, legacy |-> nvs.legacy]
    BY <1>1, <1>4 DEF SaveCount, Flash
  <2> QED BY <1>1, <2>1, SavedType DEF Flash
<1>5. ASSUME EraseRest
      PROVE  /\ nvs' \in Flash /\ nvs'.legacy = nvs.legacy /\ nvs'.count = nvs.count
             /\ \A j \in Items : nvs'.items[j] = IF j < at THEN nvs.items[j] ELSE NoBlob
  <2> DEFINE items == [i \in Items |-> IF i < at THEN nvs.items[i] ELSE NoBlob]
  <2>1. nvs' = [count |-> nvs.count, items |-> items, legacy |-> nvs.legacy]
    BY <1>1, <1>5 DEF EraseRest, Flash
  <2>2. items \in [Items -> Keyset \cup {NoBlob}]
    BY <1>2
  <2>3. \A j \in Items : items[j] = IF j < at THEN nvs.items[j] ELSE NoBlob
    OBVIOUS
  <2> HIDE DEF items
  <2>4. nvs' \in Flash
    BY <1>1, <2>1, <2>2 DEF Flash
  <2> QED BY <2>1, <2>3, <2>4
<1> QED BY <1>3, <1>4, <1>5

LEMMA TypedStep ==
    ASSUME KeysetInv, [Next]_vars, Distinct(keysets') \/ short'
    PROVE  TypeOK'
<1>1. /\ TypeOK /\ RowsOK /\ ItemsOK /\ SaveOK
  BY DEF KeysetInv
<1>2. ASSUME UNCHANGED <<keysets, infos, nvs>>,
             offers' \subseteq Ids /\ dear' \subseteq Ids /\ held' \subseteq Ids,
             stage' \in {"idle", "infos", "opening", "counting", "writing", "off"},
             at' \in 0 .. MaxKeysets + 1, short' \in BOOLEAN
      PROVE  TypeOK'
  BY <1>1, <1>2 DEF TypeOK
<1>3. at \in 0 .. MaxKeysets + 1 /\ 0 \in 0 .. MaxKeysets + 1 /\ 1 \in 0 .. MaxKeysets + 1
  BY <1>1, ConstantTypes DEF TypeOK
<1>4. CASE UNCHANGED vars
  BY <1>1, <1>2, <1>4 DEF vars, mintVars, TypeOK
<1>5. ASSUME NEW id \in Ids, Rotate(id) \/ Spend(id)
      PROVE  TypeOK'
  BY <1>1, <1>2, <1>5 DEF Rotate, Spend, mintVars, TypeOK
<1>6. ASSUME NEW id \in Repriced, RaiseFee(id)
      PROVE  TypeOK'
  BY <1>1, <1>2, <1>6, KeysetAssumption DEF RaiseFee, mintVars, TypeOK
<1>7. ASSUME NEW unit \in Units, Receive(unit)
      PROVE  TypeOK'
  <2>1. Choice(unit) \subseteq Ids
    BY <1>1, ConstantTypes DEF Choice, Mintable, TypeOK
  <2>2. held' \subseteq Ids
    BY <1>1, <1>7, <2>1 DEF Receive, TypeOK
  <2> QED BY <1>1, <1>2, <1>7, <2>2 DEF Receive, mintVars, TypeOK
<1>8. CASE FetchInfos
  <2>1. infos' \subseteq Keyset /\ Cardinality(infos') <= MaxKeysets
    BY <1>1, <1>8, FetchedRows
  <2> QED BY <1>1, <1>8, <2>1 DEF FetchInfos, mintVars, TypeOK
<1>9. CASE FetchKeys
  <2>1. keysets' \in Seq(Keyset) /\ stage' \in {"opening", "idle"}
    BY <1>1, <1>9, Refreshed
  <2>2. /\ infos' = {} /\ {} \subseteq Keyset /\ Cardinality({}) <= MaxKeysets
        /\ UNCHANGED <<mintVars, held, at, nvs, short>>
    BY <1>9, NoRows DEF FetchKeys
  <2> QED BY <1>1, <2>1, <2>2 DEF mintVars, TypeOK
<1>10. ASSUME nvs' \in Flash, UNCHANGED <<mintVars, keysets, held, infos>>,
              stage' \in {"idle", "infos", "opening", "counting", "writing", "off"},
              at' \in 0 .. MaxKeysets + 1, short' \in BOOLEAN
       PROVE  TypeOK'
  BY <1>1, <1>10 DEF mintVars, TypeOK, Flash, Items
<1>11. CASE Open
  BY <1>1, <1>3, <1>10, <1>11, OtherWrites DEF Open, TypeOK
<1>12. CASE SaveCount
  BY <1>1, <1>3, <1>10, <1>12, OtherWrites DEF SaveCount, TypeOK
<1>13. CASE SaveItem
  <2>1. nvs' \in Flash /\ at \in Items
    BY <1>1, <1>13, ItemSaved
  <2>2. at + 1 \in 0 .. MaxKeysets + 1
    BY <2>1, ConstantTypes DEF Items
  <2> QED BY <1>1, <1>10, <1>13, <2>1, <2>2 DEF SaveItem, TypeOK
<1>14. CASE EraseRest
  BY <1>1, <1>3, <1>10, <1>14, OtherWrites DEF EraseRest, TypeOK
<1>15. CASE SaveFails
  BY <1>1, <1>2, <1>3, <1>15 DEF SaveFails, mintVars, TypeOK
<1>16. CASE PowerLoss
  <2>1. <<>> \in Seq(Keyset)
    OBVIOUS
  <2> QED BY <1>1, <1>3, <1>16, <2>1, NoRows DEF PowerLoss, mintVars, TypeOK
<1>17. CASE Boot
  BY <1>1, <1>17, Loaded DEF Boot, mintVars, TypeOK
<1> QED BY <1>4, <1>5, <1>6, <1>7, <1>8, <1>9, <1>11, <1>12, <1>13, <1>14, <1>15, <1>16, <1>17
        DEF Next

-------------------------------------------------------------------------------
(* Items and places *)

\* The steps that leave flash and the list it is saved from alone.
Elsewhere ==
    \/ UNCHANGED vars
    \/ \E id \in Ids : Rotate(id) \/ Spend(id)
    \/ \E id \in Repriced : RaiseFee(id)
    \/ \E unit \in Units : Receive(unit)
    \/ FetchInfos

LEMMA ElsewhereStep ==
    ASSUME Elsewhere
    PROVE  /\ UNCHANGED <<keysets, nvs, at, short>>
           /\ stage' = stage \/ (stage = "idle" /\ stage' = "infos")
           /\ stage # "idle" => held' = held
BY DEF Elsewhere, vars, mintVars, Rotate, Spend, RaiseFee, Receive, FetchInfos

LEMMA Steps ==
    ASSUME [Next]_vars
    PROVE  \/ Elsewhere \/ FetchKeys \/ Open \/ SaveCount \/ SaveItem \/ EraseRest
           \/ SaveFails \/ PowerLoss \/ Boot
BY DEF Next, Elsewhere

LEMMA ItemsStep ==
    ASSUME TypeOK, ItemsOK, SaveOK, [Next]_vars
    PROVE  ItemsOK'
<1>1. /\ nvs \in Flash /\ NoBlob \notin Keyset /\ MaxKeysets \in Nat
      /\ at \in 0 .. MaxKeysets + 1
  BY FlashType, ConstantTypes DEF TypeOK
<1>2. ASSUME UNCHANGED nvs,
             stage' \in {"counting", "writing"} => stage \in {"counting", "writing"}
      PROVE  ItemsOK'
  BY <1>2 DEF ItemsOK, Written
<1>3. CASE Elsewhere
  BY <1>2, <1>3, ElsewhereStep
<1>4. CASE FetchKeys \/ SaveFails \/ PowerLoss \/ Boot
  BY <1>2, <1>4 DEF FetchKeys, SaveFails, PowerLoss, Boot
<1>5. CASE Open
  BY <1>5, OtherWrites DEF ItemsOK, Written
<1>6. CASE SaveCount
  BY <1>6, OtherWrites DEF SaveCount, ItemsOK, Written
<1>7. CASE SaveItem
  <2>1. PICK i \in DOMAIN keysets :
            /\ at \in Items /\ keysets[i] \in Keyset
            /\ nvs'.count = nvs.count /\ nvs'.legacy = nvs.legacy
            /\ \A j \in Items : nvs'.items[j] = IF j = at THEN keysets[i] ELSE nvs.items[j]
    BY <1>7, ItemSaved
  <2>2. stage = "writing" /\ \A j \in Items : j < at => Written(j)
    BY <1>7 DEF SaveItem, SaveOK
  <2>3. nvs.legacy = <<>>
    BY <2>2 DEF ItemsOK
  <2>4. \A j \in Items : Written(j)' <=> (Written(j) \/ j = at)
    BY <1>1, <2>1 DEF Written
  <2>5. \A k, j \in Items : Written(k)' /\ j < k => Written(j)'
    BY <1>1, <2>2, <2>4 DEF ItemsOK, Items
  <2> QED BY <2>1, <2>3, <2>5 DEF ItemsOK, Items
<1>8. CASE EraseRest
  <2>1. /\ nvs'.legacy = nvs.legacy
        /\ \A j \in Items : nvs'.items[j] = IF j < at THEN nvs.items[j] ELSE NoBlob
    BY <1>8, OtherWrites
  <2>2. nvs.legacy = <<>>
    BY <1>8 DEF EraseRest, ItemsOK
  <2>3. \A j \in Items : Written(j)' <=> (Written(j) /\ j < at)
    BY <2>1 DEF Written
  <2>4. \A k, j \in Items : Written(k)' /\ j < k => Written(j)'
    BY <1>1, <2>3 DEF ItemsOK, Items
  <2> QED BY <2>1, <2>2, <2>4 DEF ItemsOK, Items
<1> QED BY <1>3, <1>4, <1>5, <1>6, <1>7, <1>8, Steps

LEMMA SaveStep ==
    ASSUME TypeOK, SaveOK, [Next]_vars
    PROVE  SaveOK'
<1>1. /\ nvs \in Flash /\ NoBlob \notin Keyset /\ MaxKeysets \in Nat
      /\ at \in 0 .. MaxKeysets + 1
  BY FlashType, ConstantTypes DEF TypeOK
<1>2. CASE stage' # "writing"
  BY <1>2 DEF SaveOK
<1>3. CASE Elsewhere /\ stage' = "writing"
  <2>1. stage = "writing" /\ UNCHANGED <<keysets, held, nvs, at>>
    BY <1>3, ElsewhereStep
  <2> QED BY <2>1, PlacesKept DEF SaveOK, Written
<1>4. CASE SaveCount
  <2>1. /\ UNCHANGED <<keysets, held>> /\ at' = 1 /\ nvs'.count = Saved
    BY <1>4, OtherWrites DEF SaveCount
  <2>2. \A i \in DOMAIN keysets : ~(Place(i)' < 1)
    BY <2>1, PlacesKept, PlaceType
  <2>3. at' \in 1 .. Saved + 1
    BY <2>1, SavedType, <1>1
  <2>4. \A j \in Items : ~(j < at')
    BY <2>1, <1>1 DEF Items
  <2> QED BY <2>1, <2>2, <2>3, <2>4, PlacesKept DEF SaveOK, Items
<1>5. CASE SaveItem
  <2>1. UNCHANGED <<keysets, held>> /\ at' = at + 1 /\ stage = "writing"
    BY <1>5 DEF SaveItem
  <2>2. PICK i \in DOMAIN keysets :
            /\ Place(i) = at /\ at \in Items /\ at <= Saved /\ keysets[i] \in Keyset
            /\ nvs' \in Flash /\ nvs'.count = nvs.count /\ nvs'.legacy = nvs.legacy
            /\ \A j \in Items : nvs'.items[j] = IF j = at THEN keysets[i] ELSE nvs.items[j]
    BY <1>5, ItemSaved
  <2>3. nvs'.count = Saved /\ at' \in 1 .. Saved + 1
    BY <1>1, <2>1, <2>2, SavedType DEF SaveOK
  <2>4. \A j \in Items : j < at' => Written(j)'
    BY <1>1, <2>1, <2>2 DEF SaveOK, Items, Written
  <2>5. ASSUME NEW k \in DOMAIN keysets, Place(k) < at'
        PROVE  nvs'.items[Place(k)] = keysets[k]
    <3>1. Place(k) \in Nat /\ Place(k) > 0
      BY PlaceType
    <3>2. Place(k) \in Items
      BY <1>1, <2>1, <2>2, <2>5, <3>1 DEF Items
    <3>3. CASE Place(k) = at
      BY <2>2, <3>2, <3>3, PlacesApart
    <3>4. CASE Place(k) < at
      BY <2>1, <2>2, <3>2, <3>4 DEF SaveOK
    <3> QED BY <1>1, <2>1, <2>5, <3>1, <3>3, <3>4
  <2>6. \A k \in DOMAIN keysets : Place(k)' < at' => nvs'.items[Place(k)'] = keysets[k]
    BY <2>1, <2>5, PlacesKept
  <2> QED BY <2>1, <2>3, <2>4, <2>6, PlacesKept DEF SaveOK, Items
<1>6. FetchKeys \/ Open \/ EraseRest \/ SaveFails \/ PowerLoss \/ Boot => stage' # "writing"
  <2>1. FetchKeys => stage' # "writing"
    BY DEF FetchKeys
  <2> QED BY <2>1 DEF Open, EraseRest, SaveFails, PowerLoss, Boot
<1> QED BY <1>2, <1>3, <1>4, <1>5, <1>6, Steps

-------------------------------------------------------------------------------
(* While flash lacks nothing *)

\* What a boot would list, when no item lies beyond the count.
LEMMA StoredWhole ==
    ASSUME TypeOK, ItemsOK, \A i \in Items : Written(i) => i <= nvs.count
    PROVE  /\ Readable = {i \in Items : Written(i)}
           /\ nvs.legacy = <<>> => StoredIds = {nvs.items[i].id : i \in {i \in Items : Written(i)}}
<1>1. nvs.count \in 0 .. MaxKeysets /\ MaxKeysets \in Nat
  BY ConstantTypes DEF TypeOK
<1>2. Readable = {i \in Items : Written(i)}
  BY <1>1 DEF Readable, Items, Written
<1>3. ASSUME nvs.legacy = <<>>, nvs.count = 0
      PROVE  StoredIds = {nvs.items[i].id : i \in {i \in Items : Written(i)}}
  <2>1. StoredIds = {}
    BY <1>3 DEF StoredIds, IdsOf
  <2>2. {i \in Items : Written(i)} = {}
    BY <1>1, <1>3 DEF Items
  <2> QED BY <2>1, <2>2
<1>4. CASE nvs.count > 0
  BY <1>2, <1>4 DEF StoredIds
<1> QED BY <1>1, <1>2, <1>3, <1>4

\* One step of the two, for a flash that lacks nothing before and after.
LEMMA WholeStep ==
    ASSUME TypeOK, RowsOK, ItemsOK, SaveOK, InPlace, Listed, ~short, [Next]_vars, ~short'
    PROVE  Distinct(keysets') /\ InPlace' /\ Listed'
<1>1. /\ nvs \in Flash /\ NoBlob \notin Keyset /\ MaxKeysets \in Nat
      /\ at \in 0 .. MaxKeysets + 1 /\ Distinct(keysets)
      /\ keysets \in Seq(Keyset) /\ DOMAIN keysets = 1 .. Len(keysets) /\ Len(keysets) \in Nat
      /\ nvs.count \in Nat /\ nvs.count <= MaxKeysets
  BY FlashType, ConstantTypes DEF TypeOK
<1>2. CASE Elsewhere
  <2>1. /\ UNCHANGED <<keysets, nvs, at, short>>
        /\ stage' = stage \/ (stage = "idle" /\ stage' = "infos")
        /\ stage # "idle" => held' = held
    BY <1>2, ElsewhereStep
  <2>2. StoredIds' = StoredIds
    BY <2>1 DEF StoredIds, Readable
  <2>3. held' \subseteq StoredIds
    <3>1. CASE held' \subseteq held
      BY <3>1 DEF Listed
    <3>2. ASSUME NEW unit \in Units, Receive(unit)
          PROVE  held' \subseteq StoredIds
      <4>1. Choice(unit) \subseteq IdsOf(keysets)
        BY DEF Choice, Mintable, IdsOf
      <4> QED BY <3>2, <4>1 DEF Receive, Listed
    <3>3. held' \subseteq held \/ \E unit \in Units : Receive(unit)
      BY <1>2 DEF Elsewhere, vars, mintVars, Rotate, Spend, RaiseFee, FetchInfos
    <3> QED BY <3>1, <3>2, <3>3
  <2>4. Listed'
    BY <2>1, <2>2, <2>3 DEF Listed
  <2>5. InPlace'
    BY <2>1 DEF InPlace, Written
  <2> QED BY <1>1, <2>1, <2>4, <2>5
<1>3. CASE FetchKeys
  <2>1. UNCHANGED <<held, nvs>> /\ stage = "infos"
    BY <1>3 DEF FetchKeys
  <2>2. /\ keysets' \in Seq(Keyset) /\ Len(keysets') >= Len(keysets)
        /\ \A i \in DOMAIN keysets : i \in DOMAIN keysets' /\ keysets'[i].id = keysets[i].id
        /\ Distinct(keysets')
        /\ stage' = "opening" \/ (stage' = "idle" /\ keysets' = keysets)
    BY <1>1, <1>3, Refreshed
  <2>3. Len(keysets') \in Nat
    BY <2>2
  <2>4. ASSUME nvs.legacy = <<>>, NEW i \in Items, Written(i)
        PROVE  i <= Len(keysets') /\ nvs.items[i].id = keysets'[i].id
    <3>1. i <= Len(keysets) /\ nvs.items[i].id = keysets[i].id /\ i \in DOMAIN keysets
      BY <1>1, <2>1, <2>4 DEF InPlace, Items
    <3> QED BY <1>1, <2>2, <2>3, <3>1 DEF Items
  <2>5. InPlace'
    BY <2>1, <2>4 DEF InPlace, Written
  <2>6. StoredIds' = StoredIds
    BY <2>1 DEF StoredIds, Readable
  <2>7. Listed'
    BY <2>1, <2>2, <2>6 DEF Listed
  <2> QED BY <2>2, <2>5, <2>7
<1>4. CASE Open
  <2>1. /\ UNCHANGED <<keysets, held>> /\ stage' = "counting" /\ stage = "opening"
        /\ Len(keysets) <= MaxKeysets /\ nvs.legacy = <<>>
        /\ nvs'.legacy = <<>> /\ nvs'.count = nvs.count /\ nvs'.items = nvs.items
    <3>1. ~(Len(keysets) > MaxKeysets) /\ nvs.legacy = <<>>
      BY <1>4, Zenon DEF Open
    <3>2. UNCHANGED <<keysets, held>> /\ stage' = "counting" /\ stage = "opening"
      BY <1>4 DEF Open
    <3> QED BY <1>1, <1>4, <3>1, <3>2, OtherWrites
  <2>2. InPlace'
    BY <2>1 DEF InPlace, Written
  <2>3. StoredIds' = StoredIds
    BY <2>1 DEF StoredIds, Readable
  <2>4. Listed'
    BY <2>1, <2>3 DEF Listed
  <2> QED BY <1>1, <2>1, <2>2, <2>4
<1>5. CASE SaveCount
  <2>1. /\ UNCHANGED <<keysets, held>> /\ stage' = "writing" /\ stage = "counting"
        /\ nvs'.legacy = nvs.legacy /\ nvs'.count = Saved /\ nvs'.items = nvs.items
    BY <1>5, OtherWrites DEF SaveCount
  <2>2. Len(keysets) <= MaxKeysets /\ Saved = Len(keysets) /\ nvs.legacy = <<>>
    BY <2>1, SavedType DEF Listed, ItemsOK
  <2>3. \A i \in Items : Written(i) => i <= nvs'.count
    BY <2>1, <2>2 DEF InPlace
  <2>4. InPlace'
    BY <2>1, <2>2, <2>3 DEF InPlace, Written
  <2>5. ASSUME NEW i \in Items, Written(i)
        PROVE  nvs'.count > 0 /\ i \in Readable'
    BY <1>1, <2>1, <2>2, <2>3, <2>5 DEF Readable, Written, Items
  <2>6. StoredIds \subseteq StoredIds'
    <3>1. StoredIds = {nvs.items[i].id : i \in {i \in Items : Written(i)}}
      BY <2>2, StoredWhole DEF InPlace
    <3>2. ASSUME NEW i \in Items, Written(i)
          PROVE  nvs.items[i].id \in StoredIds'
      BY <2>1, <2>5, <3>2 DEF StoredIds
    <3> QED BY <3>1, <3>2
  <2>7. Listed'
    BY <2>1, <2>2, <2>6 DEF Listed
  <2> QED BY <1>1, <2>1, <2>4, <2>7
<1>6. CASE SaveItem
  <2>1. UNCHANGED <<keysets, held>> /\ stage' = "writing" /\ stage = "writing"
    BY <1>6 DEF SaveItem
  <2>2. PICK i \in DOMAIN keysets :
            /\ Place(i) = at /\ at \in Items /\ at <= Saved /\ keysets[i] \in Keyset
            /\ nvs'.count = nvs.count /\ nvs'.legacy = nvs.legacy
            /\ \A j \in Items : nvs'.items[j] = IF j = at THEN keysets[i] ELSE nvs.items[j]
    BY <1>6, ItemSaved
  <2>3. Len(keysets) <= MaxKeysets /\ nvs.legacy = <<>> /\ nvs.count = Saved /\ i = at
    BY <2>1, <2>2 DEF Listed, ItemsOK, SaveOK, Place
  <2>4. at <= Len(keysets) /\ at \in DOMAIN keysets
    BY <2>2, <2>3
  <2>5. ASSUME NEW j \in Items, Written(j)'
        PROVE  /\ j <= nvs'.count /\ j \in DOMAIN keysets
               /\ nvs'.items[j].id = keysets[j].id
    <3>1. CASE j = at
      BY <2>2, <2>3, <2>4, <3>1
    <3>2. CASE j # at
      <4>1. Written(j) /\ nvs'.items[j] = nvs.items[j]
        BY <2>2, <2>5, <3>2 DEF Written
      <4> QED BY <1>1, <2>1, <2>2, <2>3, <4>1 DEF InPlace, Items
    <3> QED BY <3>1, <3>2
  <2>6. InPlace'
    <3>1. \A j \in Items : Written(j)' => j <= nvs'.count
      BY <2>5
    <3>2. \A k, j \in Items :
            Written(k)' /\ Written(j)' /\ nvs'.items[k].id = nvs'.items[j].id => k = j
      BY <1>1, <2>5 DEF Distinct
    <3>3. \A j \in Items :
            Written(j)' => j <= Len(keysets) /\ nvs'.items[j].id = keysets[j].id
      BY <1>1, <2>5
    <3> QED BY <2>1, <3>1, <3>2, <3>3 DEF InPlace, Items
  <2>7. StoredIds \subseteq StoredIds'
    <3>1. StoredIds = {nvs.items[j].id : j \in {j \in Items : Written(j)}}
      BY <2>3, StoredWhole DEF InPlace
    <3>2. ASSUME NEW j \in Items, Written(j)
          PROVE  nvs.items[j].id \in StoredIds'
      <4>1. nvs.items[j].id = keysets[j].id /\ j <= nvs.count
        BY <2>1, <2>3, <3>2 DEF InPlace
      <4>2. Written(j)'
        BY <1>1, <2>2, <3>2 DEF Written
      <4>3. nvs'.items[j].id = nvs.items[j].id
        BY <2>5, <4>1, <4>2
      <4>4. nvs'.count > 0 /\ j \in Readable'
        BY <1>1, <2>2, <4>1, <4>2 DEF Readable, Written, Items
      <4> QED BY <4>3, <4>4 DEF StoredIds
    <3> QED BY <3>1, <3>2
  <2>8. Listed'
    BY <2>1, <2>3, <2>7 DEF Listed
  <2> QED BY <1>1, <2>1, <2>6, <2>8
<1>7. CASE EraseRest
  <2>1. /\ UNCHANGED <<keysets, held>> /\ stage' = "idle" /\ stage = "writing"
        /\ nvs'.legacy = nvs.legacy /\ nvs'.count = nvs.count
        /\ \A j \in Items : nvs'.items[j] = IF j < at THEN nvs.items[j] ELSE NoBlob
    BY <1>7, OtherWrites DEF EraseRest
  <2>2. /\ Len(keysets) <= MaxKeysets /\ nvs.legacy = <<>> /\ nvs.count = Saved
        /\ Saved = Len(keysets)
    BY <2>1, SavedType DEF Listed, ItemsOK, SaveOK
  <2>3. at = Len(keysets) + 1
    BY <1>1, <1>7, <2>2 DEF EraseRest, SaveOK
  <2>4. ASSUME NEW j \in Items
        PROVE  Written(j)' <=> Written(j)
    BY <1>1, <2>1, <2>2, <2>3 DEF Written, InPlace, Items
  <2>5. ASSUME NEW j \in Items, Written(j)
        PROVE  nvs'.items[j] = nvs.items[j] /\ j <= nvs'.count
    BY <2>1, <2>4, <2>5 DEF Written, InPlace
  <2>6. InPlace'
    BY <2>1, <2>2, <2>4, <2>5 DEF InPlace
  <2>7. ASSUME NEW i \in DOMAIN keysets
        PROVE  i \in Items /\ Written(i) /\ nvs.items[i] = keysets[i]
    <3>1. i \in Items /\ Place(i) = i /\ Place(i) < at
      BY <1>1, <2>2, <2>3 DEF Place, Items
    <3>2. nvs.items[i] = keysets[i]
      BY <2>1, <3>1 DEF SaveOK
    <3> QED BY <1>1, <3>1, <3>2 DEF Written
  <2>8. ASSUME NEW j \in Items, Written(j)
        PROVE  nvs.items[j].id \in StoredIds'
    <3>1. nvs'.count > 0 /\ j \in Readable'
      BY <1>1, <2>1, <2>4, <2>5, <2>8 DEF Readable, Written, Items
    <3> QED BY <2>5, <2>8, <3>1 DEF StoredIds
  <2>9. IdsOf(keysets) \subseteq StoredIds'
    BY <2>7, <2>8 DEF IdsOf
  <2>10. held \subseteq StoredIds'
    <3>1. StoredIds = {nvs.items[j].id : j \in {j \in Items : Written(j)}}
      BY <2>2, StoredWhole DEF InPlace
    <3> QED BY <2>8, <3>1 DEF Listed
  <2>11. Listed'
    BY <2>1, <2>9, <2>10 DEF Listed, IdsOf
  <2> QED BY <1>1, <2>1, <2>6, <2>11
<1>8. CASE PowerLoss
  <2>1. UNCHANGED <<nvs, held>> /\ stage' = "off" /\ keysets' = <<>>
    BY <1>8 DEF PowerLoss
  <2>2. InPlace'
    BY <2>1 DEF InPlace, Written
  <2>3. StoredIds' = StoredIds
    BY <2>1 DEF StoredIds, Readable
  <2>4. Listed'
    BY <2>1, <2>3 DEF Listed
  <2> QED BY <2>1, <2>2, <2>4 DEF Distinct
<1>9. CASE Boot
  <2>1. UNCHANGED <<nvs, held>> /\ stage' = "idle"
    BY <1>9 DEF Boot
  <2>2. /\ keysets' \in Seq(Keyset)
        /\ nvs.count = 0 => keysets' = nvs.legacy
        /\ nvs.count > 0 =>
             /\ DOMAIN keysets' = Readable
             /\ \A i \in Readable : keysets'[i] = nvs.items[i]
    BY <1>9, Loaded
  <2>3. StoredIds' = StoredIds
    BY <2>1 DEF StoredIds, Readable
  <2>4. CASE nvs.count = 0
    <3>1. Distinct(keysets')
      BY <2>2, <2>4, LegacyAssumption DEF ItemsOK, Distinct
    <3>2. \A i \in Items : ~Written(i)
      BY <2>4 DEF InPlace, Items
    <3>3. InPlace'
      BY <2>1, <3>2 DEF InPlace, Written
    <3>4. IdsOf(keysets') = StoredIds
      BY <2>2, <2>4 DEF StoredIds
    <3>5. Listed'
      BY <2>1, <2>3, <3>4 DEF Listed, IdsOf
    <3> QED BY <3>1, <3>3, <3>5
  <2>5. CASE nvs.count > 0
    <3>1. Readable = {i \in Items : Written(i)}
      BY StoredWhole DEF InPlace
    <3>2. Distinct(keysets')
      BY <2>2, <2>5, <3>1 DEF InPlace, Distinct
    <3>3. DOMAIN keysets' = 1 .. Len(keysets')
      BY <2>2
    <3>4. \A i \in Items : Written(i) => i <= Len(keysets') /\ nvs.items[i].id = keysets'[i].id
      BY <2>2, <2>5, <3>1, <3>3
    <3>5. InPlace'
      BY <2>1, <3>4 DEF InPlace, Written
    <3>6. IdsOf(keysets') \subseteq StoredIds
      BY <2>2, <2>5 DEF StoredIds, IdsOf
    <3>7. Listed'
      BY <2>1, <2>3, <3>6 DEF Listed, IdsOf
    <3> QED BY <3>2, <3>5, <3>7
  <2> QED BY <1>1, <2>4, <2>5
<1>10. ~SaveFails
  BY DEF SaveFails
<1> QED BY <1>2, <1>3, <1>4, <1>5, <1>6, <1>7, <1>8, <1>9, <1>10, Steps

-------------------------------------------------------------------------------
(* The invariant *)

LEMMA KeysetInvInit == Init => KeysetInv
<1> SUFFICES ASSUME Init
             PROVE  KeysetInv
  OBVIOUS
<1>1. PICK list \in LegacyLists :
        /\ nvs = [count |-> 0, items |-> [i \in 1 .. MaxKeysets |-> NoBlob], legacy |-> list]
        /\ held \in SUBSET IdsOf(list)
  BY DEF Init
<1>2. list \in Seq(Keyset)
  BY <1>1, LegacyAssumption
<1>3. MaxKeysets \in Nat /\ held \subseteq Ids
  BY <1>1, <1>2, ConstantTypes DEF IdsOf
<1>4. TypeOK
  <2>1. <<>> \in Seq(Keyset) /\ Distinct(<<>>)
    BY DEF Distinct
  <2>2. nvs \in [count : 0 .. MaxKeysets,
                 items : [1 .. MaxKeysets -> Keyset \cup {NoBlob}], legacy : Seq(Keyset)]
    BY <1>1, <1>2, <1>3
  <2>3. /\ offers \subseteq Ids /\ dear \subseteq Ids
        /\ stage = "off" /\ at = 0 /\ short = FALSE /\ keysets = <<>> /\ infos = {}
    BY DEF Init
  <2>4. infos \subseteq Keyset /\ Cardinality(infos) <= MaxKeysets
    BY <2>3, NoRows
  <2>5. keysets \in Seq(Keyset) /\ Distinct(keysets)
    BY <2>1, <2>3
  <2>6. at \in 0 .. MaxKeysets + 1
    BY <1>3, <2>3
  <2> QED BY <1>3, <2>2, <2>3, <2>4, <2>5, <2>6 DEF TypeOK
<1>5. RowsOK
  BY NoRows DEF Init, RowsOK
<1>6. ItemsOK /\ SaveOK /\ \A i \in Items : ~Written(i)
  BY <1>1 DEF Init, ItemsOK, SaveOK, Written, Items
<1>7. InPlace
  BY <1>6 DEF InPlace
<1>8. Listed
  <2>1. StoredIds = IdsOf(list)
    BY <1>1 DEF StoredIds
  <2> QED BY <1>1, <2>1 DEF Init, Listed
<1> QED BY <1>4, <1>5, <1>6, <1>7, <1>8 DEF KeysetInv

LEMMA KeysetInvNext == KeysetInv /\ [Next]_vars => KeysetInv'
<1> SUFFICES ASSUME KeysetInv, [Next]_vars
             PROVE  KeysetInv'
  OBVIOUS
<1>1. TypeOK /\ RowsOK /\ ItemsOK /\ SaveOK /\ short \in BOOLEAN
  BY DEF KeysetInv, TypeOK
<1>2. short => short'
  <2>1. short' = short \/ SaveFails \/ Open
    BY DEF Next, vars, Rotate, RaiseFee, FetchInfos, FetchKeys, SaveCount, SaveItem,
           EraseRest, PowerLoss, Boot, Receive, Spend
  <2> QED BY <1>1, <2>1 DEF SaveFails, Open
<1>3. ~short' => Distinct(keysets') /\ InPlace' /\ Listed'
  BY <1>1, <1>2, WholeStep DEF KeysetInv
<1>4. TypeOK'
  BY <1>3, TypedStep
<1> QED BY <1>1, <1>3, <1>4, RowsStep, ItemsStep, SaveStep DEF KeysetInv

LEMMA KeysetInvAlways == Spec => []KeysetInv
BY KeysetInvInit, KeysetInvNext, PTL DEF Spec

\* merge_keysets, save_keysets, load_keysets_nvs: the list is well formed, and no
\* keyset is listed twice while no save was refused or cut back by the cap.
THEOREM KeysetsTyped == Spec => []TypeOK
<1>1. KeysetInv => TypeOK
  BY DEF KeysetInv
<1> QED BY <1>1, KeysetInvAlways, PTL

\* save_keysets: with power lost between any two of its writes, flash lists the
\* keysets of all proofs.
THEOREM HeldStaysListed == Spec => []HeldListed
<1>1. KeysetInv => HeldListed
  BY DEF KeysetInv, Listed, HeldListed
<1> QED BY <1>1, KeysetInvAlways, PTL

-------------------------------------------------------------------------------
(* The cap *)

\* Only keysets of other proofs come before one that proofs refer to.
LEMMA HeldComesFirst ==
    ASSUME TypeOK, Len(keysets) > MaxKeysets,
           NEW i \in DOMAIN keysets, First(i), keysets[i].id \in held
    PROVE  Place(i) <= Cardinality(held \cap IdsOf(keysets))
<1> DEFINE ours == held \cap IdsOf(keysets)
           others == ours \ {keysets[i].id}
           f == [j \in Before(i) |-> keysets[j].id]
<1>1. DOMAIN keysets = 1 .. Len(keysets) /\ Len(keysets) \in Nat
  BY DEF TypeOK
<1>2. IsFiniteSet(ours)
  BY KeysetAssumption, FS_Subset DEF TypeOK
<1>3. \A j \in Before(i) : j \in DOMAIN keysets /\ j < i /\ First(j) /\ keysets[j].id \in held
  BY DEF Before, Rank
<1>4. keysets[i].id \in ours
  BY DEF IdsOf
<1>5. \A j \in Before(i) : keysets[j].id \in others
  BY <1>1, <1>3 DEF First, IdsOf
<1>6. \A j, k \in Before(i) : keysets[j].id = keysets[k].id => j = k
  BY <1>1, <1>3 DEF First
<1>7. f \in Injection(Before(i), others)
  BY <1>5, <1>6 DEF Injection, IsInjective
<1>8. IsFiniteSet(others) /\ Cardinality(others) = Cardinality(ours) - 1
  BY <1>2, <1>4, FS_RemoveElement
<1>9. Cardinality(Before(i)) <= Cardinality(others)
  BY <1>7, <1>8, FS_Injection
<1>10. Cardinality(ours) \in Nat
  BY <1>2, FS_CardinalityType
<1>11. Place(i) = Cardinality(Before(i)) + 1
  BY <1>1, ConstantTypes DEF Place
<1> HIDE DEF others, ours
<1>12. Place(i) <= Cardinality(ours)
  BY <1>8, <1>9, <1>10, <1>11, BeforeFinite
<1> QED BY <1>12 DEF ours

LEMMA FirstExists ==
    ASSUME TypeOK, NEW id \in IdsOf(keysets)
    PROVE  \E i \in DOMAIN keysets : First(i) /\ keysets[i].id = id
<1> DEFINE entries == {i \in DOMAIN keysets : keysets[i].id = id}
<1>1. DOMAIN keysets = 1 .. Len(keysets) /\ Len(keysets) \in Nat
  BY DEF TypeOK
<1>2. entries \subseteq Nat /\ entries # {}
  BY <1>1 DEF IdsOf
<1>3. PICK i \in entries : \A j \in entries : ~(<<j, i>> \in Below)
  BY <1>2, BelowWellFounded, WFMin
<1>4. \A j \in entries : ~(j < i)
  BY <1>2, <1>3 DEF Below
<1> QED BY <1>1, <1>3, <1>4 DEF First

LEMMA SaveKeepsHeld ==
    ASSUME TypeOK, SaveOK, ItemsOK, EraseRest, ~(Len(keysets) > 255),
           ~(Cardinality(held \cap IdsOf(keysets)) > MaxKeysets)
    PROVE  held \cap IdsOf(keysets) \subseteq StoredIds'
<1> SUFFICES ASSUME NEW id \in held \cap IdsOf(keysets)
             PROVE  id \in StoredIds'
  OBVIOUS
<1>1. PICK i \in DOMAIN keysets : First(i) /\ keysets[i].id = id
  BY FirstExists
<1>2. /\ nvs'.count = Saved /\ at = Saved + 1
      /\ \A j \in Items : nvs'.items[j] = IF j < at THEN nvs.items[j] ELSE NoBlob
      /\ stage = "writing"
  BY OtherWrites, SavedType, ConstantTypes DEF EraseRest, SaveOK
<1>3. /\ Place(i) \in Nat /\ Place(i) > 0 /\ MaxKeysets \in Nat
      /\ Saved \in Nat /\ Saved <= MaxKeysets /\ Len(keysets) \in Nat
      /\ i \in Nat /\ i <= Len(keysets)
      /\ Cardinality(held \cap IdsOf(keysets)) \in Nat
  <2>1. IsFiniteSet(held \cap IdsOf(keysets))
    BY KeysetAssumption, FS_Subset DEF TypeOK
  <2> QED BY <2>1, FS_CardinalityType, PlaceType, SavedType, ConstantTypes DEF TypeOK
<1>4. Place(i) <= Saved
  <2>1. CASE Len(keysets) <= MaxKeysets
    BY <1>3, <2>1, SavedType DEF Place
  <2>2. CASE Len(keysets) > MaxKeysets
    <3>1. Place(i) <= Cardinality(held \cap IdsOf(keysets))
      BY <1>1, <2>2, HeldComesFirst
    <3> QED BY <1>3, <2>2, <3>1, SavedType
  <2> QED BY <1>3, <2>1, <2>2
<1>5. Place(i) \in Items /\ Place(i) < at
  BY <1>2, <1>3, <1>4 DEF Items
<1>6. nvs.items[Place(i)] = keysets[i] /\ keysets[i] \in Keyset
  BY <1>2, <1>5 DEF SaveOK, TypeOK
<1>7. nvs'.items[Place(i)] = keysets[i]
  BY <1>2, <1>5, <1>6
<1>8. nvs'.count > 0 /\ Place(i) \in Readable'
  BY <1>2, <1>3, <1>4, <1>6, <1>7, ConstantTypes DEF Readable
<1> QED BY <1>1, <1>7, <1>8 DEF StoredIds

\* save_keysets: of more keysets than MAX_KEYSETS, the ones it drops are not those of
\* held proofs, if these alone fit.
THEOREM CapPrefersHeld == Spec => CapKeepsHeld
<1>1. KeysetInv /\ [Next]_vars =>
        [stage = "writing" /\ at > Saved /\ stage' = "idle"
            => \/ held \cap IdsOf(keysets) \subseteq StoredIds'
               \/ Cardinality(held \cap IdsOf(keysets)) > MaxKeysets
               \/ Len(keysets) > 255]_vars
  <2> SUFFICES ASSUME KeysetInv, [Next]_vars, stage = "writing", at > Saved, stage' = "idle",
                      ~(Cardinality(held \cap IdsOf(keysets)) > MaxKeysets),
                      ~(Len(keysets) > 255)
               PROVE  held \cap IdsOf(keysets) \subseteq StoredIds'
    OBVIOUS
  <2>1. TypeOK /\ SaveOK /\ ItemsOK
    BY DEF KeysetInv
  <2>2. Elsewhere => stage' = stage
    BY ElsewhereStep
  <2>3. at \in Nat /\ Saved \in Nat
    BY <2>1, SavedType, ConstantTypes DEF TypeOK
  <2>4. EraseRest
    <3>1. ~FetchKeys /\ ~Open /\ ~SaveCount
      BY DEF FetchKeys, Open, SaveCount
    <3>2. ~SaveItem /\ ~SaveFails
      BY <2>3 DEF SaveItem, SaveFails
    <3>3. ~PowerLoss /\ ~Boot
      BY DEF PowerLoss, Boot
    <3> QED BY <2>2, <3>1, <3>2, <3>3, Steps
  <2> QED BY <2>1, <2>4, SaveKeepsHeld
<1> QED BY <1>1, KeysetInvAlways, PTL DEF Spec, CapKeepsHeld
===============================================================================
