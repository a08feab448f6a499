------------------------ MODULE WorktreeRegistryProofs ------------------------
(***************************************************************************)
(* Proofs about WorktreeRegistry: ids of worktrees and what a stored       *)
(* enumeration leaves in table worktrees, for any links, places and        *)
(* scanning processes.                                                     *)
(***************************************************************************)
EXTENDS WorktreeRegistry, FiniteSetTheorems, SequenceTheorems, TLAPS

Transactions == [by : Scanners, rows : [Ids -> Rows \cup {None}], observed : SUBSET Ids]

\* What the constants are: different things have different names, and Git has
\* finitely many links.
RegConstants ==
  /\ IsFiniteSet(Links) /\ MaxChanges \in Nat /\ MaxFaults \in Nat
  /\ Root \notin Links \cup Places
  /\ None \notin Links \cup Paths /\ None \notin Ids
  /\ None \notin Rows /\ None \notin Transactions

-----------------------------------------------------------------------------
\* What a listed worktree may be: an association that was proved decides the id
\* (IdOf), and only the root is proved to be the root.
SoundItem(item) ==
  /\ item.proved = Root => item.id = Primary
  /\ \A l \in Links : item.proved = l => item.id = Linked(l)
  /\ item.proved = None => item.id \in {None, Unverified(item.path)}

\* A probe is inside its listing; before the rows are saved the index is 1.
Indexed(s) ==
  /\ scan[s] = "probe" => next[s] <= Len(listed[s])
  /\ scan[s] = "common" => Len(listed[s]) > 0
  /\ scan[s] \in {"idle", "common", "begin"} => next[s] = 1

\* The process in "save" is the one whose transaction is open.
Owner(s) == scan[s] = "save" <=> transaction # None /\ transaction.by = s

\* What an open transaction has written so far: sound rows, and one live row
\* for each worktree before next.
SoundTransaction ==
  transaction # None =>
    /\ \A i \in Ids : transaction.rows[i] # None => NamesOneCheckout(i, transaction.rows[i])
    /\ transaction.observed \subseteq LiveIn(transaction.rows)
    /\ IsFiniteSet(transaction.observed)
    /\ Cardinality(transaction.observed) = next[transaction.by] - 1

RegInv ==
  /\ RegTypeOK
  /\ transaction # None => transaction \in Transactions
  /\ \A s \in Scanners : Indexed(s) /\ Owner(s)
  /\ \A s \in Scanners : \A n \in 1..Len(listed[s]) : SoundItem(listed[s][n])
  /\ IdNamesOneCheckout
  /\ SoundTransaction

-----------------------------------------------------------------------------
\* Ids and associations of different checkouts, and of different kinds, differ.
LEMMA IdsDiffer ==
  ASSUME RegConstants
  PROVE  /\ Primary \in Ids /\ Null \in Associations /\ Root \in Paths
         /\ \A l \in Links : Linked(l) \in Ids /\ <<"verified", l>> \in Associations
         /\ \A d \in Paths : Unverified(d) \in Ids \cap Associations
         /\ \A l, m \in Links : Linked(l) = Linked(m) => l = m
         /\ \A l, m \in Links : <<"verified", l>> = <<"verified", m>> => l = m
         /\ \A d, e \in Paths : Unverified(d) = Unverified(e) => d = e
         /\ \A l \in Links : Linked(l) # Primary /\ <<"verified", l>> # Null
         /\ \A d \in Paths : Unverified(d) # Primary /\ Unverified(d) # Null
         /\ \A l \in Links, d \in Paths :
              Unverified(d) # Linked(l) /\ Unverified(d) # <<"verified", l>>
BY DEF RegConstants, Primary, Null, Linked, Unverified, Ids, Associations, Paths

\* A function on 1..n is a sequence of length n, and one more in front shifts it.
LEMMA FunctionIsSequence ==
  ASSUME NEW S, NEW n \in Nat, NEW f \in [1..n -> S]
  PROVE  f \in Seq(S) /\ Len(f) = n
<1>1. f \in Seq(S)
  BY SeqDef
<1> QED BY <1>1, LenProperties

LEMMA OneInFront ==
  ASSUME NEW S, NEW e \in S, NEW f \in Seq(S)
  PROVE  /\ <<e>> \o f \in Seq(S) /\ Len(<<e>> \o f) = Len(f) + 1
         /\ \A n \in 1..Len(f) + 1 : (<<e>> \o f)[n] = IF n = 1 THEN e ELSE f[n - 1]
<1>1. <<e>> \in Seq(S) /\ Len(<<e>>) = 1 /\ Len(f) \in Nat
  OBVIOUS
<1>2. /\ <<e>> \o f \in Seq(S) /\ Len(<<e>> \o f) = 1 + Len(f)
      /\ \A n \in 1..1 + Len(f) :
           (<<e>> \o f)[n] = IF n <= 1 THEN <<e>>[n] ELSE f[n - 1]
  BY <1>1, ConcatProperties
<1> QED BY <1>1, <1>2

\* What git worktree list gives is a listing of sound items, the root first.
LEMMA AdvertisedIsSound ==
  ASSUME RegConstants, RegTypeOK,
         NEW order \in SetToSeqs({l \in Links : linkAt[l] # None})
  PROVE  /\ Advertised(order) \in Seq(Items) /\ Len(Advertised(order)) > 0
         /\ \A n \in 1..Len(Advertised(order)) : SoundItem(Advertised(order)[n])
<1> DEFINE S == {l \in Links : linkAt[l] # None}
           N == Cardinality(S)
           place(n) == linkAt[order[n]]
           gone(n) == owner[place(n)] = None
           item(n) == [path |-> place(n), prunable |-> gone(n), proved |-> None,
                       id |-> IF gone(n) THEN Unverified(place(n)) ELSE None]
           first == [path |-> Root, prunable |-> FALSE, proved |-> None, id |-> None]
           others == [n \in DOMAIN order |-> item(n)]
<1>1. N \in Nat
  BY FS_Subset, FS_CardinalityType DEF RegConstants
<1>2. order \in [1..N -> S]
  BY DEF SetToSeqs
<1>3. \A n \in 1..N : place(n) \in Places
  <2>1. linkAt \in [Links -> Places \cup {None}]
    BY DEF RegTypeOK
  <2> QED BY <1>2, <2>1
<1>4. \A n \in 1..N : item(n) \in Items /\ SoundItem(item(n))
  BY <1>3, IdsDiffer DEF RegConstants, SoundItem, Items, Paths
<1>5. first \in Items /\ SoundItem(first)
  BY DEF RegConstants, SoundItem, Items, Paths
<1>6. Advertised(order) = <<first>> \o others
  BY DEF Advertised
<1> HIDE DEF item, first, place, gone
<1>7. others \in [1..N -> Items]
  BY <1>2, <1>4
<1>8. others \in Seq(Items) /\ Len(others) = N
  BY <1>1, <1>7, FunctionIsSequence
<1> HIDE DEF N
<1>9. \A n \in 2..N + 1 : n - 1 \in 1..N
  BY <1>1
<1>10. \A n \in 2..N + 1 : others[n - 1] = item(n - 1)
  BY <1>2, <1>9
<1> HIDE DEF others
<1>11. /\ <<first>> \o others \in Seq(Items) /\ Len(<<first>> \o others) = N + 1
      /\ \A n \in 1..N + 1 : (<<first>> \o others)[n] = IF n = 1 THEN first ELSE others[n - 1]
  BY <1>1, <1>5, <1>8, OneInFront
<1> QED BY <1>1, <1>4, <1>5, <1>6, <1>9, <1>10, <1>11

-----------------------------------------------------------------------------
LEMMA RegInitially ==
  ASSUME RegConstants, RegInit
  PROVE  RegInv
<1>1. RegTypeOK
  BY DEF RegConstants, RegInit, RegTypeOK, Items
<1>2. \A s \in Scanners : Indexed(s) /\ Owner(s)
  BY DEF RegInit, Indexed, Owner
<1>3. IdNamesOneCheckout /\ SoundTransaction
  BY DEF RegInit, IdNamesOneCheckout, SoundTransaction
<1>4. \A s \in Scanners : \A n \in 1..Len(listed[s]) : SoundItem(listed[s][n])
  BY DEF RegInit
<1> QED BY <1>1, <1>2, <1>3, <1>4 DEF RegInit, RegInv

\* A change of the checkouts keeps the registry and the scans as they are.
LEMMA CheckoutStep ==
  ASSUME RegConstants, RegInv, Checkout
  PROVE  RegInv'
<1>1. /\ linkAt' \in [Links -> Places \cup {None}] /\ owner' \in [Places -> Links \cup {None}]
      /\ changes' \in 0..MaxChanges
  <2>1. CASE \E l \in Links : PruneLink(l)
    BY <2>1 DEF RegConstants, RegInv, RegTypeOK, PruneLink, Changes
  <2>2. CASE \E d \in Places : DeletePlace(d)
    BY <2>2 DEF RegConstants, RegInv, RegTypeOK, DeletePlace, Changes
  <2>3. ASSUME NEW l \in Links, NEW d \in Places
        PROVE  PlacedAt(l, d) \in [Links -> Places \cup {None}]
    BY DEF RegInv, RegTypeOK, PlacedAt
  <2>4. CASE \E l \in Links, d \in Places : AddLink(l, d)
    BY <2>3, <2>4 DEF RegConstants, RegInv, RegTypeOK, AddLink, Changes
  <2>5. CASE \E l \in Links, d \in Places : MoveLink(l, d)
    <3>1. /\ linkAt \in [Links -> Places \cup {None}] /\ owner \in [Places -> Links \cup {None}]
          /\ changes \in 0..MaxChanges /\ MaxChanges \in Nat
      BY DEF RegConstants, RegInv, RegTypeOK
    <3> QED BY <2>3, <2>5, <3>1 DEF MoveLink, Changes
  <2> QED BY <2>1, <2>2, <2>4, <2>5 DEF Checkout
<1>2. UNCHANGED <<faults, registry, scan, listed, complete, next, transaction>>
  BY DEF Checkout, PruneLink, DeletePlace, AddLink, MoveLink, Changes, progress
<1>3. RegTypeOK'
  BY <1>1, <1>2 DEF RegInv, RegTypeOK
<1>4. \A s \in Scanners : (Indexed(s) /\ Owner(s))'
  BY <1>2 DEF RegInv, Indexed, Owner
<1>5. IdNamesOneCheckout' /\ SoundTransaction'
  BY <1>2 DEF RegInv, IdNamesOneCheckout, SoundTransaction, LiveIn
<1>6. (\A s \in Scanners : \A n \in 1..Len(listed[s]) : SoundItem(listed[s][n]))'
  BY <1>2 DEF RegInv
<1> QED BY <1>2, <1>3, <1>4, <1>5, <1>6 DEF RegInv

\* Reading Git: the registry and the open transaction stay, and a process that
\* saves is not disturbed.
LEMMA ReadingKeepsTheRegistry ==
  ASSUME RegInv, NEW s \in Scanners, scan[s] # "save", scan'[s] # "save",
         UNCHANGED <<linkAt, owner, changes, registry, transaction>>,
         RegTypeOK', Indexed(s)',
         \A n \in 1..Len(listed'[s]) : SoundItem(listed'[s][n]),
         \A x \in Scanners \ {s} :
           /\ scan'[x] = scan[x] /\ listed'[x] = listed[x] /\ next'[x] = next[x]
  PROVE  RegInv'
<1>1. \A x \in Scanners : (Indexed(x) /\ Owner(x))'
  BY DEF RegInv, Indexed, Owner
<1>2. IdNamesOneCheckout'
  BY DEF RegInv, IdNamesOneCheckout
<1>3. transaction # None => transaction.by # s /\ transaction.by \in Scanners
  BY DEF RegInv, RegTypeOK, Owner
<1>4. SoundTransaction'
  BY <1>3 DEF RegInv, SoundTransaction, LiveIn
<1>5. (\A x \in Scanners : \A n \in 1..Len(listed[x]) : SoundItem(listed[x][n]))'
  <2>1. ASSUME NEW x \in Scanners, NEW n \in 1..Len(listed'[x]) PROVE SoundItem(listed'[x][n])
    BY DEF RegInv
  <2> QED BY <2>1
<1> QED BY <1>1, <1>2, <1>4, <1>5 DEF RegInv

LEMMA EnumerateStep ==
  ASSUME RegConstants, RegInv, NEW s \in Scanners, Enumerate(s)
  PROVE  RegInv'
<1>1. next' = [next EXCEPT ![s] = 1] /\ UNCHANGED <<linkAt, owner, changes, registry, transaction>>
  BY DEF Enumerate, checkouts
<1>2. scan[s] = "idle" /\ faults' \in 0..MaxFaults
  BY DEF Enumerate, Fails, Works, RegInv, RegTypeOK, RegConstants
<1>3. CASE UNCHANGED <<scan, listed, complete>>
  <2>1. RegTypeOK'
    BY <1>1, <1>2, <1>3, LenProperties DEF RegInv, RegTypeOK
  <2>2. UNCHANGED next
    BY <1>1, <1>2 DEF RegInv, RegTypeOK, Indexed
  <2>3. Indexed(s)'
    BY <1>3, <2>2 DEF RegInv, Indexed
  <2> QED BY <1>1, <1>2, <1>3, <2>1, <2>2, <2>3, ReadingKeepsTheRegistry DEF RegInv
<1>4. ASSUME NEW listing \in Seq(Items), NEW whole \in BOOLEAN, NEW after \in {"begin", "common"},
             \A n \in 1..Len(listing) : SoundItem(listing[n]),
             after = "common" => Len(listing) > 0,
             listed' = [listed EXCEPT ![s] = listing], complete' = [complete EXCEPT ![s] = whole],
             scan' = [scan EXCEPT ![s] = after]
      PROVE  RegInv'
  <2>1. RegTypeOK'
    BY <1>1, <1>2, <1>4, LenProperties DEF RegInv, RegTypeOK
  <2>2. Indexed(s)'
    BY <1>1, <1>4 DEF RegInv, RegTypeOK, Indexed
  <2>3. /\ scan'[s] # "save" /\ listed'[s] = listing
        /\ \A x \in Scanners \ {s} : scan'[x] = scan[x] /\ listed'[x] = listed[x] /\ next'[x] = next[x]
    BY <1>1, <1>4 DEF RegInv, RegTypeOK
  <2> QED BY <1>1, <1>2, <1>4, <2>1, <2>2, <2>3, ReadingKeepsTheRegistry
<1>5. CASE /\ listed' = [listed EXCEPT ![s] = <<>>] /\ complete' = [complete EXCEPT ![s] = FALSE]
           /\ scan' = [scan EXCEPT ![s] = "begin"]
  <2>1. <<>> \in Seq(Items) /\ Len(<<>>) = 0
    BY EmptySeq
  <2> DEFINE listing == <<>>
  <2>2. \A n \in 1..Len(listing) : SoundItem(listing[n])
    BY <2>1
  <2>3. listing \in Seq(Items) /\ listed' = [listed EXCEPT ![s] = listing]
    BY <1>5, <2>1
  <2> HIDE DEF listing
  <2> QED BY <1>4, <1>5, <2>2, <2>3
<1>6. ASSUME NEW order \in SetToSeqs({l \in Links : linkAt[l] # None}),
             listed' = [listed EXCEPT ![s] = Advertised(order)],
             complete' = [complete EXCEPT ![s] = TRUE], scan' = [scan EXCEPT ![s] = "common"]
      PROVE  RegInv'
  BY <1>4, <1>6, AdvertisedIsSound DEF RegInv
<1> QED BY <1>3, <1>5, <1>6 DEF Enumerate

LEMMA ReadCommonStep ==
  ASSUME RegConstants, RegInv, NEW s \in Scanners, ReadCommon(s)
  PROVE  RegInv'
<1>1. /\ scan[s] = "common" /\ faults' \in 0..MaxFaults
      /\ \E after \in {"probe", "begin"} : scan' = [scan EXCEPT ![s] = after]
      /\ UNCHANGED <<linkAt, owner, changes, registry, listed, complete, next, transaction>>
  BY DEF ReadCommon, Fails, Works, RegInv, RegTypeOK, RegConstants, checkouts
<1>2. RegTypeOK'
  BY <1>1 DEF RegInv, RegTypeOK
<1>3. Indexed(s)'
  BY <1>1 DEF RegInv, RegTypeOK, Indexed
<1>4. scan'[s] # "save" /\ \A x \in Scanners \ {s} : scan'[x] = scan[x]
  BY <1>1 DEF RegInv, RegTypeOK
<1> QED BY <1>1, <1>2, <1>3, <1>4, ReadingKeepsTheRegistry DEF RegInv

\* What a probe finds out about a worktree decides its id.
LEMMA ProbedIsSound ==
  ASSUME RegConstants, RegTypeOK, NEW item \in Items, NEW proof \in {Proof(item), None}
  PROVE  /\ [item EXCEPT !.proved = proof, !.id = IdOf(item, proof)] \in Items
         /\ SoundItem([item EXCEPT !.proved = proof, !.id = IdOf(item, proof)])
<1>1. item.path \in Paths /\ proof \in Links \cup {Root, None}
  BY DEF RegTypeOK, Items, Proof, AtRoot, Paths
<1>2. IdOf(item, proof) \in Ids
  BY <1>1, IdsDiffer DEF IdOf
<1>3. /\ proof = Root => IdOf(item, proof) = Primary
      /\ \A l \in Links : proof = l => IdOf(item, proof) = Linked(l)
      /\ proof = None => IdOf(item, proof) = Unverified(item.path)
  BY DEF IdOf, RegConstants, Paths
<1> DEFINE id == IdOf(item, proof)
<1> HIDE DEF id
<1> QED BY <1>1, <1>2, <1>3 DEF Items, SoundItem

LEMMA ProbeStep ==
  ASSUME RegConstants, RegInv, NEW s \in Scanners, Probe(s)
  PROVE  RegInv'
<1> DEFINE listing == listed'[s]
           n == next[s]
           item == listed[s][n]
           Probed == /\ listing \in Seq(Items) /\ Len(listing) = Len(listed[s])
                     /\ \A k \in 1..Len(listing) : SoundItem(listing[k])
                     /\ listed' \in [Scanners -> Seq(Items)]
                     /\ \A x \in Scanners \ {s} : listed'[x] = listed[x]
<1>1. /\ scan[s] = "probe" /\ faults' \in 0..MaxFaults
      /\ UNCHANGED <<linkAt, owner, changes, registry, complete, transaction>>
  BY DEF Probe, Fails, Works, RegInv, RegTypeOK, RegConstants, checkouts
<1>2. n \in 1..Len(listed[s]) /\ listed[s] \in Seq(Items) /\ item \in Items
  BY <1>1, LenProperties DEF RegInv, RegTypeOK, Indexed
<1>3. Probed
  <2>1. CASE UNCHANGED listed
    BY <1>2, <2>1 DEF RegInv, RegTypeOK
  <2>2. ASSUME NEW proof \in {Proof(item), None},
               listed' = [listed EXCEPT ![s][n] =
                            [item EXCEPT !.proved = proof, !.id = IdOf(item, proof)]]
        PROVE  Probed
    <3> DEFINE e == [item EXCEPT !.proved = proof, !.id = IdOf(item, proof)]
    <3>1. e \in Items /\ SoundItem(e)
      BY <1>2, ProbedIsSound DEF RegInv
    <3>2. listing = [listed[s] EXCEPT ![n] = e] /\ listed' = [listed EXCEPT ![s] = listing]
      BY <2>2 DEF RegInv, RegTypeOK
    <3> HIDE DEF e, n
    <3>3. /\ [listed[s] EXCEPT ![n] = e] \in Seq(Items)
          /\ Len([listed[s] EXCEPT ![n] = e]) = Len(listed[s])
          /\ \A k \in 1..Len(listed[s]) :
               [listed[s] EXCEPT ![n] = e][k] = IF k = n THEN e ELSE listed[s][k]
      BY <1>2, <3>1, ExceptSeq
    <3> QED BY <1>2, <3>1, <3>2, <3>3 DEF RegInv, RegTypeOK
  <2> QED BY <2>1, <2>2 DEF Probe
<1>4. /\ \/ n < Len(listed[s]) /\ next' = [next EXCEPT ![s] = n + 1] /\ UNCHANGED scan
         \/ next' = [next EXCEPT ![s] = 1] /\ scan' = [scan EXCEPT ![s] = "begin"]
  BY DEF Probe
<1> HIDE DEF item, listing
<1>5. /\ scan' \in [Scanners -> {"idle", "common", "probe", "begin", "save"}]
      /\ next' \in [Scanners -> Nat] /\ next'[s] \in 1..Len(listing) + 1
      /\ Indexed(s)' /\ scan'[s] # "save"
      /\ \A x \in Scanners \ {s} : scan'[x] = scan[x] /\ next'[x] = next[x]
  <2>1. /\ Len(listing) \in Nat /\ Len(listing) = Len(listed[s]) /\ n \in Nat /\ n >= 1
        /\ scan \in [Scanners -> {"idle", "common", "probe", "begin", "save"}]
        /\ next \in [Scanners -> Nat]
    BY <1>2, <1>3, LenProperties DEF RegInv, RegTypeOK
  <2>2. CASE n < Len(listed[s]) /\ next' = [next EXCEPT ![s] = n + 1] /\ UNCHANGED scan
    BY <1>1, <2>1, <2>2 DEF Indexed, listing
  <2>3. CASE next' = [next EXCEPT ![s] = 1] /\ scan' = [scan EXCEPT ![s] = "begin"]
    BY <2>1, <2>3 DEF Indexed
  <2> QED BY <1>4, <2>2, <2>3
<1>6. RegTypeOK'
  BY <1>1, <1>3, <1>5 DEF RegInv, RegTypeOK, listing
<1> QED BY <1>1, <1>3, <1>5, <1>6, ReadingKeepsTheRegistry DEF listing

-----------------------------------------------------------------------------
\* ReplaceWorktrees begins with the committed rows and nothing observed.
LEMMA BeginStep ==
  ASSUME RegConstants, RegInv, NEW s \in Scanners, Begin(s)
  PROVE  RegInv'
<1>1. /\ scan[s] = "begin" /\ transaction = None /\ scan' = [scan EXCEPT ![s] = "save"]
      /\ transaction' = [by |-> s, rows |-> registry, observed |-> {}]
      /\ UNCHANGED <<linkAt, owner, changes, faults, registry, listed, complete, next>>
  BY DEF Begin, checkouts
<1>2. transaction' \in Transactions /\ transaction' # None
  BY <1>1 DEF RegConstants, RegInv, RegTypeOK, Transactions
<1>3. RegTypeOK'
  BY <1>1, <1>2 DEF RegInv, RegTypeOK, Transactions
<1>4. \A x \in Scanners : (Indexed(x) /\ Owner(x))'
  BY <1>1, <1>2 DEF RegInv, RegTypeOK, Indexed, Owner
<1>5. IdNamesOneCheckout'
  BY <1>1 DEF RegInv, IdNamesOneCheckout
<1>6. SoundTransaction'
  <2>1. \A i \in Ids : registry[i] # None => NamesOneCheckout(i, registry[i])
    BY DEF RegInv, IdNamesOneCheckout
  <2>2. next[s] = 1
    BY <1>1 DEF RegInv, Indexed
  <2>3. Cardinality({}) = 0 /\ IsFiniteSet({})
    BY FS_EmptySet
  <2> QED BY <1>1, <2>1, <2>2, <2>3 DEF SoundTransaction, LiveIn
<1>7. (\A x \in Scanners : \A n \in 1..Len(listed[x]) : SoundItem(listed[x][n]))'
  BY <1>1 DEF RegInv
<1> QED BY <1>2, <1>3, <1>4, <1>5, <1>6, <1>7 DEF RegInv

\* The id of a worktree is the primary one, a durable one, or that of the scan.
IdsFor(rows, item) ==
  IF item.proved = Root THEN {Primary}
  ELSE IF DurableIds(rows, item) = {} THEN {item.id} ELSE DurableIds(rows, item)

\* Whatever id a worktree is saved under, that id stands for this worktree.
LEMMA SavedRowIsSound ==
  ASSUME RegConstants, NEW rows \in [Ids -> Rows \cup {None}],
         \A i \in Ids : rows[i] # None => NamesOneCheckout(i, rows[i]),
         NEW item \in Items, SoundItem(item), NEW observed,
         NEW id \in IdsFor(rows, item), Storable(rows, observed, item, id)
  PROVE  LET row == [association |-> SavedAssociation(item), path |-> item.path, live |-> TRUE]
         IN id \in Ids /\ id \notin observed /\ row \in Rows /\ NamesOneCheckout(id, row)
<1> DEFINE row == [association |-> SavedAssociation(item), path |-> item.path, live |-> TRUE]
<1>1. id \notin observed /\ id # None /\ (id = Primary <=> item.proved = Root)
  BY DEF Storable
<1>2. item.path \in Paths /\ item.proved \in Links \cup {Root, None} /\ item.id \in Ids \cup {None}
  BY DEF Items
<1>3. SavedAssociation(item) \in Associations /\ row \in Rows
  BY <1>2, IdsDiffer DEF SavedAssociation, Rows
<1>4. item.proved = Root \/ id \in DurableIds(rows, item) \/ id = item.id
  BY DEF IdsFor
<1>5. CASE item.proved = Root
  <2>1. SavedAssociation(item) = Null
    BY <1>2, <1>5 DEF SavedAssociation, RegConstants, Paths
  <2> QED BY <1>1, <1>3, <1>5, <2>1, IdsDiffer DEF NamesOneCheckout
<1>6. CASE item.proved = None
  <2>1. SavedAssociation(item) = Unverified(item.path) /\ item.proved # Root
    BY <1>6, <1>2 DEF SavedAssociation, RegConstants, Paths
  <2>2. id # Primary
    BY <1>1, <2>1
  <2>3. id \in Ids /\ \A d \in Paths : id = Unverified(d) => d = item.path
    <3>1. CASE id \in DurableIds(rows, item)
      BY <1>6, <3>1 DEF DurableIds, LiveIn, NamesOneCheckout
    <3>2. CASE id = item.id
      BY <1>1, <1>2, <1>6, <3>2, IdsDiffer DEF SoundItem
    <3> QED BY <1>4, <2>1, <3>1, <3>2
  <2> QED BY <1>1, <1>2, <1>3, <2>1, <2>2, <2>3, IdsDiffer DEF NamesOneCheckout
<1>7. CASE item.proved \in Links
  <2>1. SavedAssociation(item) = <<"verified", item.proved>> /\ item.proved # Root /\ item.proved # None
    BY <1>7 DEF SavedAssociation, RegConstants
  <2>2. id = Linked(item.proved)
    <3>1. CASE id \in DurableIds(rows, item)
      BY <1>7, <2>1, <3>1 DEF DurableIds, LiveIn, NamesOneCheckout
    <3>2. CASE id = item.id
      BY <1>7, <3>2 DEF SoundItem
    <3> QED BY <1>4, <2>1, <3>1, <3>2
  <2> QED BY <1>1, <1>3, <1>7, <2>1, <2>2, IdsDiffer DEF NamesOneCheckout
<1> QED BY <1>2, <1>5, <1>6, <1>7

LEMMA AbandonStep ==
  ASSUME RegConstants, RegInv, NEW s \in Scanners, scan[s] = "save", Abandon(s), faults' \in 0..MaxFaults
  PROVE  RegInv'
<1>1. /\ transaction' = None /\ scan' = [scan EXCEPT ![s] = "idle"] /\ next' = [next EXCEPT ![s] = 1]
      /\ listed' = [listed EXCEPT ![s] = <<>>] /\ complete' = [complete EXCEPT ![s] = FALSE]
      /\ UNCHANGED <<linkAt, owner, changes, registry>>
  BY DEF Abandon, Leave, checkouts
<1>2. RegTypeOK'
  BY <1>1, EmptySeq DEF RegInv, RegTypeOK
<1>3. transaction # None /\ transaction.by = s
  BY DEF RegInv, Owner
<1>4. \A x \in Scanners : (Indexed(x) /\ Owner(x))'
  BY <1>1, <1>3 DEF RegInv, RegTypeOK, Indexed, Owner
<1>5. IdNamesOneCheckout' /\ SoundTransaction'
  BY <1>1 DEF RegInv, IdNamesOneCheckout, SoundTransaction
<1>6. ASSUME NEW x \in Scanners, NEW n \in 1..Len(listed'[x])
      PROVE  SoundItem(listed'[x][n])
  BY <1>1, EmptySeq DEF RegInv, RegTypeOK
<1> QED BY <1>1, <1>2, <1>4, <1>5, <1>6 DEF RegInv

\* One worktree is saved: one more id is observed, and its row is live.
LEMMA SaveStep ==
  ASSUME RegConstants, RegInv, NEW s \in Scanners, Save(s)
  PROVE  RegInv'
<1> DEFINE item == listed[s][next[s]]
           rows == transaction.rows
           row == [association |-> SavedAssociation(item), path |-> item.path, live |-> TRUE]
<1>1. /\ scan[s] = "save" /\ next[s] \in 1..Len(listed[s]) /\ Len(listed[s]) \in Nat
      /\ item \in Items /\ SoundItem(item)
      /\ transaction # None /\ transaction.by = s /\ transaction \in Transactions
      /\ faults \in 0..MaxFaults
  BY LenProperties DEF Save, RegInv, RegTypeOK, Owner
<1>2. /\ rows \in [Ids -> Rows \cup {None}] /\ transaction.observed \subseteq LiveIn(rows)
      /\ \A i \in Ids : rows[i] # None => NamesOneCheckout(i, rows[i])
      /\ IsFiniteSet(transaction.observed) /\ Cardinality(transaction.observed) = next[s] - 1
  BY <1>1 DEF RegInv, SoundTransaction, Transactions
<1>3. ASSUME NEW id \in IdsFor(rows, item), Storable(rows, transaction.observed, item, id),
             transaction' = [transaction EXCEPT !.rows[id] = row, !.observed = @ \cup {id}],
             next' = [next EXCEPT ![s] = @ + 1],
             UNCHANGED <<linkAt, owner, changes, faults, registry, scan, listed, complete>>
      PROVE  RegInv'
  <2>1. id \in Ids /\ id \notin transaction.observed /\ row \in Rows /\ NamesOneCheckout(id, row)
    BY <1>1, <1>2, <1>3, SavedRowIsSound
  <2>2. row.live = TRUE
    OBVIOUS
  <2> HIDE DEF row
  <2>3. /\ transaction'.by = s /\ transaction'.rows = [rows EXCEPT ![id] = row]
        /\ transaction'.observed = transaction.observed \cup {id}
        /\ transaction' \in Transactions /\ transaction' # None
    <3>1. [rows EXCEPT ![id] = row] \in [Ids -> Rows \cup {None}]
      BY <1>2, <2>1
    <3>2. transaction' = [by |-> s, rows |-> [rows EXCEPT ![id] = row],
                          observed |-> transaction.observed \cup {id}]
      BY <1>1, <1>3 DEF Transactions
    <3>3. transaction.observed \cup {id} \in SUBSET Ids
      BY <1>2, <2>1 DEF LiveIn
    <3> QED BY <3>1, <3>2, <3>3 DEF Transactions, RegConstants
  <2>4. /\ next'[s] = next[s] + 1 /\ next'[s] \in 1..Len(listed[s]) + 1
        /\ \A x \in Scanners \ {s} : next'[x] = next[x]
        /\ next' \in [Scanners -> Nat]
    BY <1>1, <1>3 DEF RegInv, RegTypeOK
  <2>5. RegTypeOK'
    BY <1>3, <2>3, <2>4 DEF RegInv, RegTypeOK, Transactions
  <2>6. \A x \in Scanners : (Indexed(x) /\ Owner(x))'
    BY <1>1, <1>3, <2>3, <2>4 DEF RegInv, Indexed, Owner
  <2>7. IdNamesOneCheckout'
    BY <1>3 DEF RegInv, IdNamesOneCheckout
  <2>8. /\ IsFiniteSet(transaction'.observed)
        /\ Cardinality(transaction'.observed) = next'[s] - 1
    <3>1. /\ IsFiniteSet(transaction.observed \cup {id})
          /\ Cardinality(transaction.observed \cup {id}) = Cardinality(transaction.observed) + 1
      BY <1>2, <2>1, FS_AddElement
    <3> QED BY <1>1, <1>2, <2>3, <2>4, <3>1
  <2>9. /\ \A i \in Ids : transaction'.rows[i] # None => NamesOneCheckout(i, transaction'.rows[i])
        /\ transaction'.observed \subseteq LiveIn(transaction'.rows)
    BY <1>2, <2>1, <2>2, <2>3 DEF LiveIn, RegConstants
  <2>10. SoundTransaction'
    BY <2>3, <2>8, <2>9 DEF SoundTransaction, LiveIn
  <2>11. (\A x \in Scanners : \A n \in 1..Len(listed[x]) : SoundItem(listed[x][n]))'
    BY <1>3 DEF RegInv
  <2> QED BY <2>3, <2>5, <2>6, <2>7, <2>10, <2>11 DEF RegInv
<1>4. CASE Works /\ Abandon(s)
  BY <1>1, <1>4, AbandonStep DEF Works
<1> QED BY <1>3, <1>4 DEF Save, IdsFor, Works, checkouts

\* The commit keeps every row, possibly as a tombstone.
LEMMA CommitStep ==
  ASSUME RegConstants, RegInv, NEW s \in Scanners, Commit(s)
  PROVE  RegInv'
<1>1. /\ scan[s] = "save" /\ transaction # None /\ transaction \in Transactions /\ transaction.by = s
      /\ \A i \in Ids : transaction.rows[i] # None => NamesOneCheckout(i, transaction.rows[i])
  BY DEF Commit, RegInv, Owner, SoundTransaction
<1>2. /\ transaction' = None /\ scan' = [scan EXCEPT ![s] = "idle"] /\ next' = [next EXCEPT ![s] = 1]
      /\ listed' = [listed EXCEPT ![s] = <<>>] /\ complete' = [complete EXCEPT ![s] = FALSE]
      /\ UNCHANGED <<linkAt, owner, changes, faults>>
  BY DEF Commit, Leave, Works, checkouts
<1>3. \A i \in Ids :
        \/ registry'[i] = transaction.rows[i]
        \/ /\ transaction.rows[i] # None
           /\ registry'[i] = [transaction.rows[i] EXCEPT !.live = FALSE]
  BY DEF Commit, LiveIn
<1>4. DOMAIN registry' = Ids /\ registry' = [i \in Ids |-> registry'[i]]
  BY DEF Commit
<1>5. registry' \in [Ids -> Rows \cup {None}]
  <2>1. \A i \in Ids : transaction.rows[i] \in Rows \cup {None}
    BY <1>1 DEF Transactions
  <2>2. ASSUME NEW row \in Rows PROVE [row EXCEPT !.live = FALSE] \in Rows
    BY DEF Rows
  <2>3. \A i \in Ids : registry'[i] \in Rows \cup {None}
    BY <1>3, <2>1, <2>2
  <2> QED BY <1>4, <2>3
<1>6. RegTypeOK'
  BY <1>2, <1>5, EmptySeq DEF RegInv, RegTypeOK
<1>7. \A x \in Scanners : (Indexed(x) /\ Owner(x))'
  BY <1>1, <1>2 DEF RegInv, RegTypeOK, Indexed, Owner
<1>8. IdNamesOneCheckout'
  <2>1. ASSUME NEW i \in Ids, NEW row \in Rows, NamesOneCheckout(i, row)
        PROVE  NamesOneCheckout(i, [row EXCEPT !.live = FALSE])
    BY <2>1 DEF NamesOneCheckout, Rows
  <2>2. \A i \in Ids : transaction.rows[i] \in Rows \cup {None}
    BY <1>1 DEF Transactions
  <2>3. \A i \in Ids : registry'[i] # None => NamesOneCheckout(i, registry'[i])
    BY <1>1, <1>3, <2>1, <2>2
  <2> QED BY <2>3 DEF IdNamesOneCheckout, NamesOneCheckout
<1>9. SoundTransaction'
  BY <1>2 DEF SoundTransaction
<1>10. ASSUME NEW x \in Scanners, NEW n \in 1..Len(listed'[x])
       PROVE  SoundItem(listed'[x][n])
  BY <1>2, EmptySeq DEF RegInv, RegTypeOK
<1> QED BY <1>2, <1>6, <1>7, <1>8, <1>9, <1>10 DEF RegInv

\* A complete enumeration leaves exactly one live row for each worktree of it.
LEMMA CommitCounts ==
  ASSUME RegConstants, RegInv, NEW s \in Scanners, Commit(s), complete[s]
  PROVE  Cardinality(LiveIn(registry')) = Len(listed[s])
<1>1. /\ transaction # None /\ transaction.by = s /\ transaction \in Transactions
      /\ transaction.observed \subseteq LiveIn(transaction.rows)
      /\ Cardinality(transaction.observed) = next[s] - 1
  BY DEF Commit, RegInv, Owner, SoundTransaction
<1>2. next[s] - 1 = Len(listed[s])
  BY LenProperties DEF Commit, RegInv, RegTypeOK
<1>3. \A i \in Ids : registry'[i] # None /\ registry'[i].live <=> i \in transaction.observed
  <2>1. \A i \in Ids : transaction.rows[i] # None => transaction.rows[i] \in Rows
    BY <1>1 DEF Transactions
  <2>2. ASSUME NEW i \in Ids, i \in LiveIn(transaction.rows) \ transaction.observed
        PROVE  registry'[i] = [transaction.rows[i] EXCEPT !.live = FALSE] /\ ~registry'[i].live
    BY <2>1, <2>2 DEF Commit, LiveIn, Rows
  <2>3. ASSUME NEW i \in Ids, i \notin LiveIn(transaction.rows) \ transaction.observed
        PROVE  registry'[i] = transaction.rows[i]
    BY <2>3 DEF Commit
  <2> QED BY <1>1, <2>2, <2>3 DEF LiveIn
<1>4. LiveIn(registry') = transaction.observed
  BY <1>1, <1>3 DEF LiveIn
<1> QED BY <1>1, <1>2, <1>4

LEMMA RegStep ==
  ASSUME RegConstants, RegInv, RegNext
  PROVE  RegInv'
<1>1. ASSUME NEW s \in Scanners, Rollback(s)
      PROVE  RegInv'
  <2>1. faults' \in 0..MaxFaults
    BY <1>1 DEF Rollback, Fails, RegInv, RegTypeOK, RegConstants
  <2> QED BY <1>1, <2>1, AbandonStep DEF Rollback
<1> QED BY <1>1, CheckoutStep, EnumerateStep, ReadCommonStep, ProbeStep, BeginStep, SaveStep, CommitStep
        DEF RegNext, ScanStep

\* A step that stutters keeps the invariant.
LEMMA RegStutter ==
  ASSUME RegInv, UNCHANGED regVars
  PROVE  RegInv'
BY DEF RegInv, RegTypeOK, Indexed, Owner, IdNamesOneCheckout, SoundTransaction, LiveIn, regVars,
       checkouts, progress

\* Whatever a step does beside it, a commit counts.
LEMMA EveryCommitCounts ==
  ASSUME RegConstants, RegInv
  PROVE  StoresTheEnumeration
BY CommitCounts DEF StoresTheEnumeration

-----------------------------------------------------------------------------
\* The registry, the listings and the open transaction are what they should be
\* in every state (RegInv says more than their types).
THEOREM RegistryIsSound ==
  ASSUME RegConstants
  PROVE  RegSpec => []RegInv
<1>1. RegInit => RegInv
  BY RegInitially
<1>2. RegInv /\ [RegNext]_regVars => RegInv'
  BY RegStep, RegStutter
<1> QED BY <1>1, <1>2, PTL DEF RegSpec

\* An id is never given to another checkout, however scans of several processes,
\* failed calls and changes of the checkouts interleave (repository.go:278).
THEOREM IdsStayWithTheirCheckout ==
  ASSUME RegConstants
  PROVE  RegSpec => [](RegTypeOK /\ IdNamesOneCheckout)
<1>1. RegInv => RegTypeOK /\ IdNamesOneCheckout
  BY DEF RegInv
<1> QED BY <1>1, RegistryIsSound, PTL

\* A complete enumeration that is stored leaves one live row for each worktree
\* it lists and no other (ReplaceWorktrees, repository.go).
THEOREM EnumerationsAreStoredWhole ==
  ASSUME RegConstants
  PROVE  RegSpec => StoredIsTheEnumeration
<1>1. RegInv => [StoresTheEnumeration]_regVars
  BY EveryCommitCounts
<1> QED BY <1>1, RegistryIsSound, PTL DEF StoredIsTheEnumeration
=============================================================================
