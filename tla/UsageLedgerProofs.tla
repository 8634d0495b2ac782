--------------------------- MODULE UsageLedgerProofs ---------------------------
(***************************************************************************)
(* The ledger's counters are exact for any number of rows, buckets and     *)
(* quantities, under callers that call anything in any order.              *)
(***************************************************************************)
EXTENDS UsageLedger, FiniteSetTheorems, TLAPS

-------------------------------------------------------------------------------
(* How a Tally moves when a row enters or leaves the set, or when its       *)
(* quantity changes: the arithmetic behind every bucket counter             *)

(* The units of finitely many bounded rows are finitely many. *)
LEMMA UnitsFinite ==
  ASSUME NEW S, IsFiniteSet(S), NEW m \in Nat, NEW q, \A x \in S : q[x] \in 0..m
  PROVE  /\ IsFiniteSet(Units(S, q))
         /\ Tally(S, q) \in Nat
PROOF
  <1>1. IsFiniteSet(S \X (1..m))
    BY FS_Product, FS_Interval, 0 \in Int, 1 \in Int, m \in Int
  <1>2. Units(S, q) \in SUBSET (S \X (1..m))
    BY DEF Units
  <1>3. IsFiniteSet(Units(S, q))
    BY <1>1, <1>2, FS_Subset
  <1>4. QED
    BY <1>3, FS_CardinalityType DEF Tally

(* No rows, no units. *)
LEMMA TallyEmpty ==
  ASSUME NEW q
  PROVE  Tally({}, q) = 0
PROOF
  <1>1. Units({}, q) = {}
    BY DEF Units
  <1>2. QED
    BY <1>1, FS_EmptySet DEF Tally

(* Only the quantities of the rows in the set matter. *)
LEMMA TallySame ==
  ASSUME NEW S, NEW q, NEW r, \A x \in S : q[x] = r[x]
  PROVE  Tally(S, q) = Tally(S, r)
PROOF
  <1>1. Units(S, q) = Units(S, r)
    BY DEF Units
  <1>2. QED
    BY <1>1 DEF Tally

(* The units of one row number its quantity. *)
LEMMA RowUnits ==
  ASSUME NEW x, NEW n \in Nat
  PROVE  /\ IsFiniteSet({x} \X (1..n))
         /\ Cardinality({x} \X (1..n)) = n
PROOF
  <1>1. IsFiniteSet(1..n) /\ Cardinality(1..n) = n
    BY FS_Interval, 1 \in Int, n \in Int
  <1>2. IsFiniteSet({x}) /\ Cardinality({x}) = 1
    BY FS_Singleton
  <1>3. IsFiniteSet({x} \X (1..n)) /\ Cardinality({x} \X (1..n)) = 1 * n
    BY <1>1, <1>2, FS_Product
  <1>4. QED
    BY <1>3

(* A row that enters adds its quantity. *)
LEMMA TallyAdd ==
  ASSUME NEW S, IsFiniteSet(S), NEW m \in Nat, NEW x, x \notin S,
         NEW q, \A y \in S : q[y] \in 0..m, q[x] \in 0..m
  PROVE  Tally(S \cup {x}, q) = Tally(S, q) + q[x]
PROOF
  <1> DEFINE row == {x} \X (1..q[x])
  <1>1. Units(S \cup {x}, q) = Units(S, q) \cup row
    BY DEF Units
  <1>2. Units(S, q) \cap row = {}
    BY DEF Units
  <1>3. IsFiniteSet(Units(S, q)) /\ Tally(S, q) \in Nat
    BY UnitsFinite
  <1>0. q[x] \in Nat
    OBVIOUS
  <1>4. IsFiniteSet(row) /\ Cardinality(row) = q[x]
    BY <1>0, RowUnits
  <1> HIDE DEF row
  <1>5. Cardinality(Units(S, q) \cup row)
          = Cardinality(Units(S, q)) + Cardinality(row) - Cardinality(Units(S, q) \cap row)
    BY <1>3, <1>4, FS_Union
  <1>6. Cardinality(Units(S, q) \cap row) = 0
    BY <1>2, FS_EmptySet
  <1>7. QED
    <2>1. Cardinality(Units(S \cup {x}, q)) = Cardinality(Units(S, q)) + q[x] - 0
      BY <1>1, <1>4, <1>5, <1>6
    <2>2. Cardinality(Units(S, q)) \in Nat
      BY <1>3 DEF Tally
    <2>3. QED
      BY <1>0, <2>1, <2>2 DEF Tally

(* A row that leaves takes its quantity with it. *)
LEMMA TallyRemove ==
  ASSUME NEW S, IsFiniteSet(S), NEW m \in Nat, NEW x \in S,
         NEW q, \A y \in S : q[y] \in 0..m
  PROVE  /\ Tally(S \ {x}, q) = Tally(S, q) - q[x]
         /\ q[x] <= Tally(S, q)
PROOF
  <1>1. IsFiniteSet(S \ {x})
    BY FS_RemoveElement
  <1>2. (S \ {x}) \cup {x} = S /\ x \notin S \ {x}
    OBVIOUS
  <1>3. Tally((S \ {x}) \cup {x}, q) = Tally(S \ {x}, q) + q[x]
    BY <1>1, <1>2, TallyAdd
  <1>4. Tally(S \ {x}, q) \in Nat
    BY <1>1, UnitsFinite
  <1>5. Tally(S, q) = Tally(S \ {x}, q) + q[x]
    BY <1>2, <1>3
  <1>6. q[x] \in Nat
    OBVIOUS
  <1>7. QED
    BY <1>4, <1>5, <1>6

(* A row that enters with its quantity while the others keep theirs. *)
LEMMA TallyEnter ==
  ASSUME NEW S, IsFiniteSet(S), NEW m \in Nat, NEW x, x \notin S, NEW q, NEW r,
         \A y \in S : r[y] = q[y] /\ q[y] \in 0..m,
         r[x] \in 0..m,
         NEW T, T = S \cup {x}
  PROVE  Tally(T, r) = Tally(S, q) + r[x]
PROOF
  <1>1. \A y \in S : r[y] \in 0..m
    OBVIOUS
  <1>2. Tally(S \cup {x}, r) = Tally(S, r) + r[x]
    BY <1>1, TallyAdd
  <1>3. Tally(S, r) = Tally(S, q)
    BY TallySame
  <1>4. QED
    BY <1>2, <1>3

(* A row that leaves while the others keep their quantities. *)
LEMMA TallyLeave ==
  ASSUME NEW S, IsFiniteSet(S), NEW m \in Nat, NEW x \in S, NEW q, NEW r,
         \A y \in S : r[y] = q[y] /\ q[y] \in 0..m,
         NEW T, T = S \ {x}
  PROVE  /\ Tally(T, r) = Tally(S, q) - q[x]
         /\ q[x] <= Tally(S, q)
PROOF
  <1>1. /\ Tally(S \ {x}, q) = Tally(S, q) - q[x]
        /\ q[x] <= Tally(S, q)
    BY TallyRemove
  <1>2. \A y \in T : r[y] = q[y]
    OBVIOUS
  <1>3. Tally(T, r) = Tally(T, q)
    BY <1>2, TallySame
  <1>4. QED
    BY <1>1, <1>3

(* Larger quantities, larger sum. *)
LEMMA TallyMonotone ==
  ASSUME NEW S, IsFiniteSet(S), NEW m \in Nat, NEW q, NEW r,
         \A x \in S : q[x] \in 0..m /\ r[x] \in 0..m /\ q[x] <= r[x]
  PROVE  Tally(S, q) <= Tally(S, r)
PROOF
  <1>1. Units(S, q) \in SUBSET Units(S, r)
    BY DEF Units
  <1>2. IsFiniteSet(Units(S, r))
    BY UnitsFinite
  <1>3. QED
    BY <1>1, <1>2, FS_Subset DEF Tally

-------------------------------------------------------------------------------
(* The invariant *)

(* What ties status, settled and items together: only a committed row, or   *)
(* one parked after its commit, has consumed quantities.                    *)
RowsConsistent ==
  \A k \in Keys :
    /\ status[k] \in {"absent", "pending", "released", "expired"} => ~settled[k]
    /\ status[k] = "committed" => settled[k]
    /\ \A b \in Buckets : b \notin items[k] => reserved[k][b] = 0 /\ consumed[k][b] = 0
    /\ \A b \in Buckets : ~settled[k] => consumed[k][b] = 0

(* The inductive invariant. *)
LedgerInv ==
  /\ LedgerTypeOK
  /\ RowsConsistent
  /\ ReservedIsSumOfHolding
  /\ CommittedIsSumOfSettled
  /\ WithinLimit

-------------------------------------------------------------------------------
(* Facts about one state *)

(* Rows are finitely many and their quantities bounded, so the sums exist. *)
LEMMA SumsAreNatural ==
  ASSUME LedgerTypeOK, NEW b \in Buckets
  PROVE  /\ IsFiniteSet(Holding) /\ IsFiniteSet(Settled)
         /\ \A k \in Keys : /\ ReservedIn(b)[k] = reserved[k][b] /\ reserved[k][b] \in 0..MaxQty
                            /\ ConsumedIn(b)[k] = consumed[k][b] /\ consumed[k][b] \in 0..MaxQty
                            /\ CoveredIn(b)[k] \in 0..MaxQty
                            /\ CoveredIn(b)[k] <= ConsumedIn(b)[k]
                            /\ CoveredIn(b)[k] <= ReservedIn(b)[k]
         /\ Tally(Holding, ReservedIn(b)) \in Nat
         /\ Tally(Settled, ConsumedIn(b)) \in Nat
         /\ Tally(Settled, CoveredIn(b)) \in Nat
         /\ Tally(Settled, CoveredIn(b)) <= Tally(Settled, ConsumedIn(b))
PROOF
  <1>1. IsFiniteSet(Holding) /\ IsFiniteSet(Settled)
    <2>1. Holding \in SUBSET Keys /\ Settled \in SUBSET Keys
      BY DEF Holding, Settled
    <2>2. QED
      BY <2>1, LedgerAssumption, FS_Subset
  <1>2. \A k \in Keys : /\ ReservedIn(b)[k] = reserved[k][b] /\ reserved[k][b] \in 0..MaxQty
                        /\ ConsumedIn(b)[k] = consumed[k][b] /\ consumed[k][b] \in 0..MaxQty
                        /\ CoveredIn(b)[k] \in 0..MaxQty
                        /\ CoveredIn(b)[k] <= ConsumedIn(b)[k]
                        /\ CoveredIn(b)[k] <= ReservedIn(b)[k]
    BY LedgerAssumption DEF LedgerTypeOK, Quantities, ReservedIn, ConsumedIn, CoveredIn, Least
  <1>3. MaxQty \in Nat
    BY LedgerAssumption
  <1>4. \A k \in Holding : k \in Keys
    BY DEF Holding
  <1>5. \A k \in Settled : k \in Keys
    BY DEF Settled
  <1>6. Tally(Holding, ReservedIn(b)) \in Nat
    <2>1. \A k \in Holding : ReservedIn(b)[k] \in 0..MaxQty
      BY <1>2, <1>4
    <2>2. QED
      BY <1>1, <1>3, <2>1, UnitsFinite
  <1>7. /\ Tally(Settled, ConsumedIn(b)) \in Nat
        /\ Tally(Settled, CoveredIn(b)) \in Nat
        /\ Tally(Settled, CoveredIn(b)) <= Tally(Settled, ConsumedIn(b))
    <2>1. \A k \in Settled : /\ CoveredIn(b)[k] \in 0..MaxQty /\ ConsumedIn(b)[k] \in 0..MaxQty
                             /\ CoveredIn(b)[k] <= ConsumedIn(b)[k]
      BY <1>2, <1>5
    <2>2. Tally(Settled, ConsumedIn(b)) \in Nat /\ Tally(Settled, CoveredIn(b)) \in Nat
      BY <1>1, <1>3, <2>1, UnitsFinite
    <2>3. Tally(Settled, CoveredIn(b)) <= Tally(Settled, ConsumedIn(b))
      BY <1>1, <1>3, <2>1, TallyMonotone
    <2>4. QED
      BY <2>2, <2>3
  <1>8. QED
    BY <1>1, <1>2, <1>6, <1>7

(* A pending row holds capacity, and the bucket has at least that much of   *)
(* it on its reserved counter: the clamp at zero has nothing to do.         *)
LEMMA PendingIsHeld ==
  ASSUME LedgerInv, NEW k \in Keys, Finalisable(k)
  PROVE  /\ k \in Holding /\ k \notin Settled
         /\ \A b \in Buckets : /\ reserved[k][b] <= reservedQty[b]
                               /\ Tally(Holding \ {k}, ReservedIn(b)) = reservedQty[b] - reserved[k][b]
PROOF
  <1>1. k \in Holding /\ k \notin Settled
    BY DEF LedgerInv, RowsConsistent, Holding, Settled, Finalisable
  <1>2. ASSUME NEW b \in Buckets
        PROVE  /\ reserved[k][b] <= reservedQty[b]
               /\ Tally(Holding \ {k}, ReservedIn(b)) = reservedQty[b] - reserved[k][b]
    <2>1. IsFiniteSet(Holding) /\ \A y \in Holding : ReservedIn(b)[y] \in 0..MaxQty
      BY SumsAreNatural DEF LedgerInv, Holding
    <2>2. /\ Tally(Holding \ {k}, ReservedIn(b)) = Tally(Holding, ReservedIn(b)) - ReservedIn(b)[k]
          /\ ReservedIn(b)[k] <= Tally(Holding, ReservedIn(b))
      BY <1>1, <2>1, TallyRemove, LedgerAssumption
    <2>3. Tally(Holding, ReservedIn(b)) = reservedQty[b]
      BY DEF LedgerInv, ReservedIsSumOfHolding
    <2>4. ReservedIn(b)[k] = reserved[k][b]
      BY DEF ReservedIn
    <2>5. QED
      BY <2>2, <2>3, <2>4
  <1>3. QED
    BY <1>1, <1>2

-------------------------------------------------------------------------------
(* Initial states *)

(* At first no row exists and a counter is what was used before it.         *)
LEMMA LedgerInitInv == LedgerInit => LedgerInv
PROOF
  <1> SUFFICES ASSUME LedgerInit PROVE LedgerInv
    OBVIOUS
  <1>1. LedgerTypeOK
    BY LedgerAssumption DEF LedgerInit, LedgerTypeOK, Statuses, Quantities, Nothing
  <1>2. RowsConsistent
    BY DEF LedgerInit, RowsConsistent, Nothing
  <1>3. Holding = {} /\ Settled = {}
    BY DEF LedgerInit, Holding, Settled
  <1>4. ReservedIsSumOfHolding
    BY <1>3, TallyEmpty DEF LedgerInit, ReservedIsSumOfHolding
  <1>5. CommittedIsSumOfSettled
    BY <1>3, TallyEmpty, LedgerAssumption DEF LedgerInit, CommittedIsSumOfSettled
  <1>6. WithinLimit
    BY <1>3, TallyEmpty, LedgerAssumption DEF WithinLimit
  <1>7. QED
    BY <1>1, <1>2, <1>4, <1>5, <1>6 DEF LedgerInv

-------------------------------------------------------------------------------
(* reserve: one row enters the holding set, with room for it *)

(* The row asks what its windows still have room for, so the limits hold.   *)
LEMMA ReservePreserves ==
  ASSUME LedgerInv, NEW k \in Keys, NEW bs \in SUBSET Buckets, NEW ask \in Quantities,
         Reserve(k, bs, ask)
  PROVE  LedgerInv'
PROOF
  <1>inv. /\ LedgerTypeOK /\ RowsConsistent
          /\ ReservedIsSumOfHolding /\ CommittedIsSumOfSettled /\ WithinLimit
    BY DEF LedgerInv
  <1>0. MaxQty \in Nat /\ \A b \in Buckets : ask[b] \in 0..MaxQty
    BY LedgerAssumption DEF Quantities
  <1>1. /\ status' = [status EXCEPT ![k] = "pending"]
        /\ reserved' = [reserved EXCEPT ![k] = [b \in Buckets |-> IF b \in bs THEN ask[b] ELSE 0]]
        /\ consumed' = consumed /\ settled' = settled
        /\ ~settled[k]
    BY <1>inv DEF Reserve, RowsConsistent
  <1>2. /\ LedgerTypeOK'
        /\ \A b \in Buckets : reserved'[k][b] = IF b \in bs THEN ask[b] ELSE 0
        /\ \A b \in Buckets, y \in Keys : y # k => reserved'[y][b] = reserved[y][b]
        /\ \A b \in Buckets : reservedQty'[b] = reservedQty[b] + reserved'[k][b]
    <2>1. reserved'[k] \in Quantities
      BY <1>inv, <1>0, <1>1 DEF LedgerTypeOK, Quantities
    <2>2. reserved' \in [Keys -> Quantities]
      BY <1>inv, <2>1, <1>1 DEF LedgerTypeOK
    <2>3. \A b \in Buckets : reserved'[k][b] = IF b \in bs THEN ask[b] ELSE 0
      BY <1>inv, <1>1 DEF LedgerTypeOK
    <2>4. \A b \in Buckets, y \in Keys : y # k => reserved'[y][b] = reserved[y][b]
      BY <1>inv, <1>1 DEF LedgerTypeOK
    <2>5. \A b \in Buckets : reservedQty'[b] = reservedQty[b] + reserved'[k][b]
      BY DEF Reserve
    <2>6. reservedQty' \in [Buckets -> Nat]
      BY <1>inv, <1>0, <2>3 DEF Reserve, LedgerTypeOK
    <2>7. QED
      BY <1>inv, <2>2, <2>3, <2>4, <2>5, <2>6 DEF Reserve, LedgerTypeOK, Statuses
  <1>3. RowsConsistent'
    BY <1>inv, <1>2 DEF RowsConsistent, Reserve, LedgerTypeOK
  <1>4. Holding' = Holding \cup {k} /\ k \notin Holding /\ Settled' = Settled /\ k \notin Settled
    BY <1>inv, <1>1 DEF Holding, Settled, Reserve, LedgerTypeOK
  <1>5. ASSUME NEW b \in Buckets
        PROVE  /\ Tally(Holding', ReservedIn(b)') = Tally(Holding, ReservedIn(b)) + reserved'[k][b]
               /\ Tally(Settled', ConsumedIn(b)') = Tally(Settled, ConsumedIn(b))
               /\ Tally(Settled', CoveredIn(b)') = Tally(Settled, CoveredIn(b))
    <2>1. /\ \A y \in Holding : ReservedIn(b)'[y] = ReservedIn(b)[y] /\ ReservedIn(b)[y] \in 0..MaxQty
          /\ ReservedIn(b)'[k] = reserved'[k][b] /\ ReservedIn(b)'[k] \in 0..MaxQty
      BY <1>inv, <1>2, <1>4 DEF ReservedIn, Holding, LedgerTypeOK, Quantities
    <2>2. Tally(Holding', ReservedIn(b)') = Tally(Holding, ReservedIn(b)) + ReservedIn(b)'[k]
      <3>1. IsFiniteSet(Holding)
        BY <1>inv, SumsAreNatural
      <3>2. k \notin Holding /\ MaxQty \in Nat /\ Holding' = Holding \cup {k}
        BY <1>0, <1>4
      <3>3. QED
        BY <2>1, <3>1, <3>2, TallyEnter, SMTT(30)
    <2>3. ConsumedIn(b)' = ConsumedIn(b)
      BY <1>1 DEF ConsumedIn
    <2>4. \A y \in Settled : CoveredIn(b)'[y] = CoveredIn(b)[y]
      BY <1>inv, <1>1, <1>2, <1>4 DEF CoveredIn, Settled
    <2>5. Tally(Settled, CoveredIn(b)') = Tally(Settled, CoveredIn(b))
      BY <2>4, TallySame
    <2>6. QED
      BY <1>4, <2>1, <2>2, <2>3, <2>5
  <1>6. ReservedIsSumOfHolding'
    BY <1>inv, <1>2, <1>5 DEF ReservedIsSumOfHolding
  <1>7. CommittedIsSumOfSettled'
    BY <1>inv, <1>5 DEF CommittedIsSumOfSettled, Reserve
  <1>8. WithinLimit'
    <2> SUFFICES ASSUME NEW b \in Buckets,
                        Tally(Holding', ReservedIn(b)') + Tally(Settled', CoveredIn(b)') > 0
                 PROVE  Backfill[b] + (Tally(Holding', ReservedIn(b)') + Tally(Settled', CoveredIn(b)'))
                          <= Limit[b]
      BY DEF WithinLimit
    <2>1. /\ Tally(Holding, ReservedIn(b)) \in Nat /\ Tally(Settled, ConsumedIn(b)) \in Nat
          /\ Tally(Settled, CoveredIn(b)) \in Nat
          /\ Tally(Settled, CoveredIn(b)) <= Tally(Settled, ConsumedIn(b))
          /\ reservedQty[b] = Tally(Holding, ReservedIn(b))
          /\ committedQty[b] = Backfill[b] + Tally(Settled, ConsumedIn(b))
          /\ Backfill[b] \in Nat /\ Limit[b] \in Nat
      BY <1>inv, SumsAreNatural, LedgerAssumption DEF ReservedIsSumOfHolding, CommittedIsSumOfSettled
    <2>2. CASE reserved'[k][b] = 0
      BY <1>inv, <1>5, <2>1, <2>2 DEF WithinLimit
    <2>3. CASE reserved'[k][b] # 0
      <3>1. /\ b \in bs /\ reserved'[k][b] = ask[b] /\ ask[b] \in Nat /\ ask[b] > 0
            /\ ask[b] <= Available(b)
        BY <1>0, <1>2, <2>3 DEF Reserve, Fits
      <3>2. ask[b] <= Limit[b] - committedQty[b] - reservedQty[b]
        BY <3>1, <2>1 DEF Available, NonNegative
      <3>3. QED
        BY <1>5, <2>1, <3>1, <3>2
    <2>4. QED
      BY <2>2, <2>3
  <1>9. QED
    BY <1>2, <1>3, <1>6, <1>7, <1>8 DEF LedgerInv

-------------------------------------------------------------------------------
(* commit, release, expire: one row leaves the holding set *)

(* Whatever a finalising function does with the row's usage, taking its     *)
(* reserved amounts out of the buckets keeps the reserved counters exact.   *)
LEMMA FinaliseKeepsReserved ==
  ASSUME LedgerInv, NEW k \in Keys, Finalisable(k), GiveBackReserved(k), reserved' = reserved,
         Holding' = Holding \ {k}
  PROVE  /\ reservedQty' \in [Buckets -> Nat]
         /\ ReservedIsSumOfHolding'
         /\ \A b \in Buckets :
              Tally(Holding', ReservedIn(b)') = Tally(Holding, ReservedIn(b)) - reserved[k][b]
PROOF
  <1>inv. /\ LedgerTypeOK /\ RowsConsistent /\ ReservedIsSumOfHolding
    BY DEF LedgerInv
  <1>1. \A b \in Buckets : /\ reserved[k][b] \in Nat /\ reservedQty[b] \in Nat
                           /\ reserved[k][b] <= reservedQty[b]
                           /\ b \notin items[k] => reserved[k][b] = 0
    <2>1. \A b \in Buckets : reserved[k][b] <= reservedQty[b]
      BY PendingIsHeld
    <2>2. \A b \in Buckets : reserved[k][b] \in Nat /\ reservedQty[b] \in Nat
      BY <1>inv, LedgerAssumption DEF LedgerTypeOK, Quantities
    <2>3. \A b \in Buckets : b \notin items[k] => reserved[k][b] = 0
      BY <1>inv DEF RowsConsistent
    <2>4. QED
      BY <2>1, <2>2, <2>3
  <1>2. \A b \in Buckets : reservedQty'[b] = reservedQty[b] - reserved[k][b]
    BY <1>1 DEF GiveBackReserved, NonNegative
  <1>3. reservedQty' \in [Buckets -> Nat]
    BY <1>1 DEF GiveBackReserved, NonNegative
  <1>4. ASSUME NEW b \in Buckets
        PROVE  /\ Tally(Holding', ReservedIn(b)') = reservedQty'[b]
               /\ Tally(Holding', ReservedIn(b)') = Tally(Holding, ReservedIn(b)) - reserved[k][b]
    <2>1. ReservedIn(b)' = ReservedIn(b)
      BY DEF ReservedIn
    <2>2. Tally(Holding', ReservedIn(b)') = reservedQty[b] - reserved[k][b]
      BY <2>1, PendingIsHeld
    <2>3. Tally(Holding, ReservedIn(b)) = reservedQty[b]
      BY <1>inv DEF ReservedIsSumOfHolding
    <2>4. QED
      BY <1>2, <2>2, <2>3
  <1>5. QED
    BY <1>3, <1>4 DEF ReservedIsSumOfHolding

(* A release or an expiry gives back exactly what the row held. *)
LEMMA ReleasePreserves ==
  ASSUME LedgerInv, NEW k \in Keys, Release(k) \/ Expire(k)
  PROVE  LedgerInv'
PROOF
  <1>inv. /\ LedgerTypeOK /\ RowsConsistent
          /\ ReservedIsSumOfHolding /\ CommittedIsSumOfSettled /\ WithinLimit
    BY DEF LedgerInv
  <1>1. /\ Finalisable(k) /\ GiveBackReserved(k)
        /\ items' = items /\ reserved' = reserved /\ consumed' = consumed
        /\ settled' = settled /\ committedQty' = committedQty
        /\ status' \in [Keys -> Statuses]
        /\ status'[k] \in {"released", "expired"}
        /\ \A y \in Keys : y # k => status'[y] = status[y]
    BY <1>inv DEF Release, Expire, LedgerTypeOK, Statuses
  <1>2. k \in Holding /\ k \notin Settled
    BY <1>1, PendingIsHeld
  <1>3. Holding' = Holding \ {k} /\ Settled' = Settled
    BY <1>1, <1>2 DEF Holding, Settled
  <1>4. /\ reservedQty' \in [Buckets -> Nat]
        /\ ReservedIsSumOfHolding'
        /\ \A b \in Buckets :
             Tally(Holding', ReservedIn(b)') = Tally(Holding, ReservedIn(b)) - reserved[k][b]
    BY <1>1, <1>3, FinaliseKeepsReserved
  <1>5. LedgerTypeOK'
    BY <1>inv, <1>1, <1>4 DEF LedgerTypeOK
  <1>6. RowsConsistent'
    BY <1>inv, <1>1, <1>2 DEF RowsConsistent, Settled
  <1>7. \A b \in Buckets : /\ ConsumedIn(b)' = ConsumedIn(b)
                           /\ CoveredIn(b)' = CoveredIn(b)
    BY <1>1 DEF ConsumedIn, CoveredIn
  <1>8. CommittedIsSumOfSettled'
    BY <1>inv, <1>1, <1>3, <1>7 DEF CommittedIsSumOfSettled
  <1>9. WithinLimit'
    <2> SUFFICES ASSUME NEW b \in Buckets,
                        Tally(Holding', ReservedIn(b)') + Tally(Settled', CoveredIn(b)') > 0
                 PROVE  Backfill[b] + (Tally(Holding', ReservedIn(b)') + Tally(Settled', CoveredIn(b)'))
                          <= Limit[b]
      BY DEF WithinLimit
    <2>1. /\ Tally(Holding, ReservedIn(b)) \in Nat /\ Tally(Settled, CoveredIn(b)) \in Nat
          /\ reserved[k][b] \in Nat /\ Backfill[b] \in Nat /\ Limit[b] \in Nat
      BY <1>inv, SumsAreNatural, LedgerAssumption DEF LedgerTypeOK, Quantities
    <2>2. Tally(Settled', CoveredIn(b)') = Tally(Settled, CoveredIn(b))
      BY <1>3, <1>7
    <2>3. QED
      BY <1>inv, <1>4, <2>1, <2>2 DEF WithinLimit
  <1>10. QED
    BY <1>4, <1>5, <1>6, <1>8, <1>9 DEF LedgerInv

(* Committing moves the row from the holding set to the settled set; only   *)
(* the part of its usage the estimate covered takes the place of the        *)
(* estimate under the limit.                                                *)
LEMMA CommitPreserves ==
  ASSUME LedgerInv, NEW k \in Keys, NEW actual \in Quantities, Commit(k, actual)
  PROVE  LedgerInv'
PROOF
  <1>inv. /\ LedgerTypeOK /\ RowsConsistent
          /\ ReservedIsSumOfHolding /\ CommittedIsSumOfSettled /\ WithinLimit
    BY DEF LedgerInv
  <1>0. MaxQty \in Nat /\ \A b \in Buckets : actual[b] \in 0..MaxQty
    BY LedgerAssumption DEF Quantities
  <1>1. /\ Finalisable(k) /\ GiveBackReserved(k)
        /\ items' = items /\ reserved' = reserved
        /\ status' \in [Keys -> Statuses] /\ settled' \in [Keys -> BOOLEAN]
        /\ status'[k] = "committed" /\ settled'[k]
        /\ \A y \in Keys : y # k => status'[y] = status[y] /\ settled'[y] = settled[y]
    BY <1>inv DEF Commit, LedgerTypeOK, Statuses
  <1>2. k \in Holding /\ k \notin Settled
    BY <1>1, PendingIsHeld
  <1>3. Holding' = Holding \ {k} /\ Settled' = Settled \cup {k}
    BY <1>1, <1>2 DEF Holding, Settled
  <1>4. /\ reservedQty' \in [Buckets -> Nat]
        /\ ReservedIsSumOfHolding'
        /\ \A b \in Buckets :
             Tally(Holding', ReservedIn(b)') = Tally(Holding, ReservedIn(b)) - reserved[k][b]
    BY <1>1, <1>3, FinaliseKeepsReserved
  <1>5. /\ consumed' \in [Keys -> Quantities]
        /\ \A b \in Buckets : consumed'[k][b] = IF b \in items[k] THEN actual[b] ELSE 0
        /\ \A b \in Buckets, y \in Keys : y # k => consumed'[y][b] = consumed[y][b]
    <2>1. consumed' = [consumed EXCEPT ![k] = [b \in Buckets |-> IF b \in items[k] THEN actual[b] ELSE 0]]
      BY DEF Commit
    <2>2. [b \in Buckets |-> IF b \in items[k] THEN actual[b] ELSE 0] \in Quantities
      BY <1>0 DEF Quantities
    <2>3. consumed' \in [Keys -> Quantities]
      BY <1>inv, <2>1, <2>2 DEF LedgerTypeOK
    <2>4. \A b \in Buckets : consumed'[k][b] = IF b \in items[k] THEN actual[b] ELSE 0
      BY <1>inv, <2>1 DEF LedgerTypeOK
    <2>5. \A b \in Buckets, y \in Keys : y # k => consumed'[y][b] = consumed[y][b]
      BY <1>inv, <2>1 DEF LedgerTypeOK
    <2>6. QED
      BY <2>3, <2>4, <2>5
  <1>6. /\ committedQty' \in [Buckets -> Nat]
        /\ \A b \in Buckets : committedQty'[b] = committedQty[b] + consumed'[k][b]
    BY <1>inv, <1>0, <1>5 DEF Commit, Counted, LedgerTypeOK
  <1>7. LedgerTypeOK'
    BY <1>inv, <1>1, <1>4, <1>5, <1>6 DEF LedgerTypeOK
  <1>8. RowsConsistent'
    BY <1>inv, <1>1, <1>5 DEF RowsConsistent
  <1>9. ASSUME NEW b \in Buckets
        PROVE  /\ Tally(Settled', ConsumedIn(b)') = Tally(Settled, ConsumedIn(b)) + consumed'[k][b]
               /\ Tally(Settled', CoveredIn(b)') <= Tally(Settled, CoveredIn(b)) + reserved[k][b]
               /\ Tally(Settled', CoveredIn(b)') \in Nat
    <2>1. IsFiniteSet(Settled) /\ k \notin Settled /\ MaxQty \in Nat /\ Settled' = Settled \cup {k}
      BY <1>inv, <1>0, <1>2, <1>3, SumsAreNatural
    <2>2. /\ \A y \in Settled : ConsumedIn(b)'[y] = ConsumedIn(b)[y] /\ ConsumedIn(b)[y] \in 0..MaxQty
          /\ ConsumedIn(b)'[k] = consumed'[k][b] /\ ConsumedIn(b)'[k] \in 0..MaxQty
      BY <1>inv, <1>2, <1>5 DEF ConsumedIn, Settled, LedgerTypeOK, Quantities
    <2>3. Tally(Settled', ConsumedIn(b)') = Tally(Settled, ConsumedIn(b)) + ConsumedIn(b)'[k]
      BY <2>1, <2>2, TallyEnter, SMTT(30)
    <2>4. /\ \A y \in Settled : CoveredIn(b)'[y] = CoveredIn(b)[y]
          /\ CoveredIn(b)'[k] = Least(consumed'[k][b], reserved[k][b])
      BY <1>1, <1>2, <1>5 DEF CoveredIn, Settled
    <2>5. \A y \in Settled : CoveredIn(b)[y] \in 0..MaxQty
      BY <1>inv, SumsAreNatural DEF Settled
    <2>6. consumed'[k][b] \in 0..MaxQty /\ reserved[k][b] \in 0..MaxQty
      BY <1>inv, <1>5 DEF LedgerTypeOK, Quantities
    <2>7. CoveredIn(b)'[k] \in 0..MaxQty /\ CoveredIn(b)'[k] <= reserved[k][b]
      BY <1>0, <2>4, <2>6 DEF Least
    <2>8. Tally(Settled', CoveredIn(b)') = Tally(Settled, CoveredIn(b)) + CoveredIn(b)'[k]
      BY <2>1, <2>4, <2>5, <2>7, TallyEnter, SMTT(30)
    <2>9. Tally(Settled, CoveredIn(b)) \in Nat
      BY <1>inv, SumsAreNatural
    <2>10. QED
      BY <1>0, <2>2, <2>3, <2>6, <2>7, <2>8, <2>9
  <1>10. CommittedIsSumOfSettled'
    <2> SUFFICES ASSUME NEW b \in Buckets
                 PROVE  committedQty'[b] = Backfill[b] + Tally(Settled', ConsumedIn(b)')
      BY DEF CommittedIsSumOfSettled
    <2>1. committedQty[b] = Backfill[b] + Tally(Settled, ConsumedIn(b))
      BY <1>inv DEF CommittedIsSumOfSettled
    <2>2. Tally(Settled, ConsumedIn(b)) \in Nat /\ Backfill[b] \in Nat /\ consumed'[k][b] \in Nat
      BY <1>inv, <1>0, <1>5, SumsAreNatural, LedgerAssumption DEF Quantities
    <2>3. QED
      BY <1>6, <1>9, <2>1, <2>2
  <1>11. WithinLimit'
    <2> SUFFICES ASSUME NEW b \in Buckets,
                        Tally(Holding', ReservedIn(b)') + Tally(Settled', CoveredIn(b)') > 0
                 PROVE  Backfill[b] + (Tally(Holding', ReservedIn(b)') + Tally(Settled', CoveredIn(b)'))
                          <= Limit[b]
      BY DEF WithinLimit
    <2>1. /\ Tally(Holding, ReservedIn(b)) \in Nat /\ Tally(Settled, CoveredIn(b)) \in Nat
          /\ reserved[k][b] \in Nat /\ Backfill[b] \in Nat /\ Limit[b] \in Nat
      BY <1>inv, SumsAreNatural, LedgerAssumption DEF LedgerTypeOK, Quantities
    <2>2. /\ Tally(Settled', CoveredIn(b)') <= Tally(Settled, CoveredIn(b)) + reserved[k][b]
          /\ Tally(Settled', CoveredIn(b)') \in Nat
          /\ Tally(Holding', ReservedIn(b)') = Tally(Holding, ReservedIn(b)) - reserved[k][b]
      BY <1>4, <1>9
    <2>3. Tally(Holding, ReservedIn(b)) + Tally(Settled, CoveredIn(b)) > 0
            => Backfill[b] + (Tally(Holding, ReservedIn(b)) + Tally(Settled, CoveredIn(b))) <= Limit[b]
      BY <1>inv DEF WithinLimit
    <2>4. QED
      BY <2>1, <2>2, <2>3
  <1>12. QED
    BY <1>4, <1>7, <1>8, <1>10, <1>11 DEF LedgerInv

(* Parking a row moves no bucket and changes neither set. *)
LEMMA MarkPreserves ==
  ASSUME LedgerInv, NEW k \in Keys, MarkReconciliationRequired(k)
  PROVE  LedgerInv'
PROOF
  <1>inv. /\ LedgerTypeOK /\ RowsConsistent
          /\ ReservedIsSumOfHolding /\ CommittedIsSumOfSettled /\ WithinLimit
    BY DEF LedgerInv
  <1>1. /\ UNCHANGED <<items, reserved, consumed, settled, reservedQty, committedQty>>
        /\ status[k] \in {"pending", "committed"}
        /\ status' = [status EXCEPT ![k] = "reconciliation_required"]
    BY DEF MarkReconciliationRequired
  <1>2. Holding' = Holding /\ Settled' = Settled
    BY <1>inv, <1>1 DEF Holding, Settled, RowsConsistent, LedgerTypeOK
  <1>3. \A b \in Buckets : /\ ReservedIn(b)' = ReservedIn(b)
                           /\ ConsumedIn(b)' = ConsumedIn(b)
                           /\ CoveredIn(b)' = CoveredIn(b)
    BY <1>1 DEF ReservedIn, ConsumedIn, CoveredIn
  <1>4. LedgerTypeOK' /\ RowsConsistent'
    BY <1>inv, <1>1 DEF LedgerTypeOK, RowsConsistent, Statuses
  <1>5. ReservedIsSumOfHolding' /\ CommittedIsSumOfSettled'
    BY <1>inv, <1>1, <1>2, <1>3 DEF ReservedIsSumOfHolding, CommittedIsSumOfSettled
  <1>6. WithinLimit'
    BY <1>inv, <1>2, <1>3 DEF WithinLimit
  <1>7. QED
    BY <1>4, <1>5, <1>6 DEF LedgerInv

(* A step that moves nothing. *)
LEMMA StutterPreserves ==
  ASSUME LedgerInv, UNCHANGED ledgerVars
  PROVE  LedgerInv'
  BY DEF LedgerInv, ledgerVars, LedgerTypeOK, RowsConsistent, ReservedIsSumOfHolding,
         CommittedIsSumOfSettled, WithinLimit, Holding, Settled, ReservedIn, ConsumedIn, CoveredIn

(* Every step of the ledger keeps its invariant. *)
LEMMA LedgerStepPreserves ==
  ASSUME LedgerInv, [LedgerNext]_ledgerVars
  PROVE  LedgerInv'
PROOF
  <1>1. ASSUME NEW k \in Keys, NEW bs \in SUBSET Buckets, NEW ask \in Quantities, Reserve(k, bs, ask)
        PROVE  LedgerInv'
    BY <1>1, ReservePreserves
  <1>2. ASSUME NEW k \in Keys, NEW actual \in Quantities, Commit(k, actual)
        PROVE  LedgerInv'
    BY <1>2, CommitPreserves
  <1>3. ASSUME NEW k \in Keys, Release(k) \/ Expire(k)
        PROVE  LedgerInv'
    BY <1>3, ReleasePreserves
  <1>4. ASSUME NEW k \in Keys, MarkReconciliationRequired(k)
        PROVE  LedgerInv'
    BY <1>4, MarkPreserves
  <1>5. CASE UNCHANGED ledgerVars
    BY <1>5, StutterPreserves
  <1>6. QED
    BY <1>1, <1>2, <1>3, <1>4, <1>5 DEF LedgerNext

-------------------------------------------------------------------------------
(* Theorems about every behaviour of the ledger *)

(* The strengthened invariant holds throughout. *)
THEOREM LedgerInvariant == LedgerSpec => []LedgerInv
  BY LedgerInitInv, LedgerStepPreserves, PTL DEF LedgerSpec

(* Every column and counter keeps its type; counters never go negative.     *)
THEOREM LedgerTypeCorrect == LedgerSpec => []LedgerTypeOK
PROOF
  <1>1. LedgerInv => LedgerTypeOK
    BY DEF LedgerInv
  <1>2. QED
    BY <1>1, LedgerInvariant, PTL

(* The reserved counter of every bucket is the sum of the rows that hold    *)
(* capacity, whatever the callers of the SQL functions do.                  *)
THEOREM LedgerReservedExact == LedgerSpec => []ReservedIsSumOfHolding
PROOF
  <1>1. LedgerInv => ReservedIsSumOfHolding
    BY DEF LedgerInv
  <1>2. QED
    BY <1>1, LedgerInvariant, PTL

(* The committed counter of every bucket is its backfill plus the real      *)
(* usage of every committed row, counted once.                              *)
THEOREM LedgerCommittedExact == LedgerSpec => []CommittedIsSumOfSettled
PROOF
  <1>1. LedgerInv => CommittedIsSumOfSettled
    BY DEF LedgerInv
  <1>2. QED
    BY <1>1, LedgerInvariant, PTL

(* No bucket is promised beyond its limit.                                  *)
THEOREM LedgerWithinLimit == LedgerSpec => []WithinLimit
PROOF
  <1>1. LedgerInv => WithinLimit
    BY DEF LedgerInv
  <1>2. QED
    BY <1>1, LedgerInvariant, PTL

(* No finalised row is revived and no settled usage is rewritten.           *)
THEOREM LedgerFinalisedOnce == LedgerSpec => FinalisedOnce
PROOF
  <1> DEFINE Once(k) ==
        /\ status[k] \in {"released", "expired", "reconciliation_required"} => status'[k] = status[k]
        /\ status[k] = "committed" => status'[k] \in {"committed", "reconciliation_required"}
        /\ settled[k] => settled'[k] /\ consumed'[k] = consumed[k]
  <1>1. ASSUME LedgerInv, [LedgerNext]_ledgerVars, NEW k \in Keys
        PROVE  Once(k)
    <2>inv. LedgerTypeOK /\ RowsConsistent
      BY <1>1 DEF LedgerInv
    <2>1. ASSUME NEW y \in Keys, NEW bs \in SUBSET Buckets, NEW ask \in Quantities, Reserve(y, bs, ask)
          PROVE  Once(k)
      BY <2>inv, <2>1 DEF Reserve, LedgerTypeOK
    <2>2. ASSUME NEW y \in Keys, NEW actual \in Quantities, Commit(y, actual)
          PROVE  Once(k)
      BY <2>inv, <2>2 DEF Commit, Finalisable, LedgerTypeOK, RowsConsistent
    <2>3. ASSUME NEW y \in Keys, Release(y) \/ Expire(y)
          PROVE  Once(k)
      BY <2>inv, <2>3 DEF Release, Expire, Finalisable, LedgerTypeOK
    <2>4. ASSUME NEW y \in Keys, MarkReconciliationRequired(y)
          PROVE  Once(k)
      BY <2>inv, <2>4 DEF MarkReconciliationRequired, LedgerTypeOK
    <2>5. CASE UNCHANGED ledgerVars
      BY <2>5 DEF ledgerVars
    <2>6. QED
      BY <1>1, <2>1, <2>2, <2>3, <2>4, <2>5 DEF LedgerNext
  <1>2. LedgerInv /\ [LedgerNext]_ledgerVars => [\A k \in Keys : Once(k)]_ledgerVars
    BY <1>1
  <1>3. QED
    BY <1>2, LedgerInvariant, PTL DEF LedgerSpec, FinalisedOnce

-------------------------------------------------------------------------------
(* Refinement: the counters implement the counter-free pool *)

(* The pool's phases, read off the rows. *)
LEMMA PhaseSets ==
  /\ Pool!InPhase("held") = Holding
  /\ LedgerInv => Pool!InPhase("spent") = Settled
PROOF
  <1>1. Pool!InPhase("held") = Holding
    BY DEF Pool!InPhase, PhaseOf, Holding
  <1>2. ASSUME LedgerInv PROVE Pool!InPhase("spent") = Settled
    BY <1>2 DEF Pool!InPhase, PhaseOf, Holding, Settled, LedgerInv, RowsConsistent
  <1>3. QED
    BY <1>1, <1>2

(* What the pool counts as a bucket's usage is what the two counters hold.  *)
LEMMA UsageIsCounted ==
  ASSUME LedgerInv, NEW b \in Buckets
  PROVE  /\ Pool!Usage(b) = committedQty[b] + reservedQty[b]
         /\ committedQty[b] \in Nat /\ reservedQty[b] \in Nat
PROOF
  <1>inv. LedgerTypeOK /\ ReservedIsSumOfHolding /\ CommittedIsSumOfSettled
    BY DEF LedgerInv
  <1>1. reservedQty[b] = Tally(Pool!InPhase("held"), [k \in Keys |-> reserved[k][b]])
    BY <1>inv, PhaseSets DEF ReservedIsSumOfHolding, ReservedIn
  <1>2. committedQty[b] = Backfill[b] + Tally(Pool!InPhase("spent"), [k \in Keys |-> consumed[k][b]])
    BY <1>inv, PhaseSets DEF CommittedIsSumOfSettled, ConsumedIn
  <1>3. /\ committedQty[b] \in Nat /\ reservedQty[b] \in Nat /\ Backfill[b] \in Nat
        /\ Tally(Settled, ConsumedIn(b)) \in Nat
    BY <1>inv, SumsAreNatural, LedgerAssumption DEF LedgerTypeOK
  <1>4. Pool!Usage(b) =
          Backfill[b]
            + Tally(Pool!InPhase("held"), [k \in Keys |-> reserved[k][b]])
            + Tally(Pool!InPhase("spent"), [k \in Keys |-> consumed[k][b]])
    BY DEF Pool!Usage, Pool!Tally, Tally, Pool!Units, Units, Pool!Cardinality, Cardinality
  <1>5. Tally(Pool!InPhase("spent"), [k \in Keys |-> consumed[k][b]]) \in Nat
    BY <1>3, PhaseSets DEF ConsumedIn
  <1>6. QED
    BY <1>1, <1>2, <1>3, <1>4, <1>5

(* Rows of one phase step to another; the other rows keep theirs.           *)
LEMMA PhaseMoves ==
  ASSUME LedgerInv, NEW k \in Keys, NEW p,
         \A y \in Keys : y # k => status'[y] = status[y] /\ settled'[y] = settled[y],
         PhaseOf'[k] = p
  PROVE  PhaseOf' = [PhaseOf EXCEPT ![k] = p]
PROOF
  <1>1. \A y \in Keys : y # k => PhaseOf'[y] = PhaseOf[y]
    BY DEF PhaseOf, Holding
  <1>2. PhaseOf = [y \in Keys |-> PhaseOf[y]] /\ PhaseOf' = [y \in Keys |-> PhaseOf'[y]]
    BY DEF PhaseOf
  <1>3. QED
    BY <1>1, <1>2

(* A reservation that is made takes a free claim of the pool, within every  *)
(* limit.                                                                   *)
LEMMA ReserveTakes ==
  ASSUME LedgerInv, LedgerInv', NEW k \in Keys, NEW bs \in SUBSET Buckets, NEW ask \in Quantities,
         Reserve(k, bs, ask)
  PROVE  Pool!Take(k, reserved'[k]) /\ reserved'[k] \in Quantities
PROOF
  <1>inv. LedgerTypeOK /\ RowsConsistent /\ LedgerTypeOK'
    BY DEF LedgerInv
  <1>1. PhaseOf[k] = "free" /\ PhaseOf'[k] = "held"
    BY <1>inv DEF PhaseOf, Holding, Reserve, LedgerTypeOK, RowsConsistent
  <1>2. PhaseOf' = [PhaseOf EXCEPT ![k] = "held"]
    BY <1>inv, <1>1, PhaseMoves DEF Reserve, LedgerTypeOK
  <1>3. reserved'[k] \in Quantities /\ reserved' = [reserved EXCEPT ![k] = reserved'[k]]
    BY <1>inv DEF Reserve, LedgerTypeOK
  <1>4. ASSUME NEW b \in Buckets, reserved'[k][b] > 0
        PROVE  Pool!Usage(b) + reserved'[k][b] <= Limit[b]
    <2>1. reserved'[k][b] = IF b \in bs THEN ask[b] ELSE 0
      BY <1>inv DEF Reserve, LedgerTypeOK
    <2>2. b \in bs /\ reserved'[k][b] = ask[b] /\ ask[b] <= Available(b)
      BY <1>4, <2>1 DEF Reserve, Fits
    <2>3. ask[b] \in Nat /\ Limit[b] \in Nat
      BY LedgerAssumption DEF Quantities
    <2>4. Pool!Usage(b) = committedQty[b] + reservedQty[b] /\ committedQty[b] \in Nat /\ reservedQty[b] \in Nat
      BY UsageIsCounted
    <2>5. QED
      BY <1>4, <2>2, <2>3, <2>4 DEF Available, NonNegative
  <1>5. consumed' = consumed
    BY DEF Reserve
  <1>6. QED
    BY <1>1, <1>2, <1>3, <1>4, <1>5 DEF Pool!Take

(* A commit spends a held claim. *)
LEMMA CommitSpends ==
  ASSUME LedgerInv, LedgerInv', NEW k \in Keys, NEW actual \in Quantities, Commit(k, actual)
  PROVE  Pool!Spend(k, consumed'[k]) /\ consumed'[k] \in Quantities
PROOF
  <1>inv. LedgerTypeOK /\ RowsConsistent /\ LedgerTypeOK'
    BY DEF LedgerInv
  <1>1. PhaseOf[k] = "held" /\ PhaseOf'[k] = "spent"
    BY <1>inv DEF PhaseOf, Holding, Commit, Finalisable, LedgerTypeOK, RowsConsistent
  <1>2. PhaseOf' = [PhaseOf EXCEPT ![k] = "spent"]
    BY <1>inv, <1>1, PhaseMoves DEF Commit, LedgerTypeOK
  <1>3. consumed'[k] \in Quantities /\ consumed' = [consumed EXCEPT ![k] = consumed'[k]] /\ reserved' = reserved
    BY <1>inv DEF Commit, LedgerTypeOK
  <1>4. QED
    BY <1>1, <1>2, <1>3 DEF Pool!Spend

(* A release or an expiry returns a held claim. *)
LEMMA ReleaseGivesBack ==
  ASSUME LedgerInv, NEW k \in Keys, Release(k) \/ Expire(k)
  PROVE  Pool!GiveBack(k)
PROOF
  <1>inv. LedgerTypeOK /\ RowsConsistent
    BY DEF LedgerInv
  <1>1. PhaseOf[k] = "held" /\ PhaseOf'[k] = "returned"
    BY <1>inv DEF PhaseOf, Holding, Release, Expire, Finalisable, LedgerTypeOK, RowsConsistent
  <1>2. PhaseOf' = [PhaseOf EXCEPT ![k] = "returned"]
    BY <1>inv, <1>1, PhaseMoves DEF Release, Expire, LedgerTypeOK
  <1>3. UNCHANGED <<reserved, consumed>>
    BY DEF Release, Expire
  <1>4. QED
    BY <1>1, <1>2, <1>3 DEF Pool!GiveBack

(* Parking a row is no step of the pool. *)
LEMMA MarkStutters ==
  ASSUME LedgerInv, NEW k \in Keys, MarkReconciliationRequired(k)
  PROVE  UNCHANGED Pool!poolVars
PROOF
  <1>inv. LedgerTypeOK /\ RowsConsistent
    BY DEF LedgerInv
  <1>1. PhaseOf'[k] = PhaseOf[k]
    BY <1>inv DEF PhaseOf, Holding, MarkReconciliationRequired, LedgerTypeOK, RowsConsistent
  <1>2. PhaseOf' = [PhaseOf EXCEPT ![k] = PhaseOf[k]]
    BY <1>inv, <1>1, PhaseMoves DEF MarkReconciliationRequired, LedgerTypeOK
  <1>3. PhaseOf' = PhaseOf
    BY <1>2 DEF PhaseOf
  <1>4. QED
    BY <1>3 DEF Pool!poolVars, MarkReconciliationRequired

(* Every step of the ledger is a step of the pool or leaves it alone. *)
LEMMA LedgerStepRefines ==
  ASSUME LedgerInv, [LedgerNext]_ledgerVars
  PROVE  [Pool!PoolNext]_(Pool!poolVars)
PROOF
  <1>1. LedgerInv'
    BY LedgerStepPreserves
  <1>2. ASSUME NEW k \in Keys, NEW bs \in SUBSET Buckets, NEW ask \in Quantities, Reserve(k, bs, ask)
        PROVE  Pool!PoolNext
    <2>1. Pool!Take(k, reserved'[k]) /\ reserved'[k] \in [Buckets -> 0..MaxQty]
      BY <1>1, <1>2, ReserveTakes DEF Quantities
    <2>2. QED
      BY <2>1 DEF Pool!PoolNext
  <1>3. ASSUME NEW k \in Keys, NEW actual \in Quantities, Commit(k, actual)
        PROVE  Pool!PoolNext
    <2>1. Pool!Spend(k, consumed'[k]) /\ consumed'[k] \in [Buckets -> 0..MaxQty]
      BY <1>1, <1>3, CommitSpends DEF Quantities
    <2>2. QED
      BY <2>1 DEF Pool!PoolNext
  <1>4. ASSUME NEW k \in Keys, Release(k) \/ Expire(k)
        PROVE  Pool!PoolNext
    BY <1>4, ReleaseGivesBack DEF Pool!PoolNext
  <1>5. ASSUME NEW k \in Keys, MarkReconciliationRequired(k)
        PROVE  UNCHANGED Pool!poolVars
    BY <1>5, MarkStutters
  <1>6. CASE UNCHANGED ledgerVars
    BY <1>6 DEF ledgerVars, Pool!poolVars, PhaseOf, Holding
  <1>7. QED
    BY <1>2, <1>3, <1>4, <1>5, <1>6 DEF LedgerNext

(* The ledger with its counters implements the pool without them: capacity  *)
(* is taken only where everything held and spent leaves room, and each      *)
(* claim is spent or given back once.                                       *)
THEOREM LedgerImplementsPool == LedgerSpec => ImplementsPool
PROOF
  <1>1. LedgerInit => Pool!PoolInit
    <2> SUFFICES ASSUME LedgerInit PROVE Pool!PoolInit
      OBVIOUS
    <2>1. \A k \in Keys : status[k] = "absent" /\ k \notin Holding /\ ~settled[k]
      BY DEF LedgerInit, Holding
    <2>2. PhaseOf = [k \in Keys |-> "free"]
      BY <2>1 DEF PhaseOf
    <2>3. QED
      BY <2>2 DEF LedgerInit, Pool!PoolInit, Nothing
  <1>2. LedgerInv /\ [LedgerNext]_ledgerVars => [Pool!PoolNext]_(Pool!poolVars)
    BY LedgerStepRefines
  <1>3. QED
    BY <1>1, <1>2, LedgerInvariant, PTL DEF LedgerSpec, ImplementsPool, Pool!PoolSpec
===============================================================================
