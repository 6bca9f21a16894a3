--------------------------- MODULE BacklogProofs ----------------------------
(***************************************************************************)
(* Proofs about BacklogWithTimeout for any items, timeout, clock and ages: *)
(* the sorting of on_timer loses and duplicates no item.                   *)
(***************************************************************************)
EXTENDS BacklogWithTimeout, FiniteSetTheorems, WellFoundedInduction, TLAPS

\* The place p of bucket k, or of bucket_replacement if k is -1, holds x.
Held(x, k, p) ==
  IF k = -1 THEN p \in Positions(x, bucket_replacement)
  ELSE /\ p \in Positions(x, m_items[k])
       /\ k = firing => IF inCallback THEN p > i ELSE p >= i

Rows == Buckets \cup {-1}

\* An item that is kept is held in one place, and no other item in any.
Once(x) ==
  /\ fate[x] = "kept" => \E k \in Rows, p \in Nat : Held(x, k, p)
  /\ fate[x] # "kept" => \A k \in Rows, p \in Nat : ~Held(x, k, p)
  /\ \A k, l \in Rows, p, q \in Nat : Held(x, k, p) /\ Held(x, l, q) => k = l /\ p = q

\* What on_timer keeps: bucket_replacement is in use during a scan only, and the
\* item whose callback is called is at the position of the scan.
ScanInv ==
  /\ m_items \in [Buckets -> Seq(Items)] /\ i \in Nat \ {0}
  /\ firing = -1 => bucket_replacement = <<>>
  /\ inCallback /\ ~stopped => i <= Len(m_items[firing])

\* The inductive invariant of the proofs.
IInv == TypeOK /\ ScanInv /\ (~stopped => \A x \in Items : Once(x))

USE BacklogAssumption

-----------------------------------------------------------------------------
(* Buckets and positions *)

\* A set of naturals that is not empty has its smallest element.
LEMMA MinIn == ASSUME NEW S, S \subseteq Nat, S # {}
               PROVE  Min(S) \in S /\ \A y \in S : Min(S) <= y
<1> DEFINE R == {ss \in Nat \X Nat : ss[1] < ss[2]}
<1>1. IsWellFoundedOn(R, Nat) BY NatLessThanWellFounded DEF OpToRel
<1>2. \A x, y \in Nat : <<y, x>> \in R <=> y < x OBVIOUS
<1> HIDE DEF R
<1>3. \E x \in S : \A y \in S : ~(<<y, x>> \in R) BY <1>1, WFMin
<1>4. PICK x \in S : \A y \in S : ~(y < x) BY <1>2, <1>3
<1>5. \A y \in S : x <= y BY <1>4
<1> QED BY <1>5 DEF Min

\* ... and one that is bounded its largest.
LEMMA MaxIn == ASSUME NEW n \in Nat, NEW S, S \subseteq 0..n, S # {}
               PROVE  Max(S) \in S
<1> DEFINE T == {d \in 0..n : n - d \in S}
<1>1. T \subseteq Nat /\ T # {}
  <2>1. PICK x \in S : TRUE OBVIOUS
  <2>2. x \in 0..n BY <2>1
  <2>3. n - x \in 0..n /\ n - (n - x) = x BY <2>2
  <2>4. n - x \in T BY <2>1, <2>3
  <2>5. T \subseteq Nat OBVIOUS
  <2> HIDE DEF T
  <2> QED BY <2>4, <2>5
<1>2. Min(T) \in T /\ \A d \in T : Min(T) <= d BY <1>1, MinIn
<1>3. n - Min(T) \in S BY <1>2
<1>4. \A y \in S : n - Min(T) >= y
  <2> SUFFICES ASSUME NEW y \in S PROVE n - Min(T) >= y OBVIOUS
  <2>1. n - y \in T OBVIOUS
  <2>2. Min(T) <= n - y BY <1>2, <2>1
  <2>3. Min(T) \in 0..n BY <1>2
  <2> HIDE DEF T
  <2> QED BY <2>2, <2>3
<1> HIDE DEF T
<1> QED BY <1>3, <1>4 DEF Max

\* The index a remaining time is given is one of a bucket.
LEMMA BucketsAre == /\ Buckets \subseteq Nat /\ 0 \in Buckets
                    /\ \A remaining : bucket_index_from_time(remaining) \in Buckets
<1>1. Buckets \subseteq 0..EntityTimeoutMs /\ 0 \in Buckets BY DEF Buckets
<1>2. LastBucket \in Buckets BY <1>1, MaxIn DEF LastBucket
<1>3. ASSUME NEW remaining PROVE bucket_index_from_time(remaining) \in Buckets
  <2> DEFINE fitting == {k \in Buckets \ {0} : remaining >= timeout_ms(k) * TicksPerMs}
  <2>1. fitting \subseteq Buckets OBVIOUS
  <2>3. \/ bucket_index_from_time(remaining) \in {0, LastBucket}
        \/ fitting # {} /\ bucket_index_from_time(remaining) = Min(fitting)
    BY DEF bucket_index_from_time
  <2> HIDE DEF fitting
  <2>2. fitting # {} => Min(fitting) \in fitting
    <3>1. fitting \subseteq Nat BY <1>1, <2>1
    <3> QED BY <3>1, MinIn
  <2> QED BY <1>1, <1>2, <2>1, <2>2, <2>3
<1> QED BY <1>1, <1>3

\* push_back adds one position, the last.
LEMMA Appending ==
  ASSUME NEW s \in Seq(Items), NEW y \in Items
  PROVE  /\ Append(s, y) \in Seq(Items) /\ Len(Append(s, y)) = Len(s) + 1
         /\ \A x, p : p \in Positions(x, Append(s, y)) <=>
              p \in Positions(x, s) \/ (x = y /\ p = Len(s) + 1)
BY DEF Positions

\* erase takes one position away and moves those after it.
LEMMA Erasing ==
  ASSUME NEW s \in Seq(Items), NEW r \in 1..Len(s)
  PROVE  /\ Without(r, s) \in Seq(Items) /\ Len(Without(r, s)) = Len(s) - 1
         /\ \A x, p : p \in Positions(x, Without(r, s)) <=>
              \/ p \in Positions(x, s) /\ p < r
              \/ p \in Nat /\ p >= r /\ p + 1 \in Positions(x, s)
<1> DEFINE a == SubSeq(s, 1, r - 1)
           b == SubSeq(s, r + 1, Len(s))
<1>1. a \in Seq(Items) /\ Len(a) = r - 1 /\ \A p \in 1..(r - 1) : a[p] = s[p] OBVIOUS
<1>2. b \in Seq(Items) /\ Len(b) = Len(s) - r /\ \A p \in 1..(Len(s) - r) : b[p] = s[r + p] OBVIOUS
<1>3. Without(r, s) = a \o b BY DEF Without
<1> HIDE DEF a, b
<1>0. Len(s) \in Nat OBVIOUS
<1>4. a \o b \in Seq(Items) /\ Len(a \o b) = Len(s) - 1
  <2>0. a \in Seq(Items) /\ b \in Seq(Items) BY <1>1, <1>2
  <2>1. a \o b \in Seq(Items) /\ Len(a \o b) = Len(a) + Len(b) BY <2>0
  <2> QED BY <1>0, <1>1, <1>2, <2>1
<1>5. \A p \in 1..(Len(s) - 1) : (a \o b)[p] = IF p < r THEN s[p] ELSE s[p + 1]
  BY <1>1, <1>2
<1> HIDE DEF a, b
<1>6. ASSUME NEW x, NEW p
      PROVE  p \in Positions(x, a \o b) <=>
               \/ p \in Positions(x, s) /\ p < r
               \/ p \in Nat /\ p >= r /\ p + 1 \in Positions(x, s)
  <2>1. CASE p \in Nat /\ p < r
    <3>1. p \in 1..Len(a \o b) <=> p \in 1..Len(s) BY <1>0, <1>4, <2>1
    <3>2. p \in 1..Len(a \o b) => (a \o b)[p] = s[p] BY <1>4, <1>5, <2>1
    <3>3. ~(p >= r) BY <2>1
    <3> QED BY <2>1, <3>1, <3>2, <3>3, Zenon DEF Positions
  <2>2. CASE p \in Nat /\ ~(p < r)
    <3>1. p \in 1..Len(a \o b) <=> p + 1 \in 1..Len(s) BY <1>0, <1>4, <2>2
    <3>2. p \in 1..Len(a \o b) => (a \o b)[p] = s[p + 1] BY <1>4, <1>5, <2>2
    <3>3. p >= r BY <2>2
    <3> QED BY <2>2, <3>1, <3>2, <3>3, Zenon DEF Positions
  <2>3. CASE p \notin Nat
    <3>1. p \notin 1..Len(a \o b) /\ p \notin 1..Len(s) BY <2>3
    <3> QED BY <2>3, <3>1, Zenon DEF Positions
  <2> QED BY <2>1, <2>2, <2>3
<1> QED BY <1>3, <1>4, <1>6

-----------------------------------------------------------------------------
(* The invariant *)

\* An item stays in its place if its places and its fate do not change.
LEMMA SameOnce ==
  ASSUME NEW x \in Items, Once(x), fate'[x] = fate[x],
         \A k \in Rows, p \in Nat : Held(x, k, p)' <=> Held(x, k, p)
  PROVE  Once(x)'
BY DEF Once

\* ... is in one place if only the place q of l holds it, ...
LEMMA PlaceOnce ==
  ASSUME NEW x \in Items, NEW l \in Rows, NEW q \in Nat, fate'[x] = "kept",
         \A k \in Rows, p \in Nat : Held(x, k, p)' <=> k = l /\ p = q
  PROVE  Once(x)'
BY DEF Once

\* ... and in none once it has expired or was removed.
LEMMA GoneOnce ==
  ASSUME NEW x \in Items, fate'[x] # "kept",
         \A k \in Rows, p \in Nat : ~Held(x, k, p)'
  PROVE  Once(x)'
BY DEF Once

\* The constructor makes empty buckets.
LEMMA InitIInv == Init => IInv
<1> SUFFICES ASSUME Init PROVE IInv OBVIOUS
<1>1. <<>> \in Seq(Items) OBVIOUS
<1>0. 0 \in 0..MaxNow /\ 0 \in Int OBVIOUS
<1>2. TypeOK BY <1>0, <1>1, Zenon DEF Init, TypeOK
<1>3. ScanInv BY <1>1 DEF Init, ScanInv
<1>4. ASSUME NEW x \in Items PROVE Once(x)
  BY BucketsAre DEF Init, Once, Held, Positions, Rows
<1> QED BY <1>2, <1>3, <1>4 DEF IInv

\* A timer fires: the whole bucket is still to be scanned.
LEMMA OnTimerStep == ASSUME NEW k \in Buckets, IInv, on_timer(k) PROVE IInv'
<1>1. /\ UNCHANGED <<now, time, m_items, stopped, inCallback, fate, crashed>> /\ firing = -1 /\ firing' = k
      /\ i' = 1 /\ bucket_replacement' = <<>> /\ k # -1
  BY BucketsAre DEF on_timer
<1>2. ~inCallback /\ bucket_replacement = <<>> BY <1>1 DEF IInv, TypeOK, ScanInv
<1>3. TypeOK' /\ ScanInv' BY <1>1, <1>2 DEF IInv, TypeOK, ScanInv
<1>4. ASSUME NEW x \in Items, Once(x) PROVE Once(x)'
  <2>1. ASSUME NEW l \in Rows, NEW p \in Nat PROVE Held(x, l, p)' <=> Held(x, l, p)
    BY <1>1, <1>2 DEF Held, Positions
  <2> QED BY <1>1, <1>4, <2>1, SameOnce
<1> QED BY <1>1, <1>3, <1>4 DEF IInv

\* The callback returns: the scan goes on behind the item, or ends after a stop().
LEMMA CallbackReturnsStep == IInv /\ CallbackReturns => IInv'
<1> SUFFICES ASSUME IInv, CallbackReturns PROVE IInv' OBVIOUS
<1>1. UNCHANGED <<now, time, m_items, stopped, fate, crashed>> /\ inCallback /\ inCallback' = FALSE
  BY DEF CallbackReturns
<1>2. CASE stopped
  <2>1. firing' = -1 /\ i' = 1 /\ bucket_replacement' = <<>> BY <1>2 DEF CallbackReturns
  <2>2. <<>> \in Seq(Items) OBVIOUS
  <2>3. TypeOK' BY <1>1, <2>1, <2>2, Zenon DEF IInv, TypeOK
  <2>4. ScanInv' BY <1>1, <2>1 DEF IInv, ScanInv
  <2> QED BY <1>1, <1>2, <2>3, <2>4 DEF IInv
<1>3. CASE ~stopped
  <2>1. i' = i + 1 /\ UNCHANGED <<firing, bucket_replacement>> BY <1>3 DEF CallbackReturns
  <2>2. TypeOK' BY <1>1, <2>1, Zenon DEF IInv, TypeOK
  <2>4. ScanInv' BY <1>1, <2>1 DEF IInv, TypeOK, ScanInv
  <2>3. ASSUME NEW x \in Items PROVE Once(x)'
    <3>1. ASSUME NEW l \in Rows, NEW p \in Nat PROVE Held(x, l, p)' <=> Held(x, l, p)
      BY <1>1, <2>1 DEF Held, Positions, IInv, ScanInv
    <3> QED BY <1>1, <1>3, <3>1, SameOnce DEF IInv
  <2> QED BY <2>2, <2>3, <2>4 DEF IInv
<1> QED BY <1>2, <1>3

\* The new time of an item moves it only at the next scan.
LEMMA TouchStep == ASSUME NEW x \in Items, IInv, Touch(x) PROVE IInv'
<1>1. UNCHANGED <<now, m_items, stopped, firing, i, bucket_replacement, inCallback, fate, crashed>> BY DEF Touch
<1>2. now \in Int BY DEF IInv, TypeOK
<1>3. time' \in [Items -> Int] BY <1>2 DEF Touch, IInv, TypeOK
<1>4. TypeOK' BY <1>1, <1>3, Zenon DEF IInv, TypeOK
<1>5. ScanInv' BY <1>1, Zenon DEF IInv, ScanInv
<1>6. ASSUME NEW y \in Items, Once(y) PROVE Once(y)'
  <2>1. \A k \in Rows, p \in Nat : Held(y, k, p)' <=> Held(y, k, p) BY <1>1, Zenon DEF Held, Positions
  <2> QED BY <1>1, <1>6, <2>1, SameOnce
<1> QED BY <1>1, <1>4, <1>5, <1>6 DEF IInv

\* A stop() leaves nothing to account for.
LEMMA StopStep == IInv /\ stop => IInv'
<1> SUFFICES ASSUME IInv, stop PROVE IInv' OBVIOUS
<1>1. /\ UNCHANGED <<now, time, firing, i, bucket_replacement, inCallback, crashed>> /\ stopped' = TRUE
      /\ m_items' = [k \in Buckets |-> <<>>]
  BY DEF stop
<1>2. m_items' \in [Buckets -> Seq(Items)] BY <1>1
<1>3. fate' \in [Items -> {"new", "kept", "expired", "removed"}] BY DEF stop, IInv, TypeOK
<1>4. TypeOK' BY <1>1, <1>2, <1>3, Zenon DEF IInv, TypeOK
<1>5. ScanInv' BY <1>1, <1>2, Zenon DEF IInv, ScanInv
<1> QED BY <1>1, <1>4, <1>5 DEF IInv

\* A new item is appended to the bucket of its index, behind the scan if that
\* bucket is being scanned.
LEMMA AddItemStep ==
  ASSUME NEW x \in Items, NEW age \in AddAges \cup {-1}, IInv, add_item(x, age)
  PROVE  IInv'
<1>1. /\ crashed' = stopped /\ UNCHANGED <<now, stopped, firing, i, bucket_replacement, inCallback>> /\ UserCode
      /\ fate[x] = "new" BY DEF add_item
<1>2. CASE UNCHANGED <<time, m_items, fate>>
  <2>1. TypeOK' /\ ScanInv' BY <1>1, <1>2, Zenon DEF IInv, TypeOK, ScanInv
  <2>2. ASSUME NEW y \in Items, Once(y) PROVE Once(y)'
    <3>1. \A k \in Rows, p \in Nat : Held(y, k, p)' <=> Held(y, k, p) BY <1>1, <1>2, Zenon DEF Held, Positions
    <3> QED BY <1>2, <2>2, <3>1, SameOnce
  <2> QED BY <1>1, <2>1, <2>2 DEF IInv
<1>3. CASE fate' = [fate EXCEPT ![x] = "expired"] /\ UNCHANGED <<time, m_items>>
  <2>1. fate' \in [Items -> {"new", "kept", "expired", "removed"}] BY <1>3 DEF IInv, TypeOK
  <2>2. TypeOK' /\ ScanInv' BY <1>1, <1>3, <2>1, Zenon DEF IInv, TypeOK, ScanInv
  <2>3. ASSUME NEW y \in Items, Once(y) PROVE Once(y)'
    <3>1. \A k \in Rows, p \in Nat : Held(y, k, p)' <=> Held(y, k, p) BY <1>1, <1>3, Zenon DEF Held, Positions
    <3>2. CASE y # x
      <4>1. fate'[y] = fate[y] BY <1>3, <3>2 DEF IInv, TypeOK
      <4> QED BY <2>3, <3>1, <4>1, SameOnce
    <3>3. CASE y = x
      <4>1. fate'[x] # "kept" BY <1>3 DEF IInv, TypeOK
      <4>2. \A k \in Rows, p \in Nat : ~Held(x, k, p)' BY <1>1, <2>3, <3>1, <3>3 DEF Once
      <4> QED BY <3>3, <4>1, <4>2, GoneOnce
    <3> QED BY <3>2, <3>3
  <2> QED BY <1>1, <2>2, <2>3 DEF IInv
<1>4. CASE ~(age < 0 \/ stopped) /\ ~(age >= m_entity_timeout)
  <2> DEFINE index == bucket_index_from_time(m_entity_timeout - age)
             s == m_items[index]
  <2>1. /\ time' = [time EXCEPT ![x] = now - age]
        /\ m_items' = [m_items EXCEPT ![index] = Append(@, x)]
        /\ fate' = [fate EXCEPT ![x] = "kept"]
    BY <1>4 DEF add_item
  <2>2. index \in Buckets /\ index # -1 BY BucketsAre
  <2> HIDE DEF index
  <2>3. s \in Seq(Items) /\ m_items \in [Buckets -> Seq(Items)] BY <2>2 DEF IInv, ScanInv
  <2>4. /\ m_items'[index] = Append(s, x) /\ \A k \in Buckets \ {index} : m_items'[k] = m_items[k]
        /\ m_items' \in [Buckets -> Seq(Items)]
    BY <2>1, <2>2, <2>3
  <2> HIDE DEF s
  <2>5. now - age \in Int BY DEF IInv, TypeOK
  <2>6. time' \in [Items -> Int] BY <2>1, <2>5 DEF IInv, TypeOK
  <2>7. /\ fate' \in [Items -> {"new", "kept", "expired", "removed"}] /\ fate'[x] = "kept"
        /\ \A y \in Items \ {x} : fate'[y] = fate[y]
    BY <2>1 DEF IInv, TypeOK
  <2>8. TypeOK' BY <1>1, <2>4, <2>6, <2>7, Zenon DEF IInv, TypeOK
  <2>9. Len(s) \in Nat /\ Len(Append(s, x)) = Len(s) + 1 BY <2>3
  <2>10. inCallback => firing \in Buckets /\ i \in Nat /\ i <= Len(m_items[firing])
    BY <1>4 DEF IInv, TypeOK, ScanInv
  <2>11. inCallback /\ firing = index => i <= Len(s) BY <2>10 DEF s
  <2>12. ScanInv'
    <3>1. inCallback => i <= Len(m_items'[firing]) BY <2>4, <2>9, <2>10, <2>11
    <3> QED BY <1>1, <2>4, <3>1 DEF IInv, ScanInv
  <2>13. \A y, p : p \in Positions(y, m_items'[index]) <=> p \in Positions(y, s) \/ (y = x /\ p = Len(s) + 1)
    BY <2>3, <2>4, Appending
  <2>14. \A k \in Buckets \ {index} : \A y : Positions(y, m_items'[k]) = Positions(y, m_items[k])
    BY <2>4, Zenon DEF Positions
  <2>15. index = firing => inCallback /\ Len(s) + 1 > i
    BY <1>1, <2>2, <2>9, <2>10, <2>11 DEF UserCode
  <2>16. ASSUME NEW y \in Items, NEW k \in Rows, NEW p \in Nat
         PROVE  Held(y, k, p)' <=> Held(y, k, p) \/ (y = x /\ k = index /\ p = Len(s) + 1)
    <3>1. CASE k = -1 BY <1>1, <2>2, <3>1, Zenon DEF Held, Positions
    <3>2. CASE k # -1 /\ k # index BY <1>1, <2>14, <3>2, Zenon DEF Held, Rows
    <3>3. CASE k = index BY <1>1, <2>2, <2>13, <2>15, <3>3, Zenon DEF Held, s
    <3> QED BY <3>1, <3>2, <3>3
  <2>17. ASSUME NEW y \in Items PROVE Once(y)'
    <3>0. Once(y) BY <1>4 DEF IInv
    <3>1. CASE y # x
      <4>1. \A k \in Rows, p \in Nat : Held(y, k, p)' <=> Held(y, k, p) BY <2>16, <3>1
      <4> QED BY <2>7, <3>0, <3>1, <4>1, SameOnce
    <3>2. CASE y = x
      <4>1. \A k \in Rows, p \in Nat : ~Held(x, k, p) BY <1>1, <3>0, <3>2 DEF Once
      <4>2. \A k \in Rows, p \in Nat : Held(x, k, p)' <=> k = index /\ p = Len(s) + 1 BY <2>16, <4>1
      <4>3. index \in Rows /\ Len(s) + 1 \in Nat BY <2>2, <2>9 DEF Rows
      <4> QED BY <2>7, <3>2, <4>2, <4>3, PlaceOnce, Zenon
    <3> QED BY <3>1, <3>2
  <2> QED BY <2>8, <2>12, <2>17 DEF IInv
<1> QED BY <1>2, <1>3, <1>4 DEF add_item

\* An item is erased where the scan has not been yet; the items behind it move
\* up by one, and stay behind the scan.
LEMMA RemoveItemStep ==
  ASSUME ~RemovesScanned, NEW x \in Items, IInv, remove_item(x)
  PROVE  IInv'
<1> DEFINE holding == {k \in Buckets : Positions(x, m_items[k]) # {}}
           K == Min(holding)
           s == m_items[K]
           r == Min(Positions(x, s))
<1>1. /\ UNCHANGED <<now, time, stopped, firing, i, bucket_replacement, inCallback, crashed>> /\ UserCode /\ ~stopped
      /\ inCallback => \A p \in Positions(x, m_items[firing]) : p > i
      /\ holding # {}
      /\ m_items' = [m_items EXCEPT ![K] = Without(r, s)]
      /\ fate' = [fate EXCEPT ![x] = "removed"]
  BY DEF remove_item
<1>2. K \in Buckets /\ Positions(x, s) # {}
  <2>1. holding \subseteq Nat BY BucketsAre
  <2> HIDE DEF holding
  <2>2. K \in holding BY <1>1, <2>1, MinIn
  <2> QED BY <2>2 DEF holding
<1> HIDE DEF holding, K
<1>3. s \in Seq(Items) /\ m_items \in [Buckets -> Seq(Items)] BY <1>2 DEF IInv, ScanInv
<1>4. r \in Positions(x, s)
  <2>1. Positions(x, s) \subseteq Nat BY DEF Positions
  <2> QED BY <1>2, <2>1, MinIn
<1>5. /\ m_items'[K] = Without(r, s) /\ \A k \in Buckets \ {K} : m_items'[k] = m_items[k]
      /\ DOMAIN m_items' = Buckets
  BY <1>1, <1>2, <1>3
<1>6. K = firing => inCallback /\ r > i
  <2>1. K # -1 BY <1>2, BucketsAre
  <2> QED BY <1>1, <1>4, <2>1 DEF UserCode
<1> HIDE DEF r, s
<1>7. r \in 1..Len(s) /\ Len(s) \in Nat /\ i \in Nat BY <1>3, <1>4 DEF Positions, IInv, ScanInv
<1>8. /\ Without(r, s) \in Seq(Items) /\ Len(Without(r, s)) = Len(s) - 1
      /\ \A y, p : p \in Positions(y, m_items'[K]) <=>
           \/ p \in Positions(y, s) /\ p < r
           \/ p \in Nat /\ p >= r /\ p + 1 \in Positions(y, s)
  BY <1>3, <1>5, <1>7, Erasing
<1>9. m_items' \in [Buckets -> Seq(Items)] BY <1>1, <1>2, <1>3, <1>8
<1>10. /\ fate' \in [Items -> {"new", "kept", "expired", "removed"}] /\ fate'[x] # "kept"
       /\ \A y \in Items \ {x} : fate'[y] = fate[y]
  BY <1>1 DEF IInv, TypeOK
<1>11. TypeOK' BY <1>1, <1>9, <1>10, Zenon DEF IInv, TypeOK
<1>12. ScanInv'
  <2>1. inCallback => firing \in Buckets /\ i <= Len(m_items[firing]) BY <1>1 DEF IInv, TypeOK, ScanInv
  <2>2. CASE firing = K
    <3>1. Len(m_items'[firing]) = Len(s) - 1 BY <1>5, <1>8, <2>2
    <3>2. i <= Len(s) - 1 BY <1>6, <1>7, <2>2
    <3> QED BY <1>1, <1>9, <3>1, <3>2 DEF IInv, ScanInv
  <2>3. CASE firing # K
    <3>1. inCallback => i <= Len(m_items'[firing]) BY <1>5, <2>1, <2>3
    <3> QED BY <1>1, <1>9, <3>1 DEF IInv, ScanInv
  <2> QED BY <2>2, <2>3
<1> DEFINE Old(k, p) == IF k = K /\ p >= r THEN p + 1 ELSE p
<1>13. ASSUME NEW y \in Items, NEW k \in Rows, NEW p \in Nat
       PROVE  Held(y, k, p)' <=> Held(y, k, Old(k, p))
  <2>0. K # -1 BY <1>2, BucketsAre
  <2>1. CASE k = -1 BY <1>1, <2>0, <2>1, Zenon DEF Held, Positions
  <2>2. CASE k # -1 /\ k # K BY <1>1, <1>5, <2>2, Zenon DEF Held, Positions, Rows
  <2>3. CASE k = K
    <3>1. CASE p < r
      <4>1. Old(k, p) = p BY <1>7, <3>1
      <4>2. p \in Positions(y, m_items'[K]) <=> p \in Positions(y, s) BY <1>7, <1>8, <3>1
      <4> HIDE DEF Old
      <4> QED BY <1>1, <2>0, <2>3, <4>1, <4>2, Zenon DEF Held, s
    <3>2. CASE ~(p < r)
      <4>1. Old(k, p) = p + 1 BY <1>7, <2>3, <3>2
      <4>2. p \in Positions(y, m_items'[K]) <=> p + 1 \in Positions(y, s) BY <1>7, <1>8, <3>2
      <4>3. K = firing => inCallback /\ p > i /\ p + 1 > i BY <1>6, <1>7, <3>2
      <4> HIDE DEF Old
      <4> QED BY <1>1, <2>0, <2>3, <4>1, <4>2, <4>3, Zenon DEF Held, s
    <3> QED BY <3>1, <3>2
  <2> QED BY <2>1, <2>2, <2>3
<1>14. \A k \in Rows, p \in Nat : Old(k, p) \in Nat /\ ~(k = K /\ Old(k, p) = r) BY <1>7
<1>15. \A k \in Rows, p, q \in Nat : Old(k, p) = Old(k, q) => p = q BY <1>7
<1>16. \A k \in Rows, q \in Nat : ~(k = K /\ q = r) => \E p \in Nat : Old(k, p) = q
  <2> SUFFICES ASSUME NEW k \in Rows, NEW q \in Nat, ~(k = K /\ q = r) PROVE \E p \in Nat : Old(k, p) = q OBVIOUS
  <2>1. CASE k = K /\ q > r
    <3>1. q - 1 \in Nat /\ Old(k, q - 1) = q BY <1>7, <2>1
    <3> QED BY <3>1
  <2>2. CASE ~(k = K /\ q > r)
    <3>1. Old(k, q) = q BY <1>7, <2>2
    <3> QED BY <3>1
  <2> QED BY <2>1, <2>2
<1> HIDE DEF Old
<1>17. ASSUME NEW y \in Items PROVE Once(y)'
  <2>0. Once(y) BY <1>1 DEF IInv
  <2>1. CASE y # x
    <3>1. ~Held(y, K, r)
      <4>1. s[r] = x BY <1>4 DEF Positions
      <4>2. K # -1 BY <1>2, BucketsAre
      <4> QED BY <2>1, <4>1, <4>2, Zenon DEF Held, Positions, s
    <3>2. fate'[y] = "kept" => \E k \in Rows, p \in Nat : Held(y, k, p)'
      <4> SUFFICES ASSUME fate'[y] = "kept" PROVE \E k \in Rows, p \in Nat : Held(y, k, p)' OBVIOUS
      <4>1. fate[y] = "kept" BY <1>10, <2>1
      <4>2. PICK k \in Rows, q \in Nat : Held(y, k, q) BY <2>0, <4>1 DEF Once
      <4>3. PICK p \in Nat : Old(k, p) = q BY <1>16, <3>1, <4>2
      <4> QED BY <1>13, <4>2, <4>3
    <3>3. fate'[y] # "kept" => \A k \in Rows, p \in Nat : ~Held(y, k, p)'
      BY <1>10, <1>13, <1>14, <2>0, <2>1 DEF Once
    <3>4. \A k, l \in Rows, p, q \in Nat : Held(y, k, p)' /\ Held(y, l, q)' => k = l /\ p = q
      BY <1>13, <1>14, <1>15, <2>0 DEF Once
    <3> QED BY <3>2, <3>3, <3>4 DEF Once
  <2>2. CASE y = x
    <3>1. K \in Rows /\ r \in Nat /\ Held(x, K, r)
      <4>1. K # -1 BY <1>2, BucketsAre
      <4>2. r \in Positions(x, m_items[K]) BY <1>4 DEF s
      <4> QED BY <1>2, <1>6, <1>7, <4>1, <4>2 DEF Held, Rows
    <3>2. \A k \in Rows, p \in Nat : ~Held(x, k, p)' BY <1>13, <1>14, <2>0, <2>2, <3>1 DEF Once
    <3> QED BY <1>10, <2>2, <3>2, GoneOnce
  <2> QED BY <2>1, <2>2
<1> QED BY <1>11, <1>12, <1>17 DEF IInv

\* One turn of the loop: the item at the scan's position expires, goes to the end
\* of another bucket, or to the bucket that will replace this one.
LEMMA ScanStep == IInv /\ Scan => IInv'
<1> SUFFICES ASSUME IInv, Scan PROVE IInv' OBVIOUS
<1>1. /\ UNCHANGED <<now, time, stopped, firing, crashed>>
      /\ firing \in Buckets /\ firing # -1 /\ inCallback = FALSE /\ i \in Nat \ {0}
      /\ i <= Len(m_items[firing]) /\ m_items \in [Buckets -> Seq(Items)]
  BY DEF Scan, IInv, TypeOK, ScanInv
<1>0. m_items[firing][i] \in Items BY <1>1
<1>2. PICK x \in Items : x = m_items[firing][i] /\ i \in Positions(x, m_items[firing])
  BY <1>0, <1>1 DEF Positions
<1> DEFINE index == bucket_index_from_time(m_entity_timeout - (now - time[x]))
<1>3. index \in Buckets /\ index # -1 BY BucketsAre
<1>4. \/ /\ inCallback' = TRUE /\ fate' = [fate EXCEPT ![x] = "expired"]
         /\ UNCHANGED <<m_items, i, bucket_replacement>>
      \/ /\ i' = i + 1 /\ UNCHANGED <<inCallback, fate>> /\ index # firing
         /\ m_items' = [m_items EXCEPT ![index] = Append(@, x)] /\ UNCHANGED bucket_replacement
      \/ /\ i' = i + 1 /\ UNCHANGED <<inCallback, fate>>
         /\ bucket_replacement' = Append(bucket_replacement, x) /\ UNCHANGED m_items
  BY <1>2 DEF Scan
<1>5. \A y \in Items : y # x => i \notin Positions(y, m_items[firing]) BY <1>2 DEF Positions
<1> HIDE DEF index
<1>6. Held(x, firing, i) /\ firing \in Rows BY <1>1, <1>2 DEF Held, Rows
<1>7. ~stopped => fate[x] = "kept" /\ \A k \in Rows, p \in Nat : Held(x, k, p) => k = firing /\ p = i
  BY <1>1, <1>2, <1>6 DEF IInv, Once
<1>8. CASE inCallback' = TRUE /\ fate' = [fate EXCEPT ![x] = "expired"] /\ UNCHANGED <<m_items, i, bucket_replacement>>
  <2>1. /\ fate' \in [Items -> {"new", "kept", "expired", "removed"}] /\ fate'[x] # "kept"
        /\ \A y \in Items \ {x} : fate'[y] = fate[y]
    BY <1>2, <1>8 DEF IInv, TypeOK
  <2>2. TypeOK' BY <1>1, <1>8, <2>1, Zenon DEF IInv, TypeOK
  <2>3. ScanInv' BY <1>1, <1>8, Zenon DEF IInv, ScanInv
  <2>4. ASSUME NEW y \in Items, NEW k \in Rows, NEW p \in Nat
        PROVE  Held(y, k, p)' <=> Held(y, k, p) /\ ~(k = firing /\ p = i)
    <3>1. p > i <=> p >= i /\ p # i BY <1>1
    <3> QED BY <1>1, <1>8, <3>1, Zenon DEF Held, Positions
  <2>5. ASSUME ~stopped, NEW y \in Items PROVE Once(y)'
    <3>1. CASE y # x
      <4>1. ~Held(y, firing, i) BY <1>1, <1>5, <3>1 DEF Held
      <4>2. \A k \in Rows, p \in Nat : Held(y, k, p)' <=> Held(y, k, p) BY <2>4, <4>1
      <4> QED BY <2>1, <2>5, <3>1, <4>2, SameOnce DEF IInv
    <3>2. CASE y = x
      <4>1. \A k \in Rows, p \in Nat : ~Held(x, k, p)' BY <1>2, <1>7, <2>4, <2>5
      <4> QED BY <1>2, <2>1, <3>2, <4>1, GoneOnce
    <3> QED BY <3>1, <3>2
  <2> QED BY <1>1, <2>2, <2>3, <2>5 DEF IInv
<1>9. CASE /\ i' = i + 1 /\ UNCHANGED <<inCallback, fate>> /\ index # firing
           /\ m_items' = [m_items EXCEPT ![index] = Append(@, x)] /\ UNCHANGED bucket_replacement
  <2> DEFINE s == m_items[index]
  <2>1. s \in Seq(Items) BY <1>1, <1>3
  <2>2. /\ m_items'[index] = Append(s, x) /\ \A k \in Buckets \ {index} : m_items'[k] = m_items[k]
        /\ m_items' \in [Buckets -> Seq(Items)]
    BY <1>1, <1>2, <1>3, <1>9
  <2> HIDE DEF s
  <2>3. TypeOK' BY <1>1, <1>9, <2>2, Zenon DEF IInv, TypeOK
  <2>4. ScanInv' BY <1>1, <1>9, <2>2 DEF IInv, ScanInv
  <2>5. \A y, p : p \in Positions(y, m_items'[index]) <=> p \in Positions(y, s) \/ (y = x /\ p = Len(s) + 1)
    BY <1>2, <2>1, <2>2, Appending
  <2>6. ASSUME NEW y \in Items, NEW k \in Rows, NEW p \in Nat
        PROVE  Held(y, k, p)' <=> \/ Held(y, k, p) /\ ~(k = firing /\ p = i)
                                  \/ y = x /\ k = index /\ p = Len(s) + 1
    <3>1. p >= i' <=> p >= i /\ p # i BY <1>1, <1>9
    <3>2. CASE k = -1 BY <1>1, <1>3, <1>9, <3>2, Zenon DEF Held, Positions
    <3>3. CASE k # -1 /\ k # index BY <1>1, <1>9, <2>2, <3>1, <3>3, Zenon DEF Held, Positions, Rows
    <3>4. CASE k = index BY <1>1, <1>3, <1>9, <2>5, <3>4, Zenon DEF Held, s
    <3> QED BY <3>2, <3>3, <3>4
  <2>7. index \in Rows /\ Len(s) + 1 \in Nat BY <1>3, <2>1 DEF Rows
  <2>8. ASSUME ~stopped, NEW y \in Items PROVE Once(y)'
    <3>1. CASE y # x
      <4>1. ~Held(y, firing, i) BY <1>1, <1>5, <3>1 DEF Held
      <4>2. \A k \in Rows, p \in Nat : Held(y, k, p)' <=> Held(y, k, p) BY <2>6, <3>1, <4>1
      <4> QED BY <1>9, <2>8, <4>2, SameOnce DEF IInv
    <3>2. CASE y = x
      <4>1. \A k \in Rows, p \in Nat : Held(x, k, p)' <=> k = index /\ p = Len(s) + 1
        BY <1>2, <1>7, <2>6, <2>8
      <4>2. fate'[x] = "kept" BY <1>7, <1>9, <2>8
      <4>3. \E l \in Rows, q \in Nat : \A k \in Rows, p \in Nat : Held(x, k, p)' <=> k = l /\ p = q
        BY <2>7, <4>1, Zenon
      <4> QED BY <3>2, <4>2, <4>3, PlaceOnce, Zenon
    <3> QED BY <3>1, <3>2
  <2> QED BY <1>1, <2>3, <2>4, <2>8 DEF IInv
<1>10. CASE /\ i' = i + 1 /\ UNCHANGED <<inCallback, fate>>
            /\ bucket_replacement' = Append(bucket_replacement, x) /\ UNCHANGED m_items
  <2> DEFINE s == bucket_replacement
  <2>1. s \in Seq(Items) BY DEF IInv, TypeOK
  <2>2. /\ s' \in Seq(Items)
        /\ \A y, p : p \in Positions(y, s') <=> p \in Positions(y, s) \/ (y = x /\ p = Len(s) + 1)
    BY <1>2, <1>10, <2>1, Appending
  <2>3. TypeOK' BY <1>1, <1>10, <2>2, Zenon DEF IInv, TypeOK
  <2>4. ScanInv' BY <1>1, <1>10 DEF IInv, ScanInv
  <2>5. ASSUME NEW y \in Items, NEW k \in Rows, NEW p \in Nat
        PROVE  Held(y, k, p)' <=> \/ Held(y, k, p) /\ ~(k = firing /\ p = i)
                                  \/ y = x /\ k = -1 /\ p = Len(s) + 1
    <3>1. p >= i' <=> p >= i /\ p # i BY <1>1, <1>10
    <3>2. CASE k = -1 BY <1>1, <1>10, <2>2, <3>2, Zenon DEF Held
    <3>3. CASE k # -1 BY <1>1, <1>10, <3>1, <3>3, Zenon DEF Held, Positions
    <3> QED BY <3>2, <3>3
  <2>6. -1 \in Rows /\ Len(s) + 1 \in Nat BY <2>1 DEF Rows
  <2>7. ASSUME ~stopped, NEW y \in Items PROVE Once(y)'
    <3>1. CASE y # x
      <4>1. ~Held(y, firing, i) BY <1>1, <1>5, <3>1 DEF Held
      <4>2. \A k \in Rows, p \in Nat : Held(y, k, p)' <=> Held(y, k, p) BY <2>5, <3>1, <4>1
      <4> QED BY <1>10, <2>7, <4>2, SameOnce DEF IInv
    <3>2. CASE y = x
      <4>1. \A k \in Rows, p \in Nat : Held(x, k, p)' <=> k = -1 /\ p = Len(s) + 1
        BY <1>2, <1>7, <2>5, <2>7
      <4>2. fate'[x] = "kept" BY <1>7, <1>10, <2>7
      <4>3. \E l \in Rows, q \in Nat : \A k \in Rows, p \in Nat : Held(x, k, p)' <=> k = l /\ p = q
        BY <2>6, <4>1, Zenon
      <4> QED BY <3>2, <4>2, <4>3, PlaceOnce, Zenon
    <3> QED BY <3>1, <3>2
  <2> QED BY <1>1, <2>3, <2>4, <2>7 DEF IInv
<1> QED BY <1>4, <1>8, <1>9, <1>10

\* The end of the scan: what was kept aside replaces the bucket, in which nothing
\* was left to look at.
LEMMA ScanDoneStep == IInv /\ ScanDone => IInv'
<1> SUFFICES ASSUME IInv, ScanDone PROVE IInv' OBVIOUS
<1>1. /\ UNCHANGED <<now, time, stopped, inCallback, fate, crashed>> /\ inCallback = FALSE
      /\ firing \in Buckets /\ firing # -1 /\ i \in Nat /\ i > Len(m_items[firing])
      /\ m_items \in [Buckets -> Seq(Items)] /\ bucket_replacement \in Seq(Items)
      /\ firing' = -1 /\ i' = 1 /\ bucket_replacement' = <<>>
      /\ m_items' = [m_items EXCEPT ![firing] = bucket_replacement]
  BY DEF ScanDone, IInv, TypeOK, ScanInv
<1>2. /\ m_items' \in [Buckets -> Seq(Items)] /\ m_items'[firing] = bucket_replacement
      /\ \A k \in Buckets \ {firing} : m_items'[k] = m_items[k]
  BY <1>1
<1>3. TypeOK'
  <2>1. <<>> \in Seq(Items) OBVIOUS
  <2> QED BY <1>1, <1>2, <2>1, Zenon DEF IInv, TypeOK
<1>4. ScanInv' BY <1>1, <1>2 DEF ScanInv
<1>5. ASSUME NEW y, NEW p \in Nat PROVE ~Held(y, firing, p)
  <2>1. Len(m_items[firing]) \in Nat BY <1>1
  <2> QED BY <1>1, <2>1 DEF Held, Positions
<1>6. ASSUME NEW y, NEW p \in Nat PROVE ~Held(y, -1, p)' BY <1>1 DEF Held, Positions
<1>7. ASSUME NEW y, NEW k \in Rows \ {-1}, NEW p \in Nat
      PROVE  Held(y, k, p)' <=> Held(y, IF k = firing THEN -1 ELSE k, p)
  <2>1. CASE k = firing BY <1>1, <1>2, <2>1, Zenon DEF Held, Positions
  <2>2. CASE k # firing BY <1>1, <1>2, <2>2, Zenon DEF Held, Positions, Rows
  <2> QED BY <2>1, <2>2
<1>8. ASSUME ~stopped, NEW y \in Items PROVE Once(y)'
  <2>0. Once(y) /\ fate'[y] = fate[y] /\ firing \in Rows /\ firing # -1 BY <1>1, <1>8 DEF IInv, Rows
  <2>1. fate'[y] = "kept" => \E k \in Rows, p \in Nat : Held(y, k, p)'
    <3> SUFFICES ASSUME fate'[y] = "kept" PROVE \E k \in Rows, p \in Nat : Held(y, k, p)' OBVIOUS
    <3>1. PICK k \in Rows, p \in Nat : Held(y, k, p) BY <2>0 DEF Once
    <3>2. CASE k = -1
      <4>1. PICK l \in Rows : l = firing BY <2>0
      <4>2. Held(y, l, p)' BY <1>7, <2>0, <3>1, <3>2, <4>1
      <4> QED BY <4>2
    <3>3. CASE k # -1
      <4>1. k # firing BY <1>5, <3>1
      <4>2. Held(y, k, p)' BY <1>7, <3>1, <3>3, <4>1
      <4> QED BY <4>2
    <3> QED BY <3>2, <3>3
  <2>2. ASSUME NEW k \in Rows, NEW p \in Nat, Held(y, k, p)'
        PROVE  k # -1 /\ Held(y, IF k = firing THEN -1 ELSE k, p) /\ (IF k = firing THEN -1 ELSE k) \in Rows
    <3>1. k # -1 BY <1>6, <2>2
    <3>2. -1 \in Rows BY DEF Rows
    <3> QED BY <1>7, <2>2, <3>1, <3>2
  <2>3. fate'[y] # "kept" => \A k \in Rows, p \in Nat : ~Held(y, k, p)' BY <2>0, <2>2 DEF Once
  <2>4. ASSUME NEW k \in Rows, NEW l \in Rows, NEW p \in Nat, NEW q \in Nat, Held(y, k, p)', Held(y, l, q)'
        PROVE  k = l /\ p = q
    <3>1. (IF k = firing THEN -1 ELSE k) = (IF l = firing THEN -1 ELSE l) /\ p = q BY <2>0, <2>2, <2>4 DEF Once
    <3> QED BY <2>2, <2>4, <3>1
  <2> QED BY <2>1, <2>3, <2>4 DEF Once
<1> QED BY <1>1, <1>3, <1>4, <1>8 DEF IInv

\* The clock moves nothing.
LEMMA TickStep == IInv /\ (Tick \/ UNCHANGED vars) => IInv'
<1> SUFFICES ASSUME IInv, Tick \/ UNCHANGED vars PROVE IInv' OBVIOUS
<1>1. UNCHANGED <<time, m_items, stopped, firing, i, bucket_replacement, inCallback, fate, crashed>> BY DEF Tick, vars
<1>2. now' \in 0..MaxNow BY DEF Tick, vars, IInv, TypeOK
<1>3. TypeOK' /\ ScanInv' BY <1>1, <1>2, Zenon DEF IInv, TypeOK, ScanInv
<1>4. ASSUME NEW y \in Items, Once(y) PROVE Once(y)'
  <2>1. \A k \in Rows, p \in Nat : Held(y, k, p)' <=> Held(y, k, p) BY <1>1, Zenon DEF Held, Positions
  <2> QED BY <1>1, <1>4, <2>1, SameOnce
<1> QED BY <1>1, <1>3, <1>4 DEF IInv

-----------------------------------------------------------------------------
(* The theorem *)

\* The inductive invariant says what ItemsAccounted says with a cardinality.
LEMMA IInvAccounts == IInv => ItemsAccounted
<1> SUFFICES ASSUME IInv PROVE ItemsAccounted OBVIOUS
<1>1. ASSUME ~stopped, NEW x \in Items
      PROVE  Cardinality(Places(x)) = IF fate[x] = "kept" THEN 1 ELSE 0
  <2>0. Once(x) BY <1>1 DEF IInv
  <2>1. \A w : w \in Places(x) <=> \E k \in Rows, p \in Nat : w = <<k, p>> /\ Held(x, k, p)
    <3>1. \A k, p : p \in Positions(x, m_items[k]) \/ p \in Positions(x, bucket_replacement) => p \in Nat
      BY DEF Positions
    <3>2. -1 \notin Buckets BY BucketsAre
    <3>3. \A w : w \in Places(x) <=>
            \/ \E k \in Buckets : \E p \in Positions(x, m_items[k]) :
                 w = <<k, p>> /\ (k = firing => IF inCallback THEN p > i ELSE p >= i)
            \/ \E p \in Positions(x, bucket_replacement) : w = <<-1, p>>
      <4> DEFINE Row(k) == {<<k, p>> : p \in {q \in Positions(x, m_items[k]) :
                                               k = firing => IF inCallback THEN q > i ELSE q >= i}}
                 Kept == {<<-1, p>> : p \in Positions(x, bucket_replacement)}
                 InBuckets == UNION {Row(k) : k \in Buckets}
      <4>1. Places(x) = InBuckets \cup Kept BY DEF Places
      <4>2. \A k, w : w \in Row(k) <=> \E p \in Positions(x, m_items[k]) :
                        w = <<k, p>> /\ (k = firing => IF inCallback THEN p > i ELSE p >= i)
        BY Zenon
      <4>3. \A w : w \in Kept <=> \E p \in Positions(x, bucket_replacement) : w = <<-1, p>> BY Zenon
      <4> HIDE DEF Row, Kept
      <4>4. ASSUME NEW w, w \in InBuckets PROVE \E k \in Buckets : w \in Row(k)
        <5>1. PICK R \in {Row(k) : k \in Buckets} : w \in R BY <4>4
        <5>2. PICK k \in Buckets : R = Row(k) BY <5>1
        <5> QED BY <5>1, <5>2
      <4>5. ASSUME NEW w, NEW k \in Buckets, w \in Row(k) PROVE w \in InBuckets BY <4>5
      <4> HIDE DEF InBuckets
      <4>6. \A w : w \in Places(x) <=> w \in InBuckets \/ w \in Kept BY <4>1
      <4>7. \A w : w \in Places(x) <=> (\E k \in Buckets : w \in Row(k)) \/ w \in Kept BY <4>4, <4>5, <4>6
      <4> QED BY <4>2, <4>3, <4>7, Zenon
    <3>4. ASSUME NEW w, w \in Places(x) PROVE \E k \in Rows, p \in Nat : w = <<k, p>> /\ Held(x, k, p)
      <4>1. CASE \E p \in Positions(x, bucket_replacement) : w = <<-1, p>> BY <3>1, <4>1, Zenon DEF Held, Rows
      <4>2. CASE \E k \in Buckets : \E p \in Positions(x, m_items[k]) :
                   w = <<k, p>> /\ (k = firing => IF inCallback THEN p > i ELSE p >= i)
        <5>0. PICK k \in Buckets : \E p \in Positions(x, m_items[k]) :
                w = <<k, p>> /\ (k = firing => IF inCallback THEN p > i ELSE p >= i)
          BY <4>2
        <5>1. PICK p \in Positions(x, m_items[k]) :
                w = <<k, p>> /\ (k = firing => IF inCallback THEN p > i ELSE p >= i)
          BY <5>0
        <5>2. k \in Rows /\ p \in Nat /\ k # -1 BY <3>1, <3>2 DEF Rows
        <5>3. Held(x, k, p) BY <5>1, <5>2 DEF Held
        <5> QED BY <5>1, <5>2, <5>3
      <4> QED BY <3>3, <3>4, <4>1, <4>2
    <3>5. ASSUME NEW k \in Rows, NEW p \in Nat, Held(x, k, p) PROVE <<k, p>> \in Places(x)
      <4>1. CASE k = -1 BY <3>3, <3>5, <4>1, Zenon DEF Held
      <4>2. CASE k # -1 BY <3>3, <3>5, <4>2, Zenon DEF Held, Rows
      <4> QED BY <4>1, <4>2
    <3> QED BY <3>4, <3>5
  <2>2. CASE fate[x] = "kept"
    <3>1. PICK k \in Rows, p \in Nat : Held(x, k, p) BY <2>0, <2>2 DEF Once
    <3>2. Places(x) = {<<k, p>>} BY <2>0, <2>1, <3>1 DEF Once
    <3> QED BY <2>2, <3>2, FS_Singleton
  <2>3. CASE fate[x] # "kept"
    <3>1. Places(x) = {} BY <2>0, <2>1, <2>3 DEF Once
    <3> QED BY <2>3, <3>1, FS_EmptySet
  <2> QED BY <2>2, <2>3
<1> QED BY <1>1 DEF IInv, ItemsAccounted

\* Whatever is added, used, removed, expired and stopped, and whenever the timers
\* fire, on_timer loses and duplicates no item, if the expired callback removes no
\* item the scan has looked at.
THEOREM NothingLost == ~RemovesScanned => (Spec => []ItemsAccounted)
<1> SUFFICES ASSUME ~RemovesScanned PROVE Spec => []ItemsAccounted OBVIOUS
<1>1. IInv /\ [Next]_vars => IInv'
  <2> SUFFICES ASSUME IInv, [Next]_vars PROVE IInv' OBVIOUS
  <2>1. ASSUME NEW x \in Items, Touch(x) PROVE IInv' BY <2>1, TouchStep
  <2>2. ASSUME NEW x \in Items, remove_item(x) PROVE IInv' BY <2>2, RemoveItemStep
  <2>3. ASSUME NEW x \in Items, NEW age \in AddAges \cup {-1}, add_item(x, age) PROVE IInv' BY <2>3, AddItemStep
  <2>4. CASE stop BY <2>4, StopStep
  <2>5. ASSUME NEW k \in Buckets, on_timer(k) PROVE IInv' BY <2>5, OnTimerStep
  <2>6. CASE Scan BY <2>6, ScanStep
  <2>7. CASE CallbackReturns BY <2>7, CallbackReturnsStep
  <2>8. CASE ScanDone BY <2>8, ScanDoneStep
  <2>9. CASE Tick \/ UNCHANGED vars BY <2>9, TickStep
  <2> QED BY <2>1, <2>2, <2>3, <2>4, <2>5, <2>6, <2>7, <2>8, <2>9 DEF Next, Done
<1> QED BY <1>1, InitIInv, IInvAccounts, PTL DEF Spec
=============================================================================
