------------------------- MODULE BacklogWithTimeout -------------------------
(***************************************************************************)
(* BacklogWithTimeout: items expire when the time since their last use     *)
(* reaches a timeout.  Items are kept in buckets, one per repeating timer, *)
(* with the timeout, half of it, a quarter of it and so on; when a timer   *)
(* fires, its bucket is scanned, expired items are reported and the others *)
(* sorted into the bucket their remaining time calls for.  Time is counted *)
(* in ticks, TicksPerMs of them standing for the 1000000 ns of a           *)
(* millisecond, so that the roundings of the code are kept.  The callback  *)
(* for expired items runs user code in the middle of a scan.               *)
(***************************************************************************)
EXTENDS Integers, Sequences, FiniteSets, FiniteSetsExt

CONSTANTS Items,
          EntityTimeoutMs,
          TicksPerMs,
          AddAges,           \* ages, in ticks, of items given to add_item, besides -1: from the future
          Lag,               \* how late, in ticks, the loop may call a due timer
          MaxNow,            \* bound on the clock
          RemovesScanned     \* does the expired callback remove items the scan has looked at?

ASSUME BacklogAssumption ==
  /\ EntityTimeoutMs \in Nat \ {0} /\ TicksPerMs \in Nat \ {0}
  /\ AddAges \subseteq Nat /\ Lag \in Nat /\ MaxNow \in Nat /\ RemovesScanned \in BOOLEAN

VARIABLES
  now,                  \* m_clock_getter
  time,                 \* m_time_getter
  m_items,              \* one sequence of items per bucket
  due,                  \* when each timer is due
  stopped,              \* m_timers is empty
  firing,               \* the bucket on_timer is scanning, -1 if none
  i,                    \* its position, 1 the first
  bucket_replacement,
  inCallback,           \* inside m_expired_callback, called by on_timer
  fate,                 \* history: what became of each item
  crashed               \* the cleared m_clock_getter was called: the process is gone

vars == <<now, time, m_items, due, stopped, firing, i, bucket_replacement, inCallback, fate, crashed>>

-----------------------------------------------------------------------------
(* The buckets *)

timeout_ms(k) == EntityTimeoutMs \div 2^k

\* The constructor's do-while: one bucket for the whole timeout, then one for
\* each half that is more than a millisecond.
Buckets == {k \in 0..EntityTimeoutMs : k = 0 \/ timeout_ms(k) > 1}
LastBucket == Max(Buckets)

m_entity_timeout == EntityTimeoutMs * TicksPerMs

\* Faulty variants stand before the definitions they are variants of, with the
\* property that rejects each.  BoundedLateness: the comparison is reversed.
LongestFitting(remaining) ==
  LET fitting == {k \in Buckets \ {0} : remaining <= timeout_ms(k) * TicksPerMs}
  IN  IF timeout_ms(0) - (remaining \div TicksPerMs) <= timeout_ms(LastBucket) THEN 0
      ELSE IF fitting # {} THEN Min(fitting)
      ELSE LastBucket

bucket_index_from_time(remaining) ==
  LET fitting == {k \in Buckets \ {0} : remaining >= timeout_ms(k) * TicksPerMs}
  IN  IF timeout_ms(0) - (remaining \div TicksPerMs) <= timeout_ms(LastBucket) THEN 0
      ELSE IF fitting # {} THEN Min(fitting)
      ELSE LastBucket

Init == /\ now = 0 /\ time = [x \in Items |-> 0]
        /\ m_items = [k \in Buckets |-> <<>>]
        /\ due = [k \in Buckets |-> timeout_ms(k) * TicksPerMs]
        /\ stopped = FALSE /\ firing = -1 /\ i = 1 /\ bucket_replacement = <<>>
        /\ inCallback = FALSE /\ fate = [x \in Items |-> "new"] /\ crashed = FALSE

-----------------------------------------------------------------------------
(* Calls made by user code *)

UserCode == ~crashed /\ (firing = -1 \/ inCallback)

\* The first statement calls m_clock_getter, which stop() has cleared.
add_item(x, age) ==
  /\ UserCode /\ fate[x] = "new"
  /\ crashed' = stopped
  /\ IF age < 0 \/ stopped
     THEN UNCHANGED <<time, m_items, fate>>
     ELSE IF age >= m_entity_timeout
     THEN fate' = [fate EXCEPT ![x] = "expired"] /\ UNCHANGED <<time, m_items>>
     ELSE LET index == bucket_index_from_time(m_entity_timeout - age) IN
          /\ time' = [time EXCEPT ![x] = now - age]
          /\ m_items' = [m_items EXCEPT ![index] = Append(@, x)]
          /\ fate' = [fate EXCEPT ![x] = "kept"]
  /\ UNCHANGED <<now, due, stopped, firing, i, bucket_replacement, inCallback>>

\* The owner of an item gives it a new time: a packet of the peer arrived.
Touch(x) ==
  /\ UserCode /\ fate[x] = "kept" /\ time[x] # now
  /\ time' = [time EXCEPT ![x] = now]
  /\ UNCHANGED <<now, m_items, due, stopped, firing, i, bucket_replacement, inCallback, fate, crashed>>

Positions(x, items) == {p \in 1..Len(items) : items[p] = x}
Without(p, items) == SubSeq(items, 1, p - 1) \o SubSeq(items, p + 1, Len(items))

\* The first occurrence, in the first bucket that has one, is erased.
remove_item(x) ==
  LET holding == {k \in Buckets : Positions(x, m_items[k]) # {}} IN
  /\ UserCode
  /\ RemovesScanned \/ (inCallback => \A p \in Positions(x, m_items[firing]) : p > i)
  /\ ~stopped /\ holding # {}
  /\ m_items' = [m_items EXCEPT ![Min(holding)] = Without(Min(Positions(x, @)), @)]
  /\ fate' = [fate EXCEPT ![x] = "removed"]
  /\ UNCHANGED <<now, time, due, stopped, firing, i, bucket_replacement, inCallback, crashed>>

stop ==
  /\ UserCode /\ ~stopped
  /\ stopped' = TRUE
  /\ m_items' = [k \in Buckets |-> <<>>]
  /\ fate' = [x \in Items |-> IF fate[x] = "kept" THEN "removed" ELSE fate[x]]
  /\ UNCHANGED <<now, time, due, firing, i, bucket_replacement, inCallback, crashed>>

-----------------------------------------------------------------------------
(* The timers *)

\* libuv arms the repeating timer again and calls on_timer.
on_timer(k) ==
  /\ firing = -1 /\ ~stopped /\ now >= due[k]
  /\ due' = [due EXCEPT ![k] = now + timeout_ms(k) * TicksPerMs]
  /\ firing' = k /\ i' = 1 /\ bucket_replacement' = <<>>
  /\ UNCHANGED <<now, time, m_items, stopped, inCallback, fate, crashed>>

\* One turn of on_timer's loop; a call of the expired callback interrupts it.
Scan ==
  /\ firing # -1 /\ ~inCallback /\ i <= Len(m_items[firing])
  /\ LET x == m_items[firing][i]
         time_diff == now - time[x]
         index == bucket_index_from_time(m_entity_timeout - time_diff) IN
     IF time_diff >= m_entity_timeout
     THEN /\ inCallback' = TRUE
          /\ fate' = [fate EXCEPT ![x] = "expired"]
          /\ UNCHANGED <<m_items, i, bucket_replacement>>
     ELSE /\ i' = i + 1
          /\ IF index # firing
             THEN /\ m_items' = [m_items EXCEPT ![index] = Append(@, x)]
                  /\ UNCHANGED bucket_replacement
             ELSE /\ bucket_replacement' = Append(bucket_replacement, x)
                  /\ UNCHANGED m_items
          /\ UNCHANGED <<inCallback, fate>>
  /\ UNCHANGED <<now, time, due, stopped, firing, crashed>>

\* The callback returns to the loop, which gives up if it called stop().
CallbackReturns ==
  /\ inCallback /\ ~crashed
  /\ inCallback' = FALSE
  /\ IF stopped THEN firing' = -1 /\ i' = 1 /\ bucket_replacement' = <<>>
     ELSE i' = i + 1 /\ UNCHANGED <<firing, bucket_replacement>>
  /\ UNCHANGED <<now, time, m_items, due, stopped, fate, crashed>>

\* ItemsAccounted: the scanned bucket is not replaced.
KeepBucket ==
  /\ firing # -1 /\ ~inCallback /\ i > Len(m_items[firing])
  /\ firing' = -1 /\ i' = 1 /\ bucket_replacement' = <<>>
  /\ UNCHANGED <<now, time, m_items, due, stopped, inCallback, fate, crashed>>

ScanDone ==
  /\ firing # -1 /\ ~inCallback /\ i > Len(m_items[firing])
  /\ m_items' = [m_items EXCEPT ![firing] = bucket_replacement]
  /\ firing' = -1 /\ i' = 1 /\ bucket_replacement' = <<>>
  /\ UNCHANGED <<now, time, due, stopped, inCallback, fate, crashed>>

Tick ==
  /\ firing = -1 /\ now < MaxNow /\ ~crashed
  /\ stopped \/ \A k \in Buckets : now < due[k] + Lag
  /\ now' = now + 1
  /\ UNCHANGED <<time, m_items, due, stopped, firing, i, bucket_replacement, inCallback, fate, crashed>>

Done == (crashed \/ (now = MaxNow /\ firing = -1)) /\ UNCHANGED vars

Next == \/ \E x \in Items : Touch(x) \/ remove_item(x) \/ \E age \in AddAges \cup {-1} : add_item(x, age)
        \/ stop
        \/ \E k \in Buckets : on_timer(k)
        \/ Scan \/ CallbackReturns \/ ScanDone
        \/ Tick
        \/ Done

Spec == Init /\ [][Next]_vars

-----------------------------------------------------------------------------
(* Properties *)

\* Every variable has its type; no index is outside its bucket.
TypeOK ==
  /\ now \in 0..MaxNow /\ time \in [Items -> Int]
  /\ \A k \in Buckets : m_items[k] \in Seq(Items)
  /\ firing \in Buckets \cup {-1} /\ bucket_replacement \in Seq(Items)
  /\ inCallback \in BOOLEAN /\ (inCallback => firing # -1)
  /\ stopped \in BOOLEAN /\ crashed \in BOOLEAN
  /\ fate \in [Items -> {"new", "kept", "expired", "removed"}]

\* The places that hold x: buckets, the part of the scanned bucket that on_timer
\* has still to look at, and the bucket that will replace it.
Places(x) ==
  (UNION {{<<k, p>> : p \in {q \in Positions(x, m_items[k]) :
                               k = firing => IF inCallback THEN q > i ELSE q >= i}} : k \in Buckets})
    \cup {<<-1, p>> : p \in Positions(x, bucket_replacement)}

\* No item is lost or duplicated by the sorting of on_timer: an item that was
\* added and neither expired nor was removed is in exactly one place, and no
\* other item is in any.
ItemsAccounted ==
  /\ TypeOK
  /\ ~stopped => \A x \in Items : Cardinality(Places(x)) = IF fate[x] = "kept" THEN 1 ELSE 0

\* No item stays longer than its timeout by more than the period of the
\* shortest timer and the loop's own delay, whichever buckets it went through.
BoundedLateness ==
  \A x \in Items : fate[x] = "kept" =>
    now - time[x] <= m_entity_timeout + timeout_ms(LastBucket) * TicksPerMs + Lag
=============================================================================
