------------------------- MODULE RingReserve_proofs -------------------------
(* The loop buffer is sound for any number of slots and of wrappers.       *)
EXTENDS RingReserve, TLAPS

(* Positions of a ring of m slots, without the remainder.                  *)
LEMMA WrapOnce ==
  ASSUME NEW m \in Nat \ {0}, NEW n \in Int, 0 <= n, n < 2 * m
  PROVE  n % m = IF n < m THEN n ELSE n - m
<1>1. CASE n < m
  BY <1>1, SMT
<1>2. CASE m <= n
  <2>1. n % m \in 0 .. m - 1  BY SMT
  <2>2. n = m * (n \div m) + (n % m)  BY SMT
  <2>3. n \div m = 1  BY <1>2, <2>1, <2>2, SMT
  <2> QED BY <1>2, <2>2, <2>3
<1> QED BY <1>1, <1>2

LEMMA WrapBack ==
  ASSUME NEW m \in Nat \ {0}, NEW n \in Int, -m < n, n < 0
  PROVE  n % m = n + m
<1>1. n % m \in 0 .. m - 1  BY SMT
<1>2. n = m * (n \div m) + (n % m)  BY SMT
<1>3. n \div m = -1  BY <1>1, <1>2, SMT
<1> QED BY <1>2, <1>3

LEMMA Slots == MaxReserved \in Nat \ {0} /\ Slot = 0 .. MaxReserved - 1 /\ NULL \notin Wrapper
BY RingAssumption DEF Slot

LEMMA SuccIs ==
  ASSUME NEW p \in Slot
  PROVE  /\ Succ(p) = IF p = MaxReserved - 1 THEN 0 ELSE p + 1
         /\ Succ(p) \in Slot
<1>1. PICK n \in Int : n = p + 1  BY Slots
<1>2. 0 <= n /\ n < 2 * MaxReserved  BY <1>1, Slots
<1>3. n % MaxReserved = IF n < MaxReserved THEN n ELSE n - MaxReserved
  BY <1>2, Slots, WrapOnce
<1> QED BY <1>1, <1>3, Slots DEF Succ

-----------------------------------------------------------------------------
(* The slots in use, and how many, told from the two positions.            *)
Between(i) == IF tailpos <= headpos THEN tailpos <= i /\ i < headpos
              ELSE tailpos <= i \/ i < headpos
Count == IF tailpos <= headpos THEN headpos - tailpos
         ELSE headpos - tailpos + MaxReserved

FilledSlots == \A i \in Slot : v_reserved[i] # NULL <=> Between(i)
Counted == inited => nr_reserved = Count
Distinct == \A i, j \in Slot : v_reserved[i] = v_reserved[j] /\ v_reserved[i] # NULL => i = j
NotLive == \A i \in Slot : v_reserved[i] \notin live

IInv == TypeOK /\ FilledSlots /\ Counted /\ Distinct /\ NotLive

LEMMA OccupiedIsCount ==
  ASSUME TypeOK
  PROVE  Occupied = Count
<1>1. PICK n \in Int : n = headpos - tailpos  BY Slots DEF TypeOK
<1>2. -MaxReserved < n /\ n < MaxReserved  BY <1>1, Slots DEF TypeOK
<1>3. CASE n < 0
  <2>1. n % MaxReserved = n + MaxReserved  BY <1>2, <1>3, Slots, WrapBack
  <2> QED BY <1>1, <1>3, <2>1, Slots DEF Occupied, Count, TypeOK
<1>4. CASE 0 <= n
  <2>1. n < 2 * MaxReserved  BY <1>2, Slots
  <2>2. n % MaxReserved = n  BY <1>2, <1>4, <2>1, Slots, WrapOnce
  <2> QED BY <1>1, <1>4, <2>2, Slots DEF Occupied, Count, TypeOK
<1> QED BY <1>3, <1>4

LEMMA KeptSlotsAreBetween ==
  ASSUME TypeOK, NEW i \in Slot
  PROVE  Between(i) <=> \E k \in 1 .. Occupied : i = KeptSlot(k)
<1> DEFINE k0 == IF tailpos <= i THEN i - tailpos + 1 ELSE i - tailpos + MaxReserved + 1
<1>1. Occupied = Count  BY OccupiedIsCount
<1>2. Between(i) => k0 \in 1 .. Count
  BY Slots DEF TypeOK, Between, Count
<1>3. k0 \in 1 .. Count => KeptSlot(k0) = i
  <2>1. tailpos + k0 - 1 = IF tailpos <= i THEN i ELSE i + MaxReserved
    BY Slots DEF TypeOK
  <2>2. PICK n \in Int : n = tailpos + k0 - 1 /\ (n = i \/ n = i + MaxReserved)
    BY <2>1, Slots
  <2>3. 0 <= n /\ n < 2 * MaxReserved  BY <2>2, Slots
  <2>4. n % MaxReserved = IF n < MaxReserved THEN n ELSE n - MaxReserved
    BY <2>3, Slots, WrapOnce
  <2>5. n % MaxReserved = i  BY <2>2, <2>4, Slots
  <2> QED BY <2>2, <2>5 DEF KeptSlot
<1>4. ASSUME NEW k \in 1 .. Count, i = KeptSlot(k)
      PROVE  Between(i)
  <2>1. KeptSlot(k) = IF tailpos + k - 1 < MaxReserved THEN tailpos + k - 1
                      ELSE tailpos + k - 1 - MaxReserved
    <3>1. PICK n \in Int : n = tailpos + k - 1  BY Slots DEF TypeOK
    <3>2. 0 <= n /\ n < 2 * MaxReserved  BY <3>1, Slots DEF TypeOK, Count
    <3>3. n % MaxReserved = IF n < MaxReserved THEN n ELSE n - MaxReserved
      BY <3>2, Slots, WrapOnce
    <3> QED BY <3>1, <3>3, Slots DEF TypeOK, KeptSlot
  <2> QED BY <1>4, <2>1, Slots DEF TypeOK, Count, Between
<1> HIDE DEF k0
<1> QED BY <1>1, <1>2, <1>3, <1>4

-----------------------------------------------------------------------------
LEMMA InitInv == Init => IInv
BY Slots DEF Init, IInv, TypeOK, FilledSlots, Counted, Distinct, NotLive, Between, Count

LEMMA GetFreshInv ==
  ASSUME IInv, NEW w \in Wrapper, GetFresh(w)
  PROVE  IInv'
<1> USE DEF IInv, GetFresh
<1>1. TypeOK'  BY DEF TypeOK
<1>2. FilledSlots' /\ Counted' /\ Distinct'
  BY DEF FilledSlots, Counted, Distinct, Between, Count
<1>3. NotLive'
  <2>1. \A i \in Slot : v_reserved[i] = NULL
    BY Slots DEF TypeOK, FilledSlots, Between
  <2> QED BY <2>1, Slots DEF NotLive
<1> QED BY <1>1, <1>2, <1>3

LEMMA GetReservedInv ==
  ASSUME IInv, GetReserved
  PROVE  IInv'
<1> USE DEF IInv, GetReserved, SlotCleared
<1>1. tailpos \in Slot /\ headpos \in Slot /\ headpos # tailpos  BY DEF TypeOK
<1>2. v_reserved[tailpos] # NULL
  BY <1>1, Slots DEF FilledSlots, Between
<1>3. v_reserved[tailpos] \in Wrapper  BY <1>1, <1>2 DEF TypeOK
<1>4. Succ(tailpos) \in Slot /\ Succ(tailpos) = IF tailpos = MaxReserved - 1 THEN 0 ELSE tailpos + 1
  BY <1>1, SuccIs
<1>5. TypeOK'
  BY <1>3, <1>4 DEF TypeOK
<1>6. FilledSlots'
  BY <1>1, <1>4, Slots DEF TypeOK, FilledSlots, Between
<1>7. Counted'
  BY <1>1, <1>4, Slots DEF TypeOK, Counted, Count
<1>8. Distinct'
  BY <1>1 DEF TypeOK, Distinct
<1>9. NotLive'
  BY <1>1, <1>2, <1>3, Slots DEF TypeOK, Distinct, NotLive
<1> QED BY <1>5, <1>6, <1>7, <1>8, <1>9

LEMMA PutInv ==
  ASSUME IInv, NEW w \in Wrapper, Put(w)
  PROVE  IInv'
<1> USE DEF IInv
<1>1. CASE Full /\ UNCHANGED <<v_reserved, headpos, nr_reserved>>
  BY <1>1 DEF Put, TypeOK, FilledSlots, Counted, Distinct, NotLive, Between, Count
<1>2. CASE /\ ~Full
           /\ v_reserved' = [v_reserved EXCEPT ![headpos] = w]
           /\ headpos' = Succ(headpos)
           /\ nr_reserved' = nr_reserved + 1
  <2>1. /\ tailpos \in Slot /\ headpos \in Slot
        /\ Succ(headpos) \in Slot
        /\ Succ(headpos) = IF headpos = MaxReserved - 1 THEN 0 ELSE headpos + 1
        /\ Succ(headpos) # tailpos
    BY <1>2, SuccIs DEF TypeOK, Full
  <2>2. w \in live /\ live' = live \ {w} /\ tailpos' = tailpos /\ inited' = inited
    BY DEF Put
  <2>3. TypeOK'
    BY <1>2, <2>1, <2>2 DEF TypeOK
  <2>4. FilledSlots'
    BY <1>2, <2>1, <2>2, Slots DEF TypeOK, FilledSlots, Between
  <2>5. Counted'
    BY <1>2, <2>1, <2>2, Slots DEF TypeOK, Counted, Count
  <2>6. Distinct'
    BY <1>2, <2>1, <2>2 DEF TypeOK, Distinct, NotLive
  <2>7. NotLive'
    BY <1>2, <2>1, <2>2 DEF TypeOK, NotLive
  <2> QED BY <2>3, <2>4, <2>5, <2>6, <2>7
<1> QED BY <1>1, <1>2 DEF Put

LEMMA EmptiedInv ==
  ASSUME IInv, Cleanup \/ InitInstance
  PROVE  IInv'
<1> USE DEF IInv
<1>1. /\ v_reserved' = [i \in Slot |-> NULL] /\ headpos' = 0 /\ tailpos' = 0 /\ live' = live
      /\ nr_reserved' \in Int /\ inited' \in BOOLEAN
      /\ inited' => nr_reserved' = 0
  <2>1. CASE Cleanup  BY <2>1 DEF Cleanup, TypeOK
  <2>2. CASE InitInstance  BY <2>2 DEF InitInstance, TypeOK
  <2> QED BY <2>1, <2>2
<1>2. TypeOK'  BY <1>1, Slots DEF TypeOK
<1>3. FilledSlots' /\ Counted' /\ Distinct'
  BY <1>1, Slots DEF FilledSlots, Counted, Distinct, Between, Count
<1>4. NotLive'  BY <1>1, Slots DEF TypeOK, NotLive
<1> QED BY <1>2, <1>3, <1>4

LEMMA Inductive == Spec => []IInv
<1>1. IInv /\ [Next]_vars => IInv'
  <2> SUFFICES ASSUME IInv, [Next]_vars PROVE IInv'  OBVIOUS
  <2>1. CASE UNCHANGED vars
    BY <2>1 DEF vars, IInv, TypeOK, FilledSlots, Counted, Distinct, NotLive, Between, Count
  <2>2. ASSUME NEW w \in Wrapper, GetFresh(w) PROVE IInv'  BY <2>2, GetFreshInv
  <2>3. ASSUME NEW w \in Wrapper, Put(w) PROVE IInv'  BY <2>3, PutInv
  <2>4. CASE GetReserved  BY <2>4, GetReservedInv
  <2>5. CASE Cleanup \/ InitInstance  BY <2>5, EmptiedInv
  <2> QED BY <2>1, <2>2, <2>3, <2>4, <2>5 DEF Next
<1> QED BY <1>1, InitInv, PTL DEF Spec

(* For any number of slots and wrappers the positions stay inside the      *)
(* buffer and every slot holds a wrapper or NULL.                          *)
THEOREM RingTypes == Spec => []TypeOK
<1>1. IInv => TypeOK  BY DEF IInv
<1> QED BY <1>1, Inductive, PTL

(* For any size, nr_reserved counts the slots in use, and these are the    *)
(* ones that the assertions of pcvariant_get and pcvariant_put name.       *)
THEOREM RingCounts == Spec => []CountSound
<1>1. IInv => CountSound
  <2> SUFFICES ASSUME IInv PROVE CountSound  OBVIOUS
  <2>1. inited => nr_reserved = Occupied
    BY OccupiedIsCount DEF IInv, Counted
  <2>2. \A i \in Slot : v_reserved[i] # NULL <=> \E k \in 1 .. Occupied : i = KeptSlot(k)
    BY KeptSlotsAreBetween DEF IInv, FilledSlots
  <2> QED BY <2>1, <2>2 DEF CountSound
<1> QED BY <1>1, Inductive, PTL

(* For any size, no wrapper is kept twice or kept while it is in use, so   *)
(* that _cleanup_instance frees each kept one once.                        *)
THEOREM RingFreesOnce == Spec => []NoDoubleFree
<1>1. IInv => NoDoubleFree
  BY DEF IInv, Distinct, NotLive, NoDoubleFree, FreedAtCleanup
<1> QED BY <1>1, Inductive, PTL

-----------------------------------------------------------------------------
(* The buffer as a sequence, of any two positions and any contents.        *)
Dist(h, t) == (h - t) % MaxReserved
Held(h, t, v) == [k \in 1 .. Dist(h, t) |-> v[(t + k - 1) % MaxReserved]]
Contents == [Slot -> Wrapper \cup {NULL}]

LEMMA KeptIsHeld == Kept = Held(headpos, tailpos, v_reserved)
BY DEF Kept, Held, Dist, Occupied, KeptSlot

LEMMA DistIs ==
  ASSUME NEW h \in Slot, NEW t \in Slot
  PROVE  Dist(h, t) = (IF t <= h THEN h - t ELSE h - t + MaxReserved)
           /\ Dist(h, t) \in 0 .. MaxReserved - 1
<1>1. PICK n \in Int : n = h - t  BY Slots
<1>2. -MaxReserved < n /\ n < MaxReserved  BY <1>1, Slots
<1>3. CASE n < 0
  <2>1. n % MaxReserved = n + MaxReserved  BY <1>2, <1>3, Slots, WrapBack
  <2> QED BY <1>1, <1>3, <2>1, Slots DEF Dist
<1>4. CASE 0 <= n
  <2>1. n < 2 * MaxReserved  BY <1>2, Slots
  <2>2. n % MaxReserved = n  BY <1>2, <1>4, <2>1, Slots, WrapOnce
  <2> QED BY <1>1, <1>4, <2>2, Slots DEF Dist
<1> QED BY <1>3, <1>4

LEMMA SlotAt ==
  ASSUME NEW t \in Slot, NEW k \in 1 .. MaxReserved
  PROVE  /\ (t + k - 1) % MaxReserved =
              IF t + k - 1 < MaxReserved THEN t + k - 1 ELSE t + k - 1 - MaxReserved
         /\ (t + k - 1) % MaxReserved \in Slot
<1>1. PICK n \in Int : n = t + k - 1  BY Slots
<1>2. 0 <= n /\ n < 2 * MaxReserved  BY <1>1, Slots
<1>3. n % MaxReserved = IF n < MaxReserved THEN n ELSE n - MaxReserved
  BY <1>2, Slots, WrapOnce
<1> QED BY <1>1, <1>2, <1>3, Slots

LEMMA HeldSeq ==
  ASSUME NEW h \in Slot, NEW t \in Slot, NEW v \in Contents
  PROVE  /\ Held(h, t, v) \in Seq(Wrapper \cup {NULL})
         /\ Len(Held(h, t, v)) = Dist(h, t)
<1>1. Dist(h, t) \in 0 .. MaxReserved - 1  BY DistIs
<1>2. ASSUME NEW k \in 1 .. Dist(h, t)
      PROVE  v[(t + k - 1) % MaxReserved] \in Wrapper \cup {NULL}
  <2>1. k \in 1 .. MaxReserved  BY <1>1, Slots
  <2>2. (t + k - 1) % MaxReserved \in Slot  BY <2>1, SlotAt
  <2> QED BY <2>2 DEF Contents
<1>3. Dist(h, t) \in Nat  BY <1>1, Slots
<1> QED BY <1>2, <1>3 DEF Held

(* A sequence s that starts with x and goes on with r.                     *)
StartsWith(s, x, r) == s # << >> /\ Head(s) = x /\ Tail(s) = r

LEMMA HeldTail ==
  ASSUME NEW h \in Slot, NEW t \in Slot, h # t, NEW v \in Contents
  PROVE  StartsWith(Held(h, t, v), v[t], Held(h, Succ(t), [v EXCEPT ![t] = NULL]))
<1> DEFINE u == [v EXCEPT ![t] = NULL]
           s == Held(h, t, v)
           r == Held(h, Succ(t), u)
<1>1. Succ(t) \in Slot /\ Succ(t) = IF t = MaxReserved - 1 THEN 0 ELSE t + 1
  BY SuccIs
<1>2. Dist(h, t) = IF t <= h THEN h - t ELSE h - t + MaxReserved
  BY DistIs
<1>3. Dist(h, Succ(t)) = IF Succ(t) <= h THEN h - Succ(t) ELSE h - Succ(t) + MaxReserved
  BY <1>1, DistIs
<1>4. Dist(h, t) \in 1 .. MaxReserved - 1 /\ Dist(h, Succ(t)) = Dist(h, t) - 1
  BY <1>1, <1>2, <1>3, Slots
<1>5. u \in Contents  BY DEF Contents
<1>6. s \in Seq(Wrapper \cup {NULL}) /\ Len(s) = Dist(h, t)
  BY HeldSeq
<1>7. r \in Seq(Wrapper \cup {NULL}) /\ Len(r) = Dist(h, t) - 1
  BY <1>1, <1>4, <1>5, HeldSeq
<1>8. ASSUME NEW k \in 1 .. Dist(h, t) - 1
      PROVE  r[k] = s[k + 1]
  <2>1. k \in 1 .. MaxReserved /\ k + 1 \in 1 .. MaxReserved /\ k + 1 \in 1 .. Dist(h, t)
    BY <1>4, Slots
  <2>2. PICK i \in Slot : i = (t + (k + 1) - 1) % MaxReserved
    BY <2>1, SlotAt
  <2>3. i = (Succ(t) + k - 1) % MaxReserved /\ i # t
    BY <1>1, <1>4, <2>1, <2>2, SlotAt, Slots
  <2>4. s[k + 1] = v[i]  BY <2>1, <2>2 DEF Held
  <2>5. r[k] = u[i]  BY <1>4, <2>3 DEF Held
  <2>6. u[i] = v[i]  BY <2>3 DEF Contents
  <2> QED BY <2>4, <2>5, <2>6
<1>9. s[1] = v[t]
  <2>1. (t + 1 - 1) % MaxReserved = t  BY SlotAt, Slots
  <2> QED BY <1>4, <2>1 DEF Held
<1> HIDE DEF s, r
<1>10. s # << >> /\ Head(s) = v[t]
  BY <1>4, <1>6, <1>9
<1>11. Tail(s) = r
  <2>1. Tail(s) \in Seq(Wrapper \cup {NULL}) /\ Len(Tail(s)) = Dist(h, t) - 1
    BY <1>4, <1>6, <1>10
  <2>2. \A k \in 1 .. Dist(h, t) - 1 : Tail(s)[k] = s[k + 1]
    BY <1>4, <1>6
  <2>3. \A k \in 1 .. Dist(h, t) - 1 : Tail(s)[k] = r[k]
    BY <1>8, <2>2
  <2> QED BY <1>7, <2>1, <2>3
<1> QED BY <1>10, <1>11 DEF s, r, StartsWith

LEMMA HeldAppend ==
  ASSUME NEW h \in Slot, NEW t \in Slot, Succ(h) # t, NEW v \in Contents, NEW w \in Wrapper
  PROVE  /\ Len(Held(h, t, v)) < MaxReserved - 1
         /\ Append(Held(h, t, v), w) = Held(Succ(h), t, [v EXCEPT ![h] = w])
<1> DEFINE u == [v EXCEPT ![h] = w]
           s == Held(h, t, v)
           r == Held(Succ(h), t, u)
<1>1. Succ(h) \in Slot /\ Succ(h) = IF h = MaxReserved - 1 THEN 0 ELSE h + 1
  BY SuccIs
<1>2. Dist(h, t) = IF t <= h THEN h - t ELSE h - t + MaxReserved
  BY DistIs
<1>3. Dist(Succ(h), t) = IF t <= Succ(h) THEN Succ(h) - t ELSE Succ(h) - t + MaxReserved
  BY <1>1, DistIs
<1>4. Dist(h, t) \in 0 .. MaxReserved - 2 /\ Dist(Succ(h), t) = Dist(h, t) + 1
  BY <1>1, <1>2, <1>3, Slots
<1>5. u \in Contents  BY DEF Contents
<1>6. s \in Seq(Wrapper \cup {NULL}) /\ Len(s) = Dist(h, t)
  BY HeldSeq
<1>7. r \in Seq(Wrapper \cup {NULL}) /\ Len(r) = Dist(h, t) + 1
  BY <1>1, <1>4, <1>5, HeldSeq
<1>8. ASSUME NEW k \in 1 .. Dist(h, t)
      PROVE  r[k] = s[k]
  <2>1. k \in 1 .. MaxReserved /\ k \in 1 .. Dist(Succ(h), t)  BY <1>4, Slots
  <2>2. PICK i \in Slot : i = (t + k - 1) % MaxReserved
    BY <2>1, SlotAt
  <2>3. i # h
    <3>1. i = IF t + k - 1 < MaxReserved THEN t + k - 1 ELSE t + k - 1 - MaxReserved
      BY <2>1, <2>2, SlotAt
    <3> QED BY <1>2, <1>4, <2>1, <3>1, Slots
  <2>4. s[k] = v[i]  BY <2>2 DEF Held
  <2>5. r[k] = u[i]  BY <2>1, <2>2 DEF Held
  <2>6. u[i] = v[i]  BY <2>3 DEF Contents
  <2> QED BY <2>4, <2>5, <2>6
<1>9. r[Dist(h, t) + 1] = w
  <2>1. Dist(h, t) + 1 \in 1 .. MaxReserved /\ Dist(h, t) + 1 \in 1 .. Dist(Succ(h), t)
    BY <1>4, Slots
  <2>2. (t + (Dist(h, t) + 1) - 1) % MaxReserved = h
    <3>1. PICK k \in 1 .. MaxReserved : k = Dist(h, t) + 1  BY <2>1
    <3>2. (t + k - 1) % MaxReserved =
            IF t + k - 1 < MaxReserved THEN t + k - 1 ELSE t + k - 1 - MaxReserved
      BY SlotAt
    <3> QED BY <1>2, <1>4, <3>1, <3>2, Slots
  <2>3. r[Dist(h, t) + 1] = u[h]  BY <2>1, <2>2 DEF Held
  <2> QED BY <2>3 DEF Contents
<1> HIDE DEF s, r
<1>10. Len(s) < MaxReserved - 1  BY <1>4, <1>6, Slots
<1>11. Append(s, w) = r
  <2>1. /\ Append(s, w) \in Seq(Wrapper \cup {NULL})
        /\ Len(Append(s, w)) = Dist(h, t) + 1
    BY <1>6
  <2>2. \A k \in 1 .. Dist(h, t) : Append(s, w)[k] = s[k]
    BY <1>4, <1>6
  <2>3. Append(s, w)[Dist(h, t) + 1] = w
    BY <1>4, <1>6
  <2>4. \A k \in 1 .. Dist(h, t) + 1 : Append(s, w)[k] = r[k]
    <3>1. \A k \in 1 .. Dist(h, t) + 1 : k \in 1 .. Dist(h, t) \/ k = Dist(h, t) + 1
      BY <1>4, Slots
    <3> QED BY <1>8, <1>9, <2>2, <2>3, <3>1
  <2> QED BY <1>7, <2>1, <2>4
<1> QED BY <1>10, <1>11 DEF s, r

LEMMA HeldFull ==
  ASSUME NEW h \in Slot, NEW t \in Slot, Succ(h) = t, NEW v \in Contents
  PROVE  Len(Held(h, t, v)) = MaxReserved - 1
<1>1. Succ(h) = IF h = MaxReserved - 1 THEN 0 ELSE h + 1  BY SuccIs
<1>2. Dist(h, t) = IF t <= h THEN h - t ELSE h - t + MaxReserved
  BY DistIs
<1>3. Dist(h, t) = MaxReserved - 1  BY <1>1, <1>2, Slots
<1> QED BY <1>3, HeldSeq

LEMMA HeldEmpty ==
  ASSUME NEW h \in Slot, NEW v \in Contents
  PROVE  Held(h, h, v) = << >>
<1>1. Len(Held(h, h, v)) = 0 /\ Held(h, h, v) \in Seq(Wrapper \cup {NULL})
  <2>1. Dist(h, h) = IF h <= h THEN h - h ELSE h - h + MaxReserved  BY DistIs
  <2>2. Dist(h, h) = 0  BY <2>1, Slots
  <2> QED BY <2>2, HeldSeq
<1> QED BY <1>1

-----------------------------------------------------------------------------
(* Every step of the loop buffer is a step of the promised reserve.        *)
LEMMA StepIsPoolStep ==
  ASSUME IInv, [Next]_vars
  PROVE  [Pool!Next]_(Pool!vars)
<1>1. /\ Kept = Held(headpos, tailpos, v_reserved)
      /\ Kept' = Held(headpos', tailpos', v_reserved')
  BY KeptIsHeld DEF Kept, Held, Dist, Occupied, KeptSlot
<1>2. /\ headpos \in Slot /\ tailpos \in Slot /\ v_reserved \in Contents
      /\ live \in SUBSET Wrapper
  BY DEF IInv, TypeOK, Contents
<1>3. CASE UNCHANGED vars
  BY <1>1, <1>3 DEF vars, Pool!vars
<1>4. ASSUME NEW w \in Wrapper, GetFresh(w) PROVE Pool!Next
  <2>1. Kept = << >> /\ Kept' = Kept
    BY <1>1, <1>2, <1>4, HeldEmpty DEF GetFresh
  <2>2. Pool!Allocate(w)  BY <1>4, <2>1 DEF GetFresh, Pool!Allocate
  <2> QED BY <2>2 DEF Pool!Next
<1>5. CASE GetReserved
  <2>1. headpos' = headpos /\ tailpos' = Succ(tailpos)
        /\ v_reserved' = [v_reserved EXCEPT ![tailpos] = NULL]
        /\ headpos # tailpos /\ live' = live \cup {v_reserved[tailpos]}
    BY <1>5 DEF GetReserved, SlotCleared
  <2>2. Kept # << >> /\ Head(Kept) = v_reserved[tailpos] /\ Kept' = Tail(Kept)
    <3>1. Kept' = Held(headpos, Succ(tailpos), [v_reserved EXCEPT ![tailpos] = NULL])
      BY <1>1, <2>1
    <3>2. headpos # tailpos  BY <2>1
    <3>3. StartsWith(Held(headpos, tailpos, v_reserved), v_reserved[tailpos],
            Held(headpos, Succ(tailpos), [v_reserved EXCEPT ![tailpos] = NULL]))
      BY <1>2, <3>2, HeldTail
    <3> QED BY <1>1, <3>1, <3>3 DEF StartsWith
  <2>3. v_reserved[tailpos] \notin live
    BY <1>2 DEF IInv, NotLive
  <2>4. Pool!Reuse  BY <2>1, <2>2, <2>3 DEF Pool!Reuse
  <2> QED BY <2>4 DEF Pool!Next
<1>6. ASSUME NEW w \in Wrapper, Put(w) PROVE Pool!Next
  <2>1. w \in live /\ live' = live \ {w} /\ tailpos' = tailpos
    BY <1>6 DEF Put
  <2>2. CASE Full /\ UNCHANGED <<v_reserved, headpos, nr_reserved>>
    <3>1. Kept' = Kept  BY <1>1, <2>1, <2>2
    <3>2. Len(Kept) = MaxReserved - 1
      BY <1>1, <1>2, <2>2, HeldFull DEF Full
    <3>3. Pool!Free(w)  BY <2>1, <3>1, <3>2 DEF Pool!Free
    <3> QED BY <3>3 DEF Pool!Next
  <2>3. CASE /\ ~Full
             /\ v_reserved' = [v_reserved EXCEPT ![headpos] = w]
             /\ headpos' = Succ(headpos)
             /\ nr_reserved' = nr_reserved + 1
    <3>1. Len(Kept) < MaxReserved - 1 /\ Kept' = Append(Kept, w)
      <4>1. Kept' = Held(Succ(headpos), tailpos, [v_reserved EXCEPT ![headpos] = w])
        BY <1>1, <2>1, <2>3
      <4>2. Succ(headpos) # tailpos  BY <2>3 DEF Full
      <4> QED BY <1>1, <1>2, <4>1, <4>2, HeldAppend
    <3>2. Pool!Keep(w)  BY <2>1, <3>1 DEF Pool!Keep
    <3> QED BY <3>2 DEF Pool!Next
  <2> QED BY <1>6, <2>2, <2>3 DEF Put
<1>7. CASE Cleanup \/ InitInstance
  <2>1. headpos' = 0 /\ tailpos' = 0 /\ v_reserved' = [i \in Slot |-> NULL] /\ live' = live
    BY <1>7 DEF Cleanup, InitInstance
  <2>2. 0 \in Slot /\ v_reserved' \in Contents  BY <2>1, Slots DEF Contents
  <2>3. Kept' = << >>  BY <1>1, <2>1, <2>2, HeldEmpty
  <2>4. Pool!Drain  BY <2>1, <2>3 DEF Pool!Drain
  <2> QED BY <2>4 DEF Pool!Next
<1> QED BY <1>3, <1>4, <1>5, <1>6, <1>7 DEF Next

(* For any size the loop buffer keeps the promise of the reserve: oldest   *)
(* first, at most one less than its slots, never a wrapper twice.          *)
THEOREM RingImplements == Spec => ImplementsPool
<1>1. Init => Pool!Init
  <2> SUFFICES ASSUME Init PROVE Pool!Init  OBVIOUS
  <2>1. 0 \in Slot /\ v_reserved \in Contents /\ headpos = 0 /\ tailpos = 0
    BY Slots DEF Init, Contents
  <2>2. Kept = << >>  BY <2>1, KeptIsHeld, HeldEmpty
  <2> QED BY <2>2 DEF Init, Pool!Init
<1>2. IInv /\ [Next]_vars => [Pool!Next]_(Pool!vars)
  BY StepIsPoolStep
<1> QED BY <1>1, <1>2, Inductive, PTL DEF Spec, ImplementsPool, Pool!Spec
=============================================================================
