----------------------------- MODULE AlarmProofs -----------------------------
(***************************************************************************)
(* Proofs about Alarm, for any alarms, any callbacks, any size of the list *)
(* and any threshold.  First the list of handles: what Free and Allocate   *)
(* do to the inductive invariant.  Then Cancel and Setup, which are made   *)
(* of them, then one step for each action, and that Alarm implements       *)
(* AlarmService.                                                           *)
(*                                                                         *)
(* Last the proofs about PollControl.  The program that starts on signals  *)
(* and configures Poll Control clusters does nothing with the alarms that  *)
(* Alarm does not allow, so all that is proved of Alarm holds of it; and   *)
(* what its own alarm does once it is called is what the last              *)
(* configuration asked for, whatever the application's alarms did in       *)
(* between.                                                                *)
(***************************************************************************)
EXTENDS PollControl, FiniteSetTheorems, TLAPS

HType == [Alarms -> Handles \cup {kInvalidHandle}]
DueType == SUBSET ({"on_alarm", "on_timer"} \X Handles)

-----------------------------------------------------------------------------
(* The list of handles. *)

(* The list as the loader makes it is a pool in which every handle is free
   and none was ever taken. *)
LEMMA CreatePool ==
    /\ Create \in ListType
    /\ Pool(Create, [a \in Alarms |-> kInvalidHandle], 0)
<1> DEFINE hh == [a \in Alarms |-> kInvalidHandle]
           s == [i \in 1 .. kMaxSize |-> i - 1]
<1> USE AlarmAssumption DEF Handles, kFull, kInvalidHandle
<1>1. Create \in ListType
  BY DEF Create, ListType, FreeEntry
<1>2. Holders(hh) = {} /\ Cardinality(Holders(hh)) = 0
  BY FS_EmptySet DEF Holders
<1>3. s \in [1 .. kMaxSize -> Handles]
  OBVIOUS
<1>4. IsFreeList(Create, hh, kMaxSize, s)
  <2>1. Create.head = IF kMaxSize = 0 THEN kFull ELSE s[1]
    BY DEF Create
  <2>2. ASSUME NEW i \in 1 .. kMaxSize
        PROVE  /\ Create.entries[s[i]] =
                    [nextFree |-> IF i = kMaxSize THEN kFull ELSE s[i + 1]]
               /\ \A j \in 1 .. kMaxSize : s[i] = s[j] => i = j
    BY DEF Create
  <2>3. ASSUME NEW hd \in Handles
        PROVE  /\ \E i \in 1 .. kMaxSize : s[i] = hd
               /\ \A a \in Alarms : hh[a] # hd
    <3>1. hd + 1 \in 1 .. kMaxSize /\ s[hd + 1] = hd
      OBVIOUS
    <3> QED BY <3>1
  <2> QED BY <2>1, <2>2, <2>3 DEF IsFreeList
<1>5. FreshAtEnd(kMaxSize, s, 0)
  BY DEF FreshAtEnd
<1>6. EntriesOwned(Create, hh)
  BY <1>2 DEF EntriesOwned
<1>7. kMaxSize \in 0 .. kMaxSize /\ kMaxSize + Cardinality(Holders(hh)) = kMaxSize
  BY <1>2
<1> HIDE DEF s, hh
<1>8. \E n \in 0 .. kMaxSize : \E t \in [1 .. n -> Handles] :
         IsFreeList(Create, hh, n, t) /\ FreshAtEnd(n, t, 0)
         /\ n + Cardinality(Holders(hh)) = kMaxSize
  BY <1>3, <1>4, <1>5, <1>7
<1>9. Pool(Create, hh, 0)
  BY <1>2, <1>6, <1>8 DEF Pool
<1> QED BY <1>1, <1>9 DEF hh

(* Holders after one alarm gives its handle back, and after one takes one. *)
LEMMA HoldersChange ==
    ASSUME NEW hh \in HType, NEW a \in Alarms
    PROVE  /\ Holders([hh EXCEPT ![a] = kInvalidHandle]) = Holders(hh) \ {a}
           /\ \A hd \in Handles :
                Holders([hh EXCEPT ![a] = hd]) = Holders(hh) \cup {a}
           /\ IsFiniteSet(Holders(hh))
           /\ Cardinality(Holders(hh)) \in Nat
<1>1. IsFiniteSet(Holders(hh))
  BY AlarmAssumption, FS_Subset DEF Holders
<1>2. Cardinality(Holders(hh)) \in Nat
  BY <1>1, FS_CardinalityType
<1>3. Holders([hh EXCEPT ![a] = kInvalidHandle]) = Holders(hh) \ {a}
  BY DEF Holders, HType
<1>4. \A hd \in Handles : hd # kInvalidHandle
  BY AlarmAssumption DEF Handles, kInvalidHandle, kFull
<1>5. ASSUME NEW hd \in Handles
      PROVE  Holders([hh EXCEPT ![a] = hd]) = Holders(hh) \cup {a}
  BY <1>4 DEF Holders, HType
<1> QED BY <1>1, <1>2, <1>3, <1>5

(* Free: a handle that is held becomes the head of the list. *)
LEMMA FreedPool ==
    ASSUME NEW list \in ListType, NEW hh \in HType, NEW m \in 0 .. kMaxSize,
           Pool(list, hh, m), NEW a \in Holders(hh)
    PROVE  LET hh2 == [hh EXCEPT ![a] = kInvalidHandle]
           IN  /\ Freed(list, hh[a]) \in ListType
               /\ hh2 \in HType
               /\ Pool(Freed(list, hh[a]), hh2, m)
<1> DEFINE hd == hh[a]
           list2 == Freed(list, hd)
           hh2 == [hh EXCEPT ![a] = kInvalidHandle]
<1> USE AlarmAssumption
<1>1. a \in Alarms /\ hd \in Handles /\ hd < m
  BY DEF Holders, HType, Pool
<1>2. list2 \in ListType /\ hh2 \in HType
  BY <1>1 DEF ListType, HType, Freed, FreeEntry
<1>3. PICK n \in 0 .. kMaxSize : \E s \in [1 .. n -> Handles] :
         /\ IsFreeList(list, hh, n, s)
         /\ FreshAtEnd(n, s, m)
         /\ n + Cardinality(Holders(hh)) = kMaxSize
  BY DEF Pool
<1>4. PICK s \in [1 .. n -> Handles] :
         /\ IsFreeList(list, hh, n, s)
         /\ FreshAtEnd(n, s, m)
         /\ n + Cardinality(Holders(hh)) = kMaxSize
  BY <1>3
<1> DEFINE t == [i \in 1 .. n + 1 |-> IF i = 1 THEN hd ELSE s[i - 1]]
<1>5. /\ Holders(hh2) = Holders(hh) \ {a}
      /\ Cardinality(Holders(hh2)) = Cardinality(Holders(hh)) - 1
      /\ Cardinality(Holders(hh2)) \in Nat
  <2>1. Holders(hh2) = Holders(hh) \ {a} /\ IsFiniteSet(Holders(hh))
    BY <1>1, HoldersChange
  <2>2. Cardinality(Holders(hh2)) = Cardinality(Holders(hh)) - 1
    BY <2>1, FS_RemoveElement
  <2>3. Cardinality(Holders(hh2)) \in Nat
    BY <1>1, <1>2, HoldersChange
  <2> QED BY <2>1, <2>2, <2>3
<1>6. n + 1 \in 0 .. kMaxSize /\ (n + 1) + Cardinality(Holders(hh2)) = kMaxSize
  <2>1. Cardinality(Holders(hh)) \in Nat
    BY <1>1, HoldersChange
  <2> QED BY <1>4, <1>5, <2>1
<1>7. t \in [1 .. n + 1 -> Handles]
  BY <1>1
<1>8. \A i \in 1 .. n : s[i] # hd
  BY <1>1, <1>4 DEF IsFreeList
<1>9. IsFreeList(list2, hh2, n + 1, t)
  <2>1. list2.head = t[1] /\ n + 1 # 0
    BY DEF Freed
  <2>2. list2.entries[hd] = [nextFree |-> list.head]
    BY <1>1 DEF Freed, ListType
  <2>3. \A x \in Handles : x # hd => list2.entries[x] = list.entries[x]
    BY DEF Freed, ListType
  <2>4. ASSUME NEW i \in 1 .. n + 1
        PROVE  list2.entries[t[i]] =
                 [nextFree |-> IF i = n + 1 THEN kFull ELSE t[i + 1]]
    <3>1. CASE i = 1
      BY <3>1, <2>2, <1>4 DEF IsFreeList
    <3>2. CASE i # 1
      <4>1. i - 1 \in 1 .. n /\ t[i] = s[i - 1] /\ s[i - 1] \in Handles
        BY <3>2
      <4>2. list2.entries[t[i]] = list.entries[s[i - 1]]
        BY <4>1, <2>3, <1>8
      <4>3. list.entries[s[i - 1]] =
              [nextFree |-> IF i - 1 = n THEN kFull ELSE s[(i - 1) + 1]]
        BY <4>1, <1>4 DEF IsFreeList
      <4>4. i # n + 1 => t[i + 1] = s[(i - 1) + 1]
        BY <3>2
      <4> QED BY <4>2, <4>3, <4>4
    <3> QED BY <3>1, <3>2
  <2>5. ASSUME NEW i \in 1 .. n + 1, NEW j \in 1 .. n + 1, t[i] = t[j]
        PROVE  i = j
    <3>1. \A k, l \in 1 .. n : s[k] = s[l] => k = l
      BY <1>4 DEF IsFreeList
    <3> QED BY <2>5, <3>1, <1>8
  <2>6. ASSUME NEW x \in Handles
        PROVE  (\E i \in 1 .. n + 1 : t[i] = x) <=> (\A b \in Alarms : hh2[b] # x)
    <3>1. (\E i \in 1 .. n : s[i] = x) <=> (\A b \in Alarms : hh[b] # x)
      BY <1>4 DEF IsFreeList
    <3>2. CASE x = hd
      <4>1. t[1] = x /\ 1 \in 1 .. n + 1
        BY <3>2
      <4>2. ASSUME NEW b \in Alarms PROVE hh2[b] # x
        <5>1. CASE b = a
          BY <5>1, <1>1 DEF HType, Handles, kInvalidHandle, kFull
        <5>2. CASE b # a
          BY <5>2, <1>1, <3>2 DEF Pool, EntriesOwned, Holders, HType, Handles,
                                  kInvalidHandle, kFull
        <5> QED BY <5>1, <5>2
      <4> QED BY <4>1, <4>2
    <3>3. CASE x # hd
      <4>1. (\E i \in 1 .. n + 1 : t[i] = x) <=> (\E i \in 1 .. n : s[i] = x)
        <5>1. ASSUME NEW i \in 1 .. n + 1, t[i] = x
              PROVE  \E k \in 1 .. n : s[k] = x
          <6>1. i # 1 /\ i - 1 \in 1 .. n /\ s[i - 1] = x
            BY <5>1, <3>3
          <6> QED BY <6>1
        <5>2. ASSUME NEW i \in 1 .. n, s[i] = x
              PROVE  \E k \in 1 .. n + 1 : t[k] = x
          <6>1. i + 1 \in 1 .. n + 1 /\ t[i + 1] = x
            BY <5>2
          <6> QED BY <6>1
        <5> QED BY <5>1, <5>2
      <4>2. (\A b \in Alarms : hh[b] # x) <=> (\A b \in Alarms : hh2[b] # x)
        BY <3>3, <1>1 DEF HType, Handles, kInvalidHandle, kFull
      <4> QED BY <4>1, <4>2, <3>1
    <3> QED BY <3>2, <3>3
  <2> HIDE DEF t, list2, hh2
  <2>7. list2.head = IF n + 1 = 0 THEN kFull ELSE t[1]
    BY <2>1
  <2> QED BY <2>4, <2>5, <2>6, <2>7 DEF IsFreeList
<1>10. FreshAtEnd(n + 1, t, m)
  BY <1>1, <1>4 DEF FreshAtEnd, Handles
<1>11. EntriesOwned(list2, hh2)
  <2>1. EntriesOwned(list, hh)
    BY DEF Pool
  <2>2. ASSUME NEW b \in Holders(hh2)
        PROVE  b \in Holders(hh) /\ b # a /\ hh2[b] = hh[b] /\ hh[b] # hd
               /\ hh[b] \in Handles
    BY <1>5, <2>1 DEF EntriesOwned, HType, Holders
  <2>3. ASSUME NEW b \in Holders(hh2)
        PROVE  list2.entries[hh2[b]] = list.entries[hh[b]]
    BY <2>2 DEF Freed, ListType
  <2> HIDE DEF list2, hh2
  <2> QED BY <2>1, <2>2, <2>3 DEF EntriesOwned
<1>12. \A b \in Holders(hh2) : hh2[b] < m
  BY <1>5, <1>1 DEF Pool, HType, Holders
<1> HIDE DEF t, list2, hh2
<1>13. \E k \in 0 .. kMaxSize : \E u \in [1 .. k -> Handles] :
          IsFreeList(list2, hh2, k, u) /\ FreshAtEnd(k, u, m)
          /\ k + Cardinality(Holders(hh2)) = kMaxSize
  BY <1>6, <1>7, <1>9, <1>10
<1>14. Pool(list2, hh2, m)
  BY <1>11, <1>12, <1>13 DEF Pool
<1> QED BY <1>2, <1>14 DEF list2, hh2

(* Allocate: the head of the list goes to an alarm that holds none.  m is a
   bound on the handles ever taken; it grows by one exactly when all of them
   are held, and then the handle taken is m itself. *)
LEMMA AllocatedPool ==
    ASSUME NEW list \in ListType, NEW hh \in HType, NEW m \in 0 .. kMaxSize,
           Pool(list, hh, m), NEW a \in Alarms, a \notin Holders(hh),
           NEW cb \in Cbs, list.head # kFull
    PROVE  LET hd    == list.head
               list2 == Allocated(list, [pAlarm |-> a, cb |-> cb])
               hh2   == [hh EXCEPT ![a] = hd]
               held  == Cardinality(Holders(hh2))
               m2    == IF held > m THEN held ELSE m
           IN  /\ hd \in Handles
               /\ list2 \in ListType
               /\ hh2 \in HType
               /\ m2 \in 0 .. kMaxSize
               /\ hd < m2
               /\ m2 = m \/ (m2 = m + 1 /\ hd = m)
               /\ Pool(list2, hh2, m2)
<1> DEFINE hd == list.head
           list2 == Allocated(list, [pAlarm |-> a, cb |-> cb])
           hh2 == [hh EXCEPT ![a] = hd]
           held == Cardinality(Holders(hh2))
           m2 == IF held > m THEN held ELSE m
<1> USE AlarmAssumption
<1>1. PICK n \in 0 .. kMaxSize : \E s \in [1 .. n -> Handles] :
         /\ IsFreeList(list, hh, n, s)
         /\ FreshAtEnd(n, s, m)
         /\ n + Cardinality(Holders(hh)) = kMaxSize
  BY DEF Pool
<1>2. PICK s \in [1 .. n -> Handles] :
         /\ IsFreeList(list, hh, n, s)
         /\ FreshAtEnd(n, s, m)
         /\ n + Cardinality(Holders(hh)) = kMaxSize
  BY <1>1
<1>3. n > 0 /\ 1 \in 1 .. n /\ hd = s[1] /\ hd \in Handles
  BY <1>2 DEF IsFreeList
<1> DEFINE t == [i \in 1 .. n - 1 |-> s[i + 1]]
<1>4. list2.head = IF n - 1 = 0 THEN kFull ELSE t[1]
  <2>1. list.entries[s[1]] = [nextFree |-> IF 1 = n THEN kFull ELSE s[1 + 1]]
    BY <1>2, <1>3 DEF IsFreeList
  <2> QED BY <2>1, <1>3 DEF Allocated
<1>5. list2 \in ListType /\ hh2 \in HType
  <2>1. list2.head \in Handles \cup {kFull}
    BY <1>3, <1>4
  <2>2. list2.entries \in [Handles -> FreeEntry \cup TimerEntry]
    BY <1>3 DEF Allocated, ListType, TimerEntry
  <2> QED BY <2>1, <2>2, <1>3 DEF Allocated, ListType, HType
<1>6. /\ Holders(hh2) = Holders(hh) \cup {a}
      /\ held = Cardinality(Holders(hh)) + 1
      /\ held \in Nat
  <2>1. Holders(hh2) = Holders(hh) \cup {a} /\ IsFiniteSet(Holders(hh))
    BY <1>3, HoldersChange
  <2>2. held = Cardinality(Holders(hh)) + 1
    BY <2>1, FS_AddElement
  <2>3. held \in Nat
    BY <1>5, HoldersChange
  <2> QED BY <2>1, <2>2, <2>3
<1>7. n - 1 \in 0 .. kMaxSize /\ (n - 1) + held = kMaxSize
  <2>1. Cardinality(Holders(hh)) \in Nat
    BY HoldersChange
  <2> QED BY <1>2, <1>3, <1>6, <2>1
<1>8. t \in [1 .. n - 1 -> Handles]
  OBVIOUS
<1>9. \A i \in 2 .. n : s[i] # hd
  <2>1. \A i \in 2 .. n : i \in 1 .. n /\ i # 1
    OBVIOUS
  <2>2. \A i \in 1 .. n : s[i] = s[1] => i = 1
    BY <1>2, <1>3 DEF IsFreeList
  <2> QED BY <1>3, <2>1, <2>2
<1>10. /\ m2 \in 0 .. kMaxSize
       /\ hd < m2
       /\ m2 = m \/ (m2 = m + 1 /\ hd = m)
       /\ FreshAtEnd(n - 1, t, m2)
  <2>1. kMaxSize - m <= n /\ held = kMaxSize - n + 1
    BY <1>2, <1>6, <1>7 DEF FreshAtEnd
  <2>2. \A i \in 1 .. n : IF i <= n - (kMaxSize - m)
                          THEN s[i] < m
                          ELSE s[i] = kMaxSize - 1 - (n - i)
    BY <1>2 DEF FreshAtEnd
  <2>3. CASE kMaxSize - m = n
    <3>1. hd = m /\ m2 = m + 1 /\ m2 <= kMaxSize
      BY <2>1, <2>2, <2>3, <1>3
    <3>2. \A i \in 1 .. n - 1 : t[i] = kMaxSize - 1 - ((n - 1) - i)
      BY <2>2, <2>3
    <3>3. kMaxSize - m2 = n - 1
      BY <2>3, <3>1
    <3>4. \A i \in 1 .. n - 1 : ~ (i <= (n - 1) - (n - 1))
      OBVIOUS
    <3> HIDE DEF t, m2
    <3>5. FreshAtEnd(n - 1, t, m2)
      BY <3>2, <3>3, <3>4 DEF FreshAtEnd
    <3> QED BY <3>1, <3>5
  <2>4. CASE kMaxSize - m < n
    <3>1. hd < m /\ m2 = m
      BY <2>1, <2>2, <2>4, <1>3
    <3>2. ASSUME NEW i \in 1 .. n - 1
          PROVE  IF i <= (n - 1) - (kMaxSize - m)
                 THEN t[i] < m
                 ELSE t[i] = kMaxSize - 1 - ((n - 1) - i)
      <4>1. i + 1 \in 1 .. n /\ t[i] = s[i + 1]
        OBVIOUS
      <4> QED BY <4>1, <2>2
    <3>3. kMaxSize - m <= n - 1
      BY <2>4
    <3> HIDE DEF t, m2
    <3>4. FreshAtEnd(n - 1, t, m2)
      BY <3>1, <3>2, <3>3 DEF FreshAtEnd
    <3> QED BY <3>1, <3>4
  <2> QED BY <2>1, <2>3, <2>4
<1>11. IsFreeList(list2, hh2, n - 1, t)
  <2>1. \A x \in Handles : x # hd => list2.entries[x] = list.entries[x]
    BY DEF Allocated, ListType
  <2>2. ASSUME NEW i \in 1 .. n - 1
        PROVE  list2.entries[t[i]] =
                 [nextFree |-> IF i = n - 1 THEN kFull ELSE t[i + 1]]
    <3>1. i + 1 \in 2 .. n /\ t[i] = s[i + 1] /\ s[i + 1] \in Handles
      OBVIOUS
    <3>2. list2.entries[t[i]] = list.entries[s[i + 1]]
      BY <3>1, <2>1, <1>9
    <3>3. list.entries[s[i + 1]] =
            [nextFree |-> IF i + 1 = n THEN kFull ELSE s[(i + 1) + 1]]
      BY <3>1, <1>2 DEF IsFreeList
    <3>4. i # n - 1 => t[i + 1] = s[(i + 1) + 1]
      OBVIOUS
    <3> QED BY <3>2, <3>3, <3>4
  <2>3. ASSUME NEW i \in 1 .. n - 1, NEW j \in 1 .. n - 1, t[i] = t[j]
        PROVE  i = j
    <3>1. \A k, l \in 1 .. n : s[k] = s[l] => k = l
      BY <1>2 DEF IsFreeList
    <3> QED BY <2>3, <3>1
  <2>4. ASSUME NEW x \in Handles
        PROVE  (\E i \in 1 .. n - 1 : t[i] = x) <=> (\A b \in Alarms : hh2[b] # x)
    <3>1. (\E i \in 1 .. n : s[i] = x) <=> (\A b \in Alarms : hh[b] # x)
      BY <1>2 DEF IsFreeList
    <3>2. CASE x = hd
      <4>1. hh2[a] = x
        BY <3>2 DEF HType
      <4>2. \A i \in 1 .. n - 1 : t[i] # x
        BY <3>2, <1>9
      <4> QED BY <4>1, <4>2
    <3>3. CASE x # hd
      <4>1. (\E i \in 1 .. n - 1 : t[i] = x) <=> (\E i \in 1 .. n : s[i] = x)
        <5>1. ASSUME NEW i \in 1 .. n, s[i] = x
              PROVE  \E k \in 1 .. n - 1 : t[k] = x
          <6>1. i # 1 /\ i - 1 \in 1 .. n - 1 /\ t[i - 1] = x
            BY <5>1, <3>3, <1>3
          <6> QED BY <6>1
        <5>2. ASSUME NEW i \in 1 .. n - 1, t[i] = x
              PROVE  \E k \in 1 .. n : s[k] = x
          <6>1. i + 1 \in 1 .. n /\ s[i + 1] = x
            BY <5>2
          <6> QED BY <6>1
        <5> QED BY <5>1, <5>2
      <4>2. hh[a] = kInvalidHandle /\ kInvalidHandle # x
        BY DEF Holders, Handles, kInvalidHandle, kFull
      <4>3. (\A b \in Alarms : hh[b] # x) <=> (\A b \in Alarms : hh2[b] # x)
        BY <3>3, <4>2 DEF HType
      <4> QED BY <4>1, <4>3, <3>1
    <3> QED BY <3>2, <3>3
  <2> HIDE DEF t, list2, hh2
  <2> QED BY <1>4, <2>2, <2>3, <2>4 DEF IsFreeList
<1>12. EntriesOwned(list2, hh2)
  <2>1. EntriesOwned(list, hh)
    BY DEF Pool
  <2>2. ASSUME NEW b \in Holders(hh2), b # a
        PROVE  b \in Holders(hh) /\ hh2[b] = hh[b] /\ hh[b] # hd /\ hh[b] \in Handles
    <3>1. b \in Holders(hh) /\ hh2[b] = hh[b] /\ hh[b] \in Handles
      BY <2>2, <1>6 DEF HType, Holders
    <3>2. \A c \in Alarms : hh[c] # hd
      <4>1. 1 \in 1 .. n
        BY <1>3
      <4> QED BY <4>1, <1>2, <1>3 DEF IsFreeList
    <3> QED BY <3>1, <3>2 DEF Holders
  <2>3. hh2[a] = hd /\ list2.entries[hd] = [pAlarm |-> a, cb |-> cb]
    BY <1>3 DEF HType, Allocated, ListType
  <2>4. ASSUME NEW b \in Holders(hh2), b # a
        PROVE  list2.entries[hh2[b]] = list.entries[hh[b]]
    BY <2>2, <2>4 DEF Allocated, ListType
  <2>5. ASSUME NEW b \in Holders(hh2)
        PROVE  \E c \in Cbs : list2.entries[hh2[b]] = [pAlarm |-> b, cb |-> c]
    <3>1. CASE b = a
      BY <3>1, <2>3
    <3>2. CASE b # a
      <4>1. \E c \in Cbs : list.entries[hh[b]] = [pAlarm |-> b, cb |-> c]
        BY <3>2, <2>1, <2>2 DEF EntriesOwned
      <4>2. list2.entries[hh2[b]] = list.entries[hh[b]]
        BY <3>2, <2>4
      <4> HIDE DEF list2, hh2
      <4> QED BY <4>1, <4>2
    <3> QED BY <3>1, <3>2
  <2>6. ASSUME NEW b \in Holders(hh2), NEW c \in Holders(hh2), hh2[b] = hh2[c]
        PROVE  b = c
    BY <2>1, <2>2, <2>3, <2>6 DEF EntriesOwned
  <2> HIDE DEF list2, hh2
  <2> QED BY <2>5, <2>6 DEF EntriesOwned
<1>13. \A b \in Holders(hh2) : hh2[b] < m2
  <2>1. \A b \in Holders(hh) : hh[b] \in Handles /\ hh[b] < m
    BY DEF Pool, HType, Holders
  <2>2. m <= m2
    BY <1>10
  <2> HIDE DEF m2
  <2>3. m2 \in Int
    BY <1>10
  <2>4. ASSUME NEW b \in Holders(hh2) PROVE hh2[b] < m2
    <3>1. CASE b = a
      BY <3>1, <1>10 DEF HType
    <3>2. CASE b # a
      BY <3>2, <2>1, <2>2, <2>3, <1>6 DEF HType, Holders, Handles
    <3> QED BY <3>1, <3>2
  <2> QED BY <2>4
<1> HIDE DEF t, list2, hh2, m2, held
<1>14. \E k \in 0 .. kMaxSize : \E u \in [1 .. k -> Handles] :
          IsFreeList(list2, hh2, k, u) /\ FreshAtEnd(k, u, m2)
          /\ k + Cardinality(Holders(hh2)) = kMaxSize
  BY <1>7, <1>8, <1>10, <1>11 DEF held
<1>15. Pool(list2, hh2, m2)
  BY <1>12, <1>13, <1>14 DEF Pool
<1> QED BY <1>3, <1>5, <1>10, <1>15 DEF list2, hh2, m2, held

-----------------------------------------------------------------------------
(* Cancel and Setup. *)

(* What Cancel leaves is sound, and a holds nothing any more: neither a handle
   nor a call that ZBOSS still has scheduled. *)
LEMMA CancelledSound ==
    ASSUME IInv, NEW a \in Alarms
    PROVE  LET c == Cancelled(a)
           IN  /\ c.list \in ListType
               /\ c.h \in HType
               /\ c.due \in DueType
               /\ Pool(c.list, c.h, peak)
               /\ AreOwned(c.due, c.h)
               /\ a \notin Holders(c.h)
<1>1. /\ g_TimerList \in ListType /\ h \in HType /\ pending \in DueType
      /\ peak \in 0 .. kMaxSize
      /\ Pool(g_TimerList, h, peak) /\ AreOwned(pending, h)
  BY DEF IInv, TypeOK, HType, DueType, PendingOwned
<1>2. CASE a \in Holders(h)
  <2> DEFINE h2 == [h EXCEPT ![a] = kInvalidHandle]
             due2 == pending \ {<<Trampoline(a), h[a]>>}
  <2>1. Cancelled(a) = [list |-> Freed(g_TimerList, h[a]), h |-> h2, due |-> due2]
    BY <1>2 DEF Cancelled, Released, IsRunning, Holders
  <2>2. /\ Freed(g_TimerList, h[a]) \in ListType /\ h2 \in HType
        /\ Pool(Freed(g_TimerList, h[a]), h2, peak)
    BY <1>1, <1>2, FreedPool
  <2>3. Holders(h2) = Holders(h) \ {a}
    BY <1>1, HoldersChange
  <2>4. ASSUME NEW p \in due2
        PROVE  \E b \in Holders(h2) : p = <<Trampoline(b), h2[b]>>
    <3>1. PICK b \in Holders(h) : p = <<Trampoline(b), h[b]>>
      BY <1>1 DEF AreOwned
    <3>2. b # a
      BY <3>1
    <3>3. b \in Holders(h2) /\ h2[b] = h[b]
      BY <2>3, <3>2, <1>1 DEF HType, Holders
    <3> QED BY <3>1, <3>3
  <2>5. due2 \in DueType
    BY <1>1 DEF DueType
  <2> HIDE DEF h2, due2
  <2>6. AreOwned(due2, h2)
    BY <2>4 DEF AreOwned
  <2> QED BY <2>1, <2>2, <2>3, <2>5, <2>6
<1>3. CASE a \notin Holders(h)
  <2>1. Cancelled(a) = [list |-> g_TimerList, h |-> h, due |-> pending]
    BY <1>3 DEF Cancelled, IsRunning, Holders
  <2> QED BY <1>1, <1>3, <2>1
<1> QED BY <1>2, <1>3

(* What Setup changes and the invariant says of it. *)
SetupSound ==
    /\ g_TimerList' \in ListType
    /\ h' \in HType
    /\ pending' \in DueType
    /\ g_RunningOutOfHandles' \in BOOLEAN
    /\ peak' \in 0 .. kMaxSize
    /\ Pool(g_TimerList', h', peak')
    /\ AreOwned(pending', h')
    /\ (g_RunningOutOfHandles' <=> peak' > kLowOnHandlesThreshold)

(* Setup with a handle: ZBOSS accepts the alarm or not. *)
LEMMA TakeHandleSound ==
    ASSUME IInv, NEW a \in Alarms, NEW cb \in Cbs, NEW accepted \in BOOLEAN,
           TakeHandle(a, cb, accepted)
    PROVE  SetupSound
<1> DEFINE c == Cancelled(a)
           hd == c.list.head
           h2 == [c.h EXCEPT ![a] = hd]
<1>1. /\ c.list \in ListType /\ c.h \in HType /\ c.due \in DueType
      /\ Pool(c.list, c.h, peak) /\ AreOwned(c.due, c.h) /\ a \notin Holders(c.h)
  BY CancelledSound
<1>2. /\ hd # kFull
      /\ g_TimerList' = Allocated(c.list, [pAlarm |-> a, cb |-> cb])
      /\ h' = h2
      /\ pending' = IF accepted THEN Scheduled(c.due, a, hd) ELSE c.due
      /\ g_RunningOutOfHandles' = (g_RunningOutOfHandles \/ IsShortage(hd))
      /\ peak' = IF Cardinality(Holders(h')) > peak
                 THEN Cardinality(Holders(h')) ELSE peak
  BY DEF TakeHandle, RecordPeak
<1>3. /\ peak \in 0 .. kMaxSize
      /\ g_RunningOutOfHandles \in BOOLEAN
      /\ g_RunningOutOfHandles <=> peak > kLowOnHandlesThreshold
  BY DEF IInv, TypeOK, LowOnHandlesExact
<1> HIDE DEF c
<1>4. /\ hd \in Handles
      /\ g_TimerList' \in ListType
      /\ h' \in HType
      /\ peak' \in 0 .. kMaxSize
      /\ hd < peak'
      /\ peak' = peak \/ (peak' = peak + 1 /\ hd = peak)
      /\ Pool(g_TimerList', h', peak')
  BY <1>1, <1>2, <1>3, AllocatedPool
<1>5. pending' \in DueType
  BY <1>1, <1>2, <1>4 DEF DueType, Scheduled, Trampoline
<1>6. AreOwned(pending', h')
  <2>1. /\ Holders(h') = Holders(c.h) \cup {a}
        /\ h'[a] = hd
        /\ \A b \in Holders(c.h) : h'[b] = c.h[b]
    <3>1. Holders(h2) = Holders(c.h) \cup {a}
      BY <1>1, <1>4, HoldersChange
    <3>2. h2[a] = hd /\ \A b \in Holders(c.h) : b # a => h2[b] = c.h[b]
      BY <1>1 DEF HType, Holders
    <3> QED BY <1>1, <1>2, <3>1, <3>2
  <2>2. \A p \in pending' : p \in c.due \/ p = <<Trampoline(a), hd>>
    BY <1>2 DEF Scheduled
  <2> QED BY <1>1, <2>1, <2>2 DEF AreOwned
<1>7. g_RunningOutOfHandles' <=> peak' > kLowOnHandlesThreshold
  <2>1. (peak > kLowOnHandlesThreshold \/ IsShortage(hd))
           <=> peak' > kLowOnHandlesThreshold
    <3>1. /\ kLowOnHandlesThreshold \in Int /\ peak \in Int /\ hd \in Int
          /\ peak' \in Int
      BY <1>3, <1>4, AlarmAssumption DEF Handles
    <3> QED BY <1>4, <3>1 DEF IsShortage
  <2> QED BY <1>2, <1>3, <2>1, Zenon
<1>8. g_RunningOutOfHandles' \in BOOLEAN
  BY <1>2
<1> QED BY <1>4, <1>5, <1>6, <1>7, <1>8 DEF SetupSound

(* Setup in every case. *)
LEMMA SetupEffectSound ==
    ASSUME IInv, NEW a \in Alarms, NEW cb \in Cbs, SetupEffect(a, cb)
    PROVE  SetupSound
<1>1. CASE \E accepted \in BOOLEAN : TakeHandle(a, cb, accepted)
  BY <1>1, TakeHandleSound
<1>2. CASE NoHandle(a)
  <2>1. /\ g_TimerList' = Cancelled(a).list
        /\ h' = Cancelled(a).h
        /\ pending' = Cancelled(a).due
        /\ UNCHANGED <<g_RunningOutOfHandles, peak>>
    BY <1>2 DEF NoHandle
  <2>2. /\ peak \in 0 .. kMaxSize
        /\ g_RunningOutOfHandles \in BOOLEAN
        /\ g_RunningOutOfHandles <=> peak > kLowOnHandlesThreshold
    BY DEF IInv, TypeOK, LowOnHandlesExact
  <2> QED BY <2>1, <2>2, CancelledSound DEF SetupSound
<1> QED BY <1>1, <1>2 DEF SetupEffect

-----------------------------------------------------------------------------
(* The invariant. *)

(* The start. *)
LEMMA InitIInv == Init => IInv
<1> SUFFICES ASSUME Init PROVE IInv
  OBVIOUS
<1> USE AlarmAssumption
<1>1. h = [a \in Alarms |-> kInvalidHandle] /\ g_TimerList = Create /\ peak = 0
      /\ pending = {} /\ ~ g_RunningOutOfHandles
  BY DEF Init
<1>2. g_TimerList \in ListType /\ Pool(g_TimerList, h, peak)
  BY <1>1, CreatePool
<1>3. TypeOK
  <2>1. h \in [Alarms -> Handles \cup {kInvalidHandle}] /\ peak \in 0 .. kMaxSize
    BY <1>1
  <2>2. call \in {NoCall} /\ g_CounterOfDeath \in {kCounterOfDeathInactive}
        /\ g_RunningOutOfHandles \in BOOLEAN
    BY DEF Init
  <2>3. pending \subseteq {"on_alarm", "on_timer"} \X Handles
    BY <1>1
  <2> QED BY <1>2, <2>1, <2>2, <2>3 DEF TypeOK
<1>4. PendingOwned
  BY <1>1 DEF PendingOwned, AreOwned
<1>5. LowOnHandlesExact
  BY <1>1 DEF LowOnHandlesExact
<1>6. CallOwned
  BY DEF Init, CallOwned
<1> QED BY <1>2, <1>3, <1>4, <1>5, <1>6 DEF IInv

(* The callback of a due alarm is entered. *)
LEMMA OnScheduledAlarmStep ==
    ASSUME IInv, NEW p \in pending, OnScheduledAlarm(p[1], p[2])
    PROVE  IInv'
<1>1. /\ g_TimerList \in ListType /\ h \in HType /\ pending \in DueType
      /\ peak \in 0 .. kMaxSize
      /\ Pool(g_TimerList, h, peak) /\ AreOwned(pending, h)
  BY DEF IInv, TypeOK, HType, DueType, PendingOwned
<1>2. PICK a \in Holders(h) : p = <<Trampoline(a), h[a]>>
  BY <1>1 DEF AreOwned
<1>3. PICK cb \in Cbs : g_TimerList.entries[h[a]] = [pAlarm |-> a, cb |-> cb]
  BY <1>1 DEF Pool, EntriesOwned
<1>4. a \in Alarms
  BY DEF Holders
<1>5. /\ g_TimerList' = Freed(g_TimerList, h[a])
      /\ h' = [h EXCEPT ![a] = kInvalidHandle]
      /\ pending' = pending \ {<<Trampoline(a), h[a]>>}
      /\ call' = [trampoline |-> Trampoline(a), e |-> [pAlarm |-> a, cb |-> cb]]
      /\ UNCHANGED <<g_RunningOutOfHandles, g_CounterOfDeath, peak>>
  <2>1. p[1] = Trampoline(a) /\ p[2] = h[a]
    BY <1>2
  <2>2. g_TimerList.entries[p[2]].pAlarm = a
    BY <1>3, <2>1
  <2> QED BY <1>3, <2>1, <2>2 DEF OnScheduledAlarm, Released
<1>6. /\ g_TimerList' \in ListType /\ h' \in HType
      /\ Pool(g_TimerList', h', peak)
  BY <1>1, <1>5, FreedPool
<1>7. AreOwned(pending', h')
  <2>1. a \in Holders(h)
    OBVIOUS
  <2>2. /\ Cancelled(a).h = h'
        /\ Cancelled(a).due = pending'
    BY <1>5, <2>1 DEF Cancelled, Released, IsRunning, Holders
  <2>3. AreOwned(Cancelled(a).due, Cancelled(a).h)
    BY <1>4, CancelledSound
  <2> QED BY <2>2, <2>3
<1>8. call' \in [trampoline : {"on_alarm", "on_timer"}, e : TimerEntry]
  BY <1>4, <1>5 DEF Trampoline, TimerEntry
<1>9. TypeOK'
  BY <1>1, <1>5, <1>6, <1>8 DEF IInv, TypeOK, HType, DueType
<1>10. CallOwned'
  BY <1>5 DEF CallOwned, Trampoline
<1> QED BY <1>5, <1>6, <1>7, <1>9, <1>10 DEF IInv, PendingOwned, LowOnHandlesExact

(* A timer is set up again after its callback returned true. *)
LEMMA ReturnGoOnStep ==
    ASSUME IInv, ReturnGoOn
    PROVE  IInv'
<1>1. call.e \in TimerEntry
  BY DEF IInv, TypeOK, ReturnGoOn, NoCall
<1>2. call.e.pAlarm \in Alarms /\ call.e.cb \in Cbs
  BY <1>1 DEF TimerEntry
<1>3. SetupSound
  BY <1>2, SetupEffectSound DEF ReturnGoOn
<1>4. TypeOK'
  BY <1>3 DEF IInv, TypeOK, SetupSound, ReturnGoOn, HType, DueType
<1>5. CallOwned'
  BY DEF ReturnGoOn, CallOwned
<1> QED BY <1>3, <1>4, <1>5 DEF IInv, SetupSound, PendingOwned, LowOnHandlesExact

(* The restart: memory is as at the start. *)
LEMMA RebootStep ==
    ASSUME IInv, Reboot
    PROVE  IInv'
<1> USE AlarmAssumption
<1>1. /\ h' = [a \in Alarms |-> kInvalidHandle] /\ g_TimerList' = Create
      /\ peak' = 0 /\ pending' = {} /\ g_RunningOutOfHandles' = FALSE
      /\ call' = NoCall /\ g_CounterOfDeath' = kCounterOfDeathInactive
  BY DEF Reboot
<1>2. g_TimerList' \in ListType /\ Pool(g_TimerList', h', peak')
  BY <1>1, CreatePool
<1>3. TypeOK'
  <2>1. h' \in [Alarms -> Handles \cup {kInvalidHandle}] /\ peak' \in 0 .. kMaxSize
    BY <1>1
  <2>2. call' \in {NoCall} /\ g_CounterOfDeath' \in {kCounterOfDeathInactive}
        /\ g_RunningOutOfHandles' \in BOOLEAN
    BY <1>1
  <2>3. pending' \subseteq {"on_alarm", "on_timer"} \X Handles
    BY <1>1
  <2> QED BY <1>2, <2>1, <2>2, <2>3 DEF TypeOK
<1>4. AreOwned(pending', h')
  BY <1>1 DEF AreOwned
<1>5. LowOnHandlesExact'
  BY <1>1 DEF LowOnHandlesExact
<1>6. CallOwned'
  BY <1>1 DEF CallOwned
<1> QED BY <1>2, <1>3, <1>4, <1>5, <1>6 DEF IInv, PendingOwned

(* Every step. *)
LEMMA NextIInv == IInv /\ [Next]_vars => IInv'
<1> SUFFICES ASSUME IInv, [Next]_vars PROVE IInv'
  OBVIOUS
<1>1. ASSUME NEW a \in Alarms, NEW cb \in Cbs, Setup(a, cb) PROVE IInv'
  <2>1. SetupSound
    BY <1>1, SetupEffectSound DEF Setup
  <2>2. TypeOK'
    BY <1>1, <2>1 DEF IInv, TypeOK, SetupSound, Setup, HType, DueType
  <2>3. CallOwned'
    BY <1>1 DEF IInv, Setup, CallOwned, Trampoline
  <2> QED BY <2>1, <2>2, <2>3 DEF IInv, SetupSound, PendingOwned, LowOnHandlesExact
<1>2. ASSUME NEW a \in Alarms, Cancel(a) PROVE IInv'
  <2>1. /\ g_TimerList' \in ListType /\ h' \in HType /\ pending' \in DueType
        /\ Pool(g_TimerList', h', peak)
        /\ AreOwned(pending', h')
    BY <1>2, CancelledSound DEF Cancel
  <2>2. TypeOK'
    BY <1>2, <2>1 DEF IInv, TypeOK, Cancel, HType, DueType
  <2>3. CallOwned'
    BY <1>2 DEF IInv, Cancel, CallOwned, Trampoline
  <2> QED BY <1>2, <2>1, <2>2, <2>3 DEF IInv, Cancel, PendingOwned, LowOnHandlesExact
<1>3. ASSUME NEW p \in pending, OnScheduledAlarm(p[1], p[2]) PROVE IInv'
  BY <1>3, OnScheduledAlarmStep
<1>4. CASE ReturnGoOn
  BY <1>4, ReturnGoOnStep
<1>5. CASE ReturnStop
  BY <1>5 DEF IInv, TypeOK, ReturnStop, PendingOwned, CallOwned, LowOnHandlesExact
<1>6. CASE DeactivateCounterOfDeath
  BY <1>6 DEF IInv, TypeOK, DeactivateCounterOfDeath, PendingOwned, CallOwned,
              Trampoline, LowOnHandlesExact
<1>7. CASE CheckCounterOfDeath
  BY <1>7, AlarmAssumption DEF IInv, TypeOK, CheckCounterOfDeath, PendingOwned,
              CallOwned, Trampoline, LowOnHandlesExact
<1>8. CASE Tick
  <2>1. g_CounterOfDeath' \in 1 .. kCounterOfDeathValue
    <3>1. /\ g_CounterOfDeath \in 1 .. kCounterOfDeathValue
          /\ g_CounterOfDeath # 1
          /\ g_CounterOfDeath' = (g_CounterOfDeath - 1) % 256
      BY <1>8 DEF Tick, CountsDown, IInv, TypeOK
    <3>2. (g_CounterOfDeath - 1) % 256 = g_CounterOfDeath - 1
      BY <3>1, AlarmAssumption
    <3> QED BY <3>1, <3>2, AlarmAssumption
  <2> QED BY <1>8, <2>1 DEF IInv, TypeOK, Tick, PendingOwned, CallOwned,
                            Trampoline, LowOnHandlesExact
<1>9. CASE Reboot
  BY <1>9, RebootStep
<1>10. CASE UNCHANGED vars
  BY <1>10 DEF IInv, TypeOK, vars, PendingOwned, CallOwned, Trampoline,
               LowOnHandlesExact
<1> QED
  BY <1>1, <1>2, <1>3, <1>4, <1>5, <1>6, <1>7, <1>8, <1>9, <1>10
     DEF Next, CheckDeathCount

(* In every run of zb_alarm.hpp the pool of handles, what ZBOSS has scheduled
   and the shortage flag satisfy the inductive invariant. *)
THEOREM Invariance == Spec => []IInv
<1> QED BY InitIInv, NextIInv, PTL DEF Spec

(* All variables of the alarms have their types. *)
THEOREM TypeCorrect == Spec => []TypeOK
<1>1. IInv => TypeOK
  BY DEF IInv
<1> QED BY Invariance, <1>1, PTL

(* No handle is lost, held twice, or held and free at once. *)
THEOREM HandlesAreConserved == Spec => []HandlesConserved
<1>1. IInv => HandlesConserved
  BY DEF IInv, Pool, HandlesConserved
<1> QED BY Invariance, <1>1, PTL

(* ZBOSS only has calls scheduled for alarms that hold the handle, through
   their own trampoline. *)
THEOREM PendingIsOwned == Spec => []PendingOwned
<1>1. IInv => PendingOwned
  BY DEF IInv
<1> QED BY Invariance, <1>1, PTL

(* The shortage is noted exactly when more alarms than the threshold have run
   at once: the order of the list makes one handle number tell that. *)
THEOREM LowOnHandlesIsExact == Spec => []LowOnHandlesExact
<1>1. IInv => LowOnHandlesExact
  BY DEF IInv
<1> QED BY Invariance, <1>1, PTL

-----------------------------------------------------------------------------
(* Alarm implements AlarmService: the handles, the list of free ones and    *)
(* the entries of the trampolines cannot be seen from outside.              *)

(* The instance of FiniteSets that the service brings counts alike. *)
LEMMA SameCardinality ==
    ASSUME NEW S
    PROVE  Service!Cardinality(S) = Cardinality(S)
  BY DEF Service!Cardinality, Cardinality

(* The list is at its end exactly when as many alarms hold a handle as there
   are handles. *)
LEMMA EndOfList ==
    ASSUME NEW list \in ListType, NEW hh \in HType, NEW m \in 0 .. kMaxSize,
           Pool(list, hh, m)
    PROVE  /\ Cardinality(Holders(hh)) \in 0 .. kMaxSize
           /\ list.head = kFull <=> Cardinality(Holders(hh)) = kMaxSize
<1>1. PICK n \in 0 .. kMaxSize : \E s \in [1 .. n -> Handles] :
         IsFreeList(list, hh, n, s) /\ n + Cardinality(Holders(hh)) = kMaxSize
  BY DEF Pool
<1>2. PICK s \in [1 .. n -> Handles] :
         IsFreeList(list, hh, n, s) /\ n + Cardinality(Holders(hh)) = kMaxSize
  BY <1>1
<1>3. Cardinality(Holders(hh)) \in Nat
  <2>1. IsFiniteSet(Holders(hh))
    BY AlarmAssumption, FS_Subset DEF Holders
  <2> QED BY <2>1, FS_CardinalityType
<1>4. list.head = kFull <=> n = 0
  <2>1. CASE n = 0
    BY <2>1, <1>2 DEF IsFreeList
  <2>2. CASE n # 0
    <3>1. s[1] \in Handles /\ list.head = s[1]
      BY <2>2, <1>2 DEF IsFreeList
    <3> QED BY <2>2, <3>1, AlarmAssumption DEF Handles, kFull
  <2> QED BY <2>1, <2>2
<1> QED BY <1>2, <1>3, <1>4, AlarmAssumption

(* An alarm that holds no handle is not armed. *)
LEMMA ArmedHolds ==
    ASSUME IInv, NEW a \in Alarms, Armed(a)
    PROVE  a \in Holders(h)
<1>1. h[a] \in Handles
  BY DEF IInv, TypeOK, Armed
<1> QED BY <1>1, AlarmAssumption DEF Holders, Handles, kInvalidHandle, kFull

(* Cancel(a) takes nothing from the other alarms: they keep their handles,
   their entries and the calls ZBOSS has scheduled. *)
LEMMA CancelledFrame ==
    ASSUME IInv, NEW a \in Alarms, NEW b \in Alarms, a # b
    PROVE  LET c == Cancelled(a)
           IN  /\ c.h[b] = h[b]
               /\ <<Trampoline(b), h[b]>> \in c.due <=> Armed(b)
               /\ b \in Holders(h) =>
                    c.list.entries[h[b]] = g_TimerList.entries[h[b]]
<1>1. g_TimerList \in ListType /\ h \in HType /\ EntriesOwned(g_TimerList, h)
  BY DEF IInv, TypeOK, HType, Pool
<1>2. CASE a \in Holders(h)
  <2>1. Cancelled(a) = [list |-> Freed(g_TimerList, h[a]),
                        h    |-> [h EXCEPT ![a] = kInvalidHandle],
                        due  |-> pending \ {<<Trampoline(a), h[a]>>}]
    BY <1>2 DEF Cancelled, Released, IsRunning, Holders
  <2>2. h[a] # h[b]
    <3>1. CASE b \in Holders(h)
      BY <3>1, <1>1, <1>2 DEF EntriesOwned
    <3>2. CASE b \notin Holders(h)
      BY <3>2, <1>2 DEF Holders
    <3> QED BY <3>1, <3>2
  <2>3. Cancelled(a).h[b] = h[b]
    BY <2>1, <1>1 DEF HType
  <2>4. <<Trampoline(b), h[b]>> \in Cancelled(a).due <=> Armed(b)
    BY <2>1, <2>2 DEF Armed
  <2>5. b \in Holders(h) =>
          Cancelled(a).list.entries[h[b]] = g_TimerList.entries[h[b]]
    BY <2>1, <2>2, <1>1 DEF Freed, ListType, HType, Holders
  <2> QED BY <2>3, <2>4, <2>5
<1>3. CASE a \notin Holders(h)
  <2>1. Cancelled(a) = [list |-> g_TimerList, h |-> h, due |-> pending]
    BY <1>3 DEF Cancelled, IsRunning, Holders
  <2> QED BY <2>1 DEF Armed
<1> QED BY <1>2, <1>3

(* ... and a itself has given its handle back. *)
LEMMA CancelledHolders ==
    ASSUME IInv, NEW a \in Alarms
    PROVE  /\ Holders(Cancelled(a).h) = Holders(h) \ {a}
           /\ <<Trampoline(a), Cancelled(a).h[a]>> \notin Cancelled(a).due
<1>1. h \in HType /\ pending \in DueType
  BY DEF IInv, TypeOK, HType, DueType
<1>2. Holders(Cancelled(a).h) = Holders(h) \ {a}
  <2>1. Holders([h EXCEPT ![a] = kInvalidHandle]) = Holders(h) \ {a}
    BY <1>1, HoldersChange
  <2>2. CASE a \in Holders(h)
    BY <2>1, <2>2 DEF Cancelled, Released, IsRunning, Holders
  <2>3. CASE a \notin Holders(h)
    <3>1. Cancelled(a).h = h
      BY <2>3 DEF Cancelled, IsRunning, Holders
    <3> QED BY <2>3, <3>1
  <2> QED BY <2>2, <2>3
<1>3. Cancelled(a).h[a] = kInvalidHandle
  <2>1. a \notin Holders(Cancelled(a).h)
    BY <1>2
  <2> QED BY <2>1 DEF Holders
<1>4. kInvalidHandle \notin Handles
  BY AlarmAssumption DEF Handles, kInvalidHandle, kFull
<1>5. Cancelled(a).due \in DueType
  BY CancelledSound
<1> QED BY <1>2, <1>3, <1>4, <1>5 DEF DueType

-----------------------------------------------------------------------------
(* The steps. *)

(* Setup with a handle arms a, or leaves it refused with its slot taken. *)
LEMMA TakeHandleArms ==
    ASSUME IInv, NEW a \in Alarms, NEW cb \in Cbs, NEW accepted \in BOOLEAN,
           TakeHandle(a, cb, accepted)
    PROVE  /\ a \in Holders(h) \/ Cardinality(Holders(h)) < kMaxSize
           /\ Holders(h') = Holders(h) \cup {a}
           /\ ArmedWith' = [ArmedWith EXCEPT ![a] =
                              IF accepted THEN <<cb>> ELSE <<>>]
<1> DEFINE c == Cancelled(a)
           hd == c.list.head
<1>1. /\ c.list \in ListType /\ c.h \in HType /\ c.due \in DueType
      /\ Pool(c.list, c.h, peak) /\ a \notin Holders(c.h) /\ peak \in 0 .. kMaxSize
  BY CancelledSound DEF IInv, TypeOK
<1>2. /\ hd # kFull
      /\ g_TimerList' = Allocated(c.list, [pAlarm |-> a, cb |-> cb])
      /\ h' = [c.h EXCEPT ![a] = hd]
      /\ pending' = IF accepted THEN c.due \cup {<<Trampoline(a), hd>>} ELSE c.due
  BY DEF TakeHandle, Scheduled
<1>3. hd \in Handles
  BY <1>1, <1>2, AllocatedPool
<1>4. Holders(c.h) = Holders(h) \ {a}
  BY CancelledHolders
<1>5. a \in Holders(h) \/ Cardinality(Holders(h)) < kMaxSize
  <2>1. Cardinality(Holders(c.h)) # kMaxSize /\ Cardinality(Holders(c.h)) \in 0 .. kMaxSize
    BY <1>1, <1>2, EndOfList
  <2>2. a \notin Holders(h) => Holders(c.h) = Holders(h)
    BY <1>4
  <2> HIDE DEF c
  <2> QED BY <2>1, <2>2, AlarmAssumption
<1>6. Holders(h') = Holders(h) \cup {a}
  <2>1. Holders(h') = Holders(c.h) \cup {a}
    BY <1>1, <1>2, <1>3, HoldersChange
  <2> QED BY <1>4, <2>1
<1>7. \A b \in Holders(c.h) : c.h[b] \in Handles /\ c.h[b] # hd
  \* A free handle is not held.
  <2>1. PICK n \in 0 .. kMaxSize : \E s \in [1 .. n -> Handles] :
           IsFreeList(c.list, c.h, n, s)
    BY <1>1 DEF Pool
  <2>2. PICK s \in [1 .. n -> Handles] : IsFreeList(c.list, c.h, n, s)
    BY <2>1
  <2> HIDE DEF c
  <2>3. 1 \in 1 .. n /\ s[1] = hd
    BY <1>2, <2>2 DEF IsFreeList
  <2>4. \A b \in Alarms : c.h[b] # hd
    BY <1>3, <2>2, <2>3 DEF IsFreeList
  <2> QED BY <1>1, <2>4 DEF Holders, HType
<1>8. Armed(a)' <=> accepted
  <2>1. h'[a] = hd /\ Trampoline(a)' = Trampoline(a)
    BY <1>1, <1>2 DEF HType, Trampoline
  <2>2. <<Trampoline(a), hd>> \notin c.due
    <3>1. AreOwned(c.due, c.h)
      BY CancelledSound
    <3>2. ASSUME <<Trampoline(a), hd>> \in c.due PROVE FALSE
      <4>1. PICK b \in Holders(c.h) : <<Trampoline(a), hd>> = <<Trampoline(b), c.h[b]>>
        BY <3>1, <3>2 DEF AreOwned
      <4> QED BY <4>1, <1>7
    <3> QED BY <3>2
  <2> QED BY <1>2, <2>1, <2>2 DEF Armed
<1>9. g_TimerList'.entries[h'[a]] = [pAlarm |-> a, cb |-> cb]
  BY <1>1, <1>2, <1>3 DEF Allocated, ListType, HType
<1>10. ASSUME NEW b \in Alarms, b # a
       PROVE  /\ Armed(b)' <=> Armed(b)
              /\ Armed(b) => g_TimerList'.entries[h'[b]] = g_TimerList.entries[h[b]]
  <2>1. /\ c.h[b] = h[b]
        /\ <<Trampoline(b), h[b]>> \in c.due <=> Armed(b)
        /\ b \in Holders(h) => c.list.entries[h[b]] = g_TimerList.entries[h[b]]
    BY <1>10, CancelledFrame
  <2>2. h'[b] = h[b]
    BY <1>1, <1>2, <1>10, <2>1 DEF HType
  <2>3. <<Trampoline(b), h[b]>> # <<Trampoline(a), hd>>
    <3>1. CASE b \in Holders(c.h)
      BY <3>1, <1>7, <2>1
    <3>2. CASE b \notin Holders(c.h)
      BY <3>2, <1>3, <2>1, AlarmAssumption
         DEF Holders, Handles, kInvalidHandle, kFull
    <3> QED BY <3>1, <3>2
  <2>4. Armed(b)' <=> Armed(b)
    BY <1>2, <2>1, <2>2, <2>3 DEF Armed, Trampoline
  <2>5. ASSUME Armed(b)
        PROVE  g_TimerList'.entries[h'[b]] = g_TimerList.entries[h[b]]
    <3>1. b \in Holders(h) /\ b \in Holders(c.h)
      BY <2>5, <1>4, <1>10, ArmedHolds
    <3>2. h[b] # hd /\ h[b] \in Handles
      BY <3>1, <1>7, <2>1
    <3>3. g_TimerList'.entries[h[b]] = c.list.entries[h[b]]
      BY <1>1, <1>2, <3>2 DEF Allocated, ListType
    <3> QED BY <2>1, <2>2, <3>1, <3>3
  <2> QED BY <2>4, <2>5
<1>11. ArmedWith' = [ArmedWith EXCEPT ![a] = IF accepted THEN <<cb>> ELSE <<>>]
  <2>1. ArmedWith'[a] = IF accepted THEN <<cb>> ELSE <<>>
    BY <1>8, <1>9 DEF ArmedWith
  <2>2. ASSUME NEW b \in Alarms, b # a PROVE ArmedWith'[b] = ArmedWith[b]
    BY <1>10, <2>2 DEF ArmedWith
  <2>3. /\ ArmedWith = [b \in Alarms |-> ArmedWith[b]]
        /\ ArmedWith' = [b \in Alarms |-> ArmedWith'[b]]
    BY DEF ArmedWith
  <2> QED BY <2>1, <2>2, <2>3
<1> QED BY <1>5, <1>6, <1>11

(* Setup is a step of the service. *)
LEMMA SetupArms ==
    ASSUME IInv, NEW a \in Alarms, NEW cb \in Cbs, SetupEffect(a, cb)
    PROVE  Service!Arms(a, cb)
<1>1. CASE TakeHandle(a, cb, TRUE)
  <2>1. /\ a \in Holders(h) \/ Cardinality(Holders(h)) < kMaxSize
        /\ Holders(h') = Holders(h) \cup {a}
        /\ ArmedWith' = [ArmedWith EXCEPT ![a] = IF TRUE THEN <<cb>> ELSE <<>>]
    BY <1>1, TakeHandleArms
  <2> QED BY <2>1, SameCardinality DEF Service!Arms
<1>2. CASE ScheduleMayFail /\ TakeHandle(a, cb, FALSE)
  <2>1. /\ a \in Holders(h) \/ Cardinality(Holders(h)) < kMaxSize
        /\ Holders(h') = Holders(h) \cup {a}
        /\ ArmedWith' = [ArmedWith EXCEPT ![a] = IF FALSE THEN <<cb>> ELSE <<>>]
    BY <1>2, TakeHandleArms
  <2> QED BY <1>2, <2>1, SameCardinality DEF Service!Arms
<1>3. CASE NoHandle(a)
  <2>1. /\ Cancelled(a).list.head = kFull
        /\ g_TimerList' = Cancelled(a).list
        /\ h' = Cancelled(a).h
        /\ pending' = Cancelled(a).due
    BY <1>3 DEF NoHandle
  <2>2. Cardinality(Holders(Cancelled(a).h)) = kMaxSize
    BY <2>1, CancelledSound, EndOfList DEF IInv, TypeOK
  <2>3. a \notin Holders(h)
    <3>1. Cardinality(Holders(h)) \in 0 .. kMaxSize /\ IsFiniteSet(Holders(h))
      BY EndOfList, HoldersChange DEF IInv, TypeOK, HType
    <3>2. a \in Holders(h) => Cardinality(Holders(h) \ {a}) = Cardinality(Holders(h)) - 1
      BY <3>1, FS_RemoveElement
    <3>3. Holders(Cancelled(a).h) = Holders(h) \ {a}
      BY CancelledHolders
    <3> QED BY <2>2, <3>1, <3>2, <3>3, AlarmAssumption
  <2>4. Cancelled(a) = [list |-> g_TimerList, h |-> h, due |-> pending]
    BY <2>3 DEF Cancelled, IsRunning, Holders
  <2>5. UNCHANGED <<g_TimerList, h, pending>>
    BY <2>1, <2>4
  <2>6. ArmedWith' = ArmedWith /\ Holders(h') = Holders(h)
    BY <2>5 DEF ArmedWith, Armed
  <2>7. Cardinality(Holders(h)) = kMaxSize
    BY <2>2, <2>4
  <2> QED BY <2>3, <2>6, <2>7, SameCardinality DEF Service!Arms
<1> QED BY <1>1, <1>2, <1>3 DEF SetupEffect

(* Cancel is a step of the service. *)
LEMMA CancelDisarms ==
    ASSUME IInv, NEW a \in Alarms,
           g_TimerList' = Cancelled(a).list, h' = Cancelled(a).h,
           pending' = Cancelled(a).due
    PROVE  /\ ArmedWith' = [ArmedWith EXCEPT ![a] = <<>>]
           /\ Holders(h') = Holders(h) \ {a}
<1>1. ~ Armed(a)'
  BY CancelledHolders DEF Armed, Trampoline
<1>2. ASSUME NEW b \in Alarms, b # a
      PROVE  /\ Armed(b)' <=> Armed(b)
             /\ Armed(b) => g_TimerList'.entries[h'[b]] = g_TimerList.entries[h[b]]
  BY <1>2, CancelledFrame, ArmedHolds DEF Armed, Trampoline
<1>3. ArmedWith' = [ArmedWith EXCEPT ![a] = <<>>]
  BY <1>1, <1>2 DEF ArmedWith
<1> QED BY <1>3, CancelledHolders

(* Entering a callback is the expiry of an alarm that is armed. *)
LEMMA OnScheduledAlarmExpires ==
    ASSUME IInv, NEW p \in pending, OnScheduledAlarm(p[1], p[2])
    PROVE  \E a \in Alarms : Service!Expire(a)
<1>1. /\ AreOwned(pending, h) /\ EntriesOwned(g_TimerList, h)
  BY DEF IInv, PendingOwned, Pool
<1>2. PICK a \in Holders(h) : p = <<Trampoline(a), h[a]>>
  BY <1>1 DEF AreOwned
<1>3. PICK cb \in Cbs : g_TimerList.entries[h[a]] = [pAlarm |-> a, cb |-> cb]
  BY <1>1 DEF EntriesOwned
<1>4. a \in Alarms /\ Armed(a)
  BY <1>2 DEF Holders, Armed
<1>5. p[1] = Trampoline(a) /\ p[2] = h[a]
  BY <1>2
<1>6. /\ call = NoCall
      /\ g_TimerList' = Freed(g_TimerList, h[a])
      /\ h' = [h EXCEPT ![a] = kInvalidHandle]
      /\ pending' = pending \ {<<Trampoline(a), h[a]>>}
      /\ call' = [trampoline |-> Trampoline(a), e |-> [pAlarm |-> a, cb |-> cb]]
  <2>1. g_TimerList.entries[p[2]].pAlarm = a
    BY <1>3, <1>5
  <2> QED BY <1>3, <1>5, <2>1 DEF OnScheduledAlarm, Released
<1>7. /\ g_TimerList' = Cancelled(a).list
      /\ h' = Cancelled(a).h
      /\ pending' = Cancelled(a).due
  BY <1>6, <1>4 DEF Cancelled, Released, IsRunning, Holders
<1>8. /\ ArmedWith' = [ArmedWith EXCEPT ![a] = <<>>]
      /\ Holders(h') = Holders(h) \ {a}
  BY <1>4, <1>7, CancelDisarms
<1>9. ServedNow = <<>> /\ ServedNow' = <<a, cb>>
  <2>1. call' # NoCall
    BY <1>6 DEF NoCall, Trampoline
  <2> QED BY <1>6, <2>1 DEF ServedNow
<1>10. ArmedWith[a] = <<cb>>
  BY <1>3, <1>4 DEF ArmedWith
<1>11. Service!Expire(a)
  BY <1>8, <1>9, <1>10 DEF Service!Expire
<1> QED BY <1>4, <1>11

(* Every step of the alarms is a step of the service or hidden from it. *)
LEMMA NextService ==
    ASSUME IInv, [Next]_vars
    PROVE  [Service!Next]_<<ArmedWith, Holders(h), ServedNow>>
<1> USE DEF Service!Next
<1>1. ASSUME NEW a \in Alarms, NEW cb \in Cbs, Setup(a, cb)
      PROVE  Service!Next
  <2>1. Service!Arms(a, cb)
    BY <1>1, SetupArms DEF Setup
  <2>2. ServedNow' = ServedNow
    BY <1>1 DEF Setup, ServedNow
  <2> QED BY <2>1, <2>2 DEF Service!Setup
<1>2. ASSUME NEW a \in Alarms, Cancel(a) PROVE Service!Next
  <2>1. ServedNow' = ServedNow
    BY <1>2 DEF Cancel, ServedNow
  <2> QED BY <1>2, <2>1, CancelDisarms DEF Cancel, Service!Cancel
<1>3. ASSUME NEW p \in pending, OnScheduledAlarm(p[1], p[2]) PROVE Service!Next
  BY <1>3, OnScheduledAlarmExpires
<1>4. CASE ReturnGoOn
  <2>1. call \in [trampoline : {"on_alarm", "on_timer"}, e : TimerEntry]
    BY <1>4 DEF ReturnGoOn, IInv, TypeOK, NoCall
  <2>2. call.e.pAlarm \in Alarms /\ call.e.cb \in Cbs
    BY <2>1 DEF TimerEntry
  <2>3. Service!Arms(call.e.pAlarm, call.e.cb)
    BY <1>4, <2>2, SetupArms DEF ReturnGoOn
  <2>4. /\ ServedNow = <<call.e.pAlarm, call.e.cb>> /\ ServedNow # <<>>
        /\ ServedNow' = <<>>
    BY <1>4 DEF ReturnGoOn, ServedNow
  <2>5. call.e.pAlarm \in Timers
    BY <1>4 DEF ReturnGoOn, IInv, CallOwned, Trampoline
  <2>6. ServedNow[1] = call.e.pAlarm /\ ServedNow[2] = call.e.cb
    BY <2>4
  <2>7. Service!GoOn
    BY <2>3, <2>4, <2>5, <2>6 DEF Service!GoOn
  <2> QED BY <2>7
<1>5. CASE ReturnStop
  <2>1. ServedNow # <<>> /\ ServedNow' = <<>>
    BY <1>5 DEF ReturnStop, ServedNow
  <2>2. UNCHANGED <<ArmedWith, Holders(h)>>
    BY <1>5 DEF ReturnStop, ArmedWith, Armed, Trampoline, Holders
  <2>3. Service!Return
    BY <2>1, <2>2 DEF Service!Return
  <2> QED BY <2>3
<1>6. CASE Reboot
  <2>1. ServedNow' = <<>>
    BY <1>6 DEF Reboot, ServedNow
  <2>2. ArmedWith' = [a \in Alarms |-> <<>>]
    <3>1. \A a \in Alarms : ~ Armed(a)'
      BY <1>6 DEF Reboot, Armed
    <3> QED BY <3>1 DEF ArmedWith
  <2>3. Holders(h') = {}
    BY <1>6 DEF Reboot, Holders
  <2>4. Service!Restart
    BY <2>1, <2>2, <2>3 DEF Service!Restart
  <2> QED BY <2>4
<1>7. ASSUME UNCHANGED <<g_TimerList, h, pending, call>>
      PROVE  UNCHANGED <<ArmedWith, Holders(h), ServedNow>>
  BY <1>7 DEF ArmedWith, Armed, Trampoline, Holders, ServedNow
<1>8. CASE DeactivateCounterOfDeath \/ CheckCounterOfDeath \/ Tick
           \/ UNCHANGED vars
  BY <1>7, <1>8 DEF DeactivateCounterOfDeath, CheckCounterOfDeath, Tick, vars
<1> QED
  BY <1>1, <1>2, <1>3, <1>4, <1>5, <1>6, <1>8 DEF Next, CheckDeathCount

(* zb_alarm.hpp implements the service: nothing of the handles can be seen by
   the application, for any number of alarms and handles. *)
THEOREM AlarmImplementsService == Spec => ImplementsService
<1>1. Init => Service!Init
  <2> SUFFICES ASSUME Init PROVE Service!Init
    OBVIOUS
  <2>1. \A a \in Alarms : ~ Armed(a)
    BY DEF Init, Armed
  <2>2. ArmedWith = [a \in Alarms |-> <<>>]
    BY <2>1 DEF ArmedWith
  <2>3. Holders(h) = {} /\ ServedNow = <<>>
    BY DEF Init, Holders, ServedNow
  <2> QED BY <2>2, <2>3 DEF Service!Init
<1>2. IInv /\ [Next]_vars => [Service!Next]_<<ArmedWith, Holders(h), ServedNow>>
  BY NextService
<1> QED BY <1>1, <1>2, Invariance, PTL DEF Spec, ImplementsService, Service!Spec

-----------------------------------------------------------------------------
(* The program is one of those Alarm describes. *)

(* A configuration sets its alarm up, or leaves the alarms alone. *)
LEMMA ConfigureIsSetup ==
    ASSUME NEW c \in PollClusters, configure_poll_control(c)
    PROVE  [Setup(g_EnterLowPowerLongPollMode, EnterLowPower)]_vars
BY DEF configure_poll_control, SleepLater, SleepAtOnce, StayAwake, Setup

LEMMA StartStep ==
    ASSUME [StartNext]_app_vars
    PROVE  [Next]_vars
<1>1. ASSUME NEW s \in SignalIds, NEW status \in {"ok", "error"},
             tpl_signal_handler(s, status)
      PROVE  [Next]_vars
  <2>1. PICK c \in PollClusters : configure_poll_control(c)
    BY <1>1 DEF tpl_signal_handler
  <2>2. g_EnterLowPowerLongPollMode \in Alarms /\ EnterLowPower \in Cbs
    BY PollControlAssumption
  <2> QED BY <2>1, <2>2, ConfigureIsSetup DEF Next
<1>2. ASSUME NEW p \in pending, OnAlarm(p[1], p[2])
      PROVE  Next
  BY <1>2 DEF OnAlarm, Next
<1>3. CASE Restarts
  BY <1>3 DEF Restarts, Next, CheckDeathCount
<1>4. CASE UNCHANGED app_vars
  BY <1>4 DEF app_vars
<1> QED BY <1>1, <1>2, <1>3, <1>4
        DEF StartNext, Own, AppAlarms, Next, CheckDeathCount

THEOREM StartIsAlarm == StartSpec => Spec
<1>1. StartInit => Init
  BY DEF StartInit
<1> QED BY <1>1, StartStep, PTL DEF StartSpec, Spec

(* What is proved of Alarm holds while clusters are configured. *)
THEOREM StartTypeCorrect == StartSpec => []TypeOK
BY StartIsAlarm, TypeCorrect, PTL

(* No configuration loses a handle or shares one, ... *)
THEOREM StartConservesHandles == StartSpec => []HandlesConserved
BY StartIsAlarm, HandlesAreConserved, PTL

(* ... leaves ZBOSS a call that is not its alarm's, ... *)
THEOREM StartPendingOwned == StartSpec => []PendingOwned
BY StartIsAlarm, PendingIsOwned, PTL

(* ... or goes unnoticed when it takes one of the last handles, ... *)
THEOREM StartLowOnHandlesExact == StartSpec => []LowOnHandlesExact
BY StartIsAlarm, LowOnHandlesIsExact, PTL

(* ... and the alarms keep their promise to the rest of the application. *)
THEOREM StartImplementsService == StartSpec => ImplementsService
BY StartIsAlarm, AlarmImplementsService, PTL

-----------------------------------------------------------------------------
(* The alarm of configure_poll_control. *)

SleepAlarm == g_EnterLowPowerLongPollMode

\* The function the alarm will call is that of a cluster; and if the last
\* configuration got its alarm the cluster is its own, the first interval stays
\* in place until the alarm is called, and the one asked for from then on.
AlarmHasItsCluster ==
    /\ configured \in {<<>>} \cup (PollClusters \X BOOLEAN)
    /\ Armed(SleepAlarm) => m_Callback \in PollClusters
    /\ configured # <<>> /\ configured[2] =>
          /\ m_Callback = configured[1]
          /\ Armed(SleepAlarm) => poll = cfg[configured[1]].long_poll_at_start
          /\ ~ Armed(SleepAlarm) => Settled

\* Once the alarm of the last configuration has been called, ZBOSS polls as
\* that configuration asked for.
SettledOnceCalled ==
    configured # <<>> /\ configured[2] /\ ~ Armed(SleepAlarm) => Settled

(* ArmedWith says of every alarm whether it is armed. *)
LEMMA ArmedWithArmed ==
    \A a \in Alarms : /\ Armed(a) <=> ArmedWith[a] # <<>>
                      /\ Armed(a)' <=> ArmedWith'[a] # <<>>
BY DEF ArmedWith, Armed, Trampoline

(* The application's alarms are set up without touching the others. *)
LEMMA OthersStayArmed ==
    ASSUME IInv, NEW a \in Alarms, NEW cb \in Cbs, SetupEffect(a, cb),
           NEW b \in Alarms, b # a
    PROVE  Armed(b)' <=> Armed(b)
<1>1. Service!Arms(a, cb)
  BY SetupArms
<1>2. ArmedWith \in [Alarms -> {ArmedWith[x] : x \in Alarms}]
  BY DEF ArmedWith
<1>3. ArmedWith'[b] = ArmedWith[b]
  BY <1>1, <1>2 DEF Service!Arms
<1> QED BY <1>3, ArmedWithArmed

(* EnterLowPower leaves the interval of its cluster, in milliseconds. *)
LEMMA EntersItsInterval ==
    ASSUME NEW c \in PollClusters, long_poll_interval[c] # Never,
           long_poll_interval[c] * 1000 < kU32, NEW p
    PROVE  EntersLowPower(c, p) * 4 = long_poll_interval[c] * 1000
<1>1. long_poll_interval[c] \in Nat
  BY PollControlAssumption
<1>2. (long_poll_interval[c] * 1000) % kU32 = long_poll_interval[c] * 1000
  BY <1>1, PollControlAssumption
<1>3. ((long_poll_interval[c] * 1000) \div 4) * 4 = long_poll_interval[c] * 1000
  BY <1>1
<1> QED BY <1>2, <1>3 DEF EntersLowPower, LowPower

LEMMA ConfigureKeepsCluster ==
    ASSUME NEW c \in PollClusters, configure_poll_control(c), AlarmHasItsCluster
    PROVE  AlarmHasItsCluster'
<1>1. CASE SleepLater(c)
  <2>1. configured' = <<c, Armed(SleepAlarm)'>> /\ Armed(SleepAlarm)' \in BOOLEAN
    BY <1>1 DEF SleepLater, SleepAlarm, Armed
  <2>2. m_Callback' = c /\ poll' = cfg[c].long_poll_at_start
    BY <1>1 DEF SleepLater, Captured
  <2> QED BY <2>1, <2>2 DEF AlarmHasItsCluster
<1>2. CASE SleepAtOnce(c) \/ StayAwake(c)
  <2>1. configured' = <<c, FALSE>> /\ m_Callback' = m_Callback
    BY <1>2 DEF SleepAtOnce, StayAwake
  <2>2. Armed(SleepAlarm)' <=> Armed(SleepAlarm)
    BY <1>2 DEF SleepAtOnce, StayAwake, vars, Armed
  <2> QED BY <2>1, <2>2 DEF AlarmHasItsCluster
<1> QED BY <1>1, <1>2 DEF configure_poll_control

(* An alarm is called: the one that was armed, and only that one. *)
LEMMA CalledKeepsCluster ==
    ASSUME IInv, NEW p \in pending, OnAlarm(p[1], p[2]), AlarmHasItsCluster
    PROVE  AlarmHasItsCluster'
<1>1. PICK a \in Alarms : Service!Expire(a)
  BY OnScheduledAlarmExpires DEF OnAlarm
<1>2. /\ Armed(a) /\ ~ Armed(a)'
      /\ \A b \in Alarms \ {a} : Armed(b)' <=> Armed(b)
  <2>1. /\ ArmedWith[a] # <<>>
        /\ ArmedWith' = [ArmedWith EXCEPT ![a] = <<>>]
    BY <1>1 DEF Service!Expire
  <2>2. ArmedWith \in [Alarms -> {ArmedWith[x] : x \in Alarms}]
    BY DEF ArmedWith
  <2> QED BY <2>1, <2>2, ArmedWithArmed
<1>3. call'.e.pAlarm = a
  <2>1. ServedNow' = <<a, ArmedWith[a][1]>>
    BY <1>1 DEF Service!Expire
  <2> QED BY <2>1 DEF ServedNow
<1>4. UNCHANGED <<m_Callback, configured>>
  BY DEF OnAlarm
<1>5. SleepAlarm \in Alarms
  BY PollControlAssumption DEF SleepAlarm
<1>6. CASE a # SleepAlarm
  <2>1. poll' = poll
    BY <1>3, <1>6 DEF OnAlarm, SleepAlarm
  <2>2. Armed(SleepAlarm)' <=> Armed(SleepAlarm)
    BY <1>2, <1>5, <1>6
  <2> QED BY <1>4, <2>1, <2>2 DEF AlarmHasItsCluster, Settled, IsLowPower
<1>7. CASE a = SleepAlarm
  <2>1. poll' = EntersLowPower(m_Callback, poll)
    BY <1>3, <1>7 DEF OnAlarm, SleepAlarm
  <2>2. Armed(SleepAlarm) /\ ~ Armed(SleepAlarm)'
    BY <1>2, <1>7
  <2>3. ASSUME configured # <<>>, configured[2]
        PROVE  Settled'
    <3>1. PICK c \in PollClusters : /\ c = configured[1] /\ c = m_Callback
                                    /\ poll = cfg[c].long_poll_at_start
      BY <2>2, <2>3 DEF AlarmHasItsCluster
    <3>2. CASE long_poll_interval[c] = Never
      <4>1. poll' = cfg[c].long_poll_at_start
        BY <2>1, <3>1, <3>2 DEF EntersLowPower
      <4> QED BY <1>4, <3>1, <3>2, <4>1 DEF Settled
    <3>3. CASE long_poll_interval[c] # Never
      <4>1. long_poll_interval[c] * 1000 < kU32 => poll' * 4 = long_poll_interval[c] * 1000
        BY <2>1, <3>1, <3>3, EntersItsInterval
      <4> QED BY <1>4, <3>1, <3>3, <4>1 DEF Settled, IsLowPower
    <3> QED BY <3>2, <3>3
  <2> QED BY <1>4, <2>2, <2>3 DEF AlarmHasItsCluster
<1> QED BY <1>6, <1>7

LEMMA StartKeepsCluster ==
    ASSUME IInv, AlarmHasItsCluster, [StartNext]_app_vars
    PROVE  AlarmHasItsCluster'
<1>1. SleepAlarm \in Alarms \ Timers
  BY PollControlAssumption DEF SleepAlarm
<1>2. ASSUME UNCHANGED <<poll, m_Callback, configured>>, Armed(SleepAlarm)' <=> Armed(SleepAlarm)
      PROVE  AlarmHasItsCluster'
  BY <1>2 DEF AlarmHasItsCluster, Settled, IsLowPower
<1>3. ASSUME NEW a \in AppAlarms, NEW cb \in Cbs \ {EnterLowPower}, Own(Setup(a, cb))
      PROVE  AlarmHasItsCluster'
  <2>1. Armed(SleepAlarm)' <=> Armed(SleepAlarm)
    BY <1>1, <1>3, OthersStayArmed DEF Own, Setup, AppAlarms, SleepAlarm
  <2> QED BY <1>2, <1>3, <2>1 DEF Own
<1>4. ASSUME NEW a \in AppAlarms, Own(Cancel(a))
      PROVE  AlarmHasItsCluster'
  <2>1. ArmedWith' = [ArmedWith EXCEPT ![a] = <<>>]
    BY <1>4, CancelDisarms DEF Own, Cancel, AppAlarms
  <2>2. ArmedWith \in [Alarms -> {ArmedWith[x] : x \in Alarms}] /\ a # SleepAlarm
    BY DEF ArmedWith, AppAlarms, SleepAlarm
  <2>3. Armed(SleepAlarm)' <=> Armed(SleepAlarm)
    BY <1>1, <2>1, <2>2, ArmedWithArmed
  <2> QED BY <1>2, <1>4, <2>3 DEF Own
<1>5. CASE Own(ReturnGoOn)
  <2>1. /\ call.e \in TimerEntry /\ call.trampoline = Trampoline(call.e.pAlarm)
        /\ call.trampoline = "on_timer"
    BY <1>5 DEF Own, ReturnGoOn, IInv, TypeOK, NoCall, CallOwned
  <2>2. call.e.pAlarm \in Alarms /\ call.e.cb \in Cbs /\ call.e.pAlarm # SleepAlarm
    BY <1>1, <2>1 DEF TimerEntry, Trampoline
  <2>3. Armed(SleepAlarm)' <=> Armed(SleepAlarm)
    BY <1>1, <1>5, <2>2, OthersStayArmed DEF Own, ReturnGoOn
  <2> QED BY <1>2, <1>5, <2>3 DEF Own
<1>6. CASE \/ Own(ReturnStop) \/ Own(DeactivateCounterOfDeath)
           \/ Own(CheckCounterOfDeath) \/ Own(Tick) \/ UNCHANGED app_vars
  <2>1. /\ UNCHANGED <<h, pending>> /\ UNCHANGED <<poll, m_Callback, configured>>
    BY <1>6 DEF Own, ReturnStop, DeactivateCounterOfDeath, CheckCounterOfDeath, Tick,
                app_vars, vars
  <2>2. Armed(SleepAlarm)' <=> Armed(SleepAlarm)
    BY <2>1 DEF Armed
  <2> QED BY <1>2, <2>1, <2>2
<1>7. CASE Restarts
  BY <1>7 DEF Restarts, Reboot, AlarmHasItsCluster, Armed
<1>8. ASSUME NEW s \in SignalIds, NEW status \in {"ok", "error"},
             tpl_signal_handler(s, status)
      PROVE  AlarmHasItsCluster'
  BY <1>8, ConfigureKeepsCluster DEF tpl_signal_handler
<1> QED BY <1>3, <1>4, <1>5, <1>6, <1>7, <1>8, CalledKeepsCluster DEF StartNext

THEOREM ClusterInvariance == StartSpec => []AlarmHasItsCluster
<1>1. StartInit => AlarmHasItsCluster
  BY DEF StartInit, Init, AlarmHasItsCluster, Armed
<1>2. StartSpec => []IInv
  BY StartIsAlarm, Invariance, PTL
<1> QED BY <1>1, <1>2, StartKeepsCluster, PTL DEF StartSpec

(* The safety half of PollSettles: whatever the application's alarms do, and
   whichever cluster was configured before, once the alarm of the last
   configuration has been called its interval is in place, for any clusters and
   any intervals. *)
THEOREM IntervalsSettle == StartSpec => []SettledOnceCalled
<1>1. AlarmHasItsCluster => SettledOnceCalled
  BY DEF AlarmHasItsCluster, SettledOnceCalled
<1> QED BY <1>1, ClusterInvariance, PTL

================================================================================
