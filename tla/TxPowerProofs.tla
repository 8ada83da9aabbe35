---------------------------- MODULE TxPowerProofs ----------------------------
(***************************************************************************)
(* Proofs about TxPower, for any channels, masks, powers and any number of *)
(* requests that overlap.  The invariant says how far the shared cursor    *)
(* g_last_channel has come; every action is shown to keep each part of it. *)
(***************************************************************************)
EXTENDS TxPower, FiniteSetTheorems, NatMin

\* Every request that ends takes the cursor one further, and a request in
\* progress has put it on a channel first.
CursorBound ==
    /\ g_last_channel <=
          kLast + 1 + Cardinality(Requests) - Cardinality(InProgress)
    /\ InProgress # {} => g_last_channel >= kFirst

\* The channels up to the cursor were asked for, or are about to be.
HandedOut ==
    ~ lost => \A c \in g_channels_to_set \cap Channels :
        c <= g_last_channel =>
            \/ <<c, g_tx_power>> \in asked
            \/ \E r \in Requests :
                  work[r] = [waits |-> "buffer", channel |-> c]

\* The last request to end leaves the cursor behind all channels and reports.
Finished ==
    InProgress = {} /\ ~ lost =>
        /\ g_last_channel > kLast \/ g_channels_to_set = {}
        /\ asked # {} => report = [cb |-> g_cb, error |-> g_error]

OwnChannels ==
    /\ AloneOnly
    /\ alone => \A r \in InProgress : work[r].channel \in g_channels_to_set

\* The inductive invariant.
IInv ==
    /\ TypeOK
    /\ CursorBound
    /\ g_error = worst
    /\ HandedOut
    /\ Finished
    /\ OwnChannels

-----------------------------------------------------------------------------
(* The loops. *)

\* Max of two numbers is one of them, and not below the other.
LEMMA MaxOfTwo ==
    ASSUME NEW a \in Int, NEW b \in Int
    PROVE  Max({a, b}) = IF a >= b THEN a ELSE b
<1> DEFINE m == IF a >= b THEN a ELSE b
<1>1. m \in {a, b} /\ \A y \in {a, b} : m >= y
  OBVIOUS
<1>2. \A x \in {a, b} : (\A y \in {a, b} : x >= y) => x = m
  OBVIOUS
<1> QED BY <1>1, <1>2 DEF Max

\* A loop over g_last_channel stops on the first channel of the mask, or
\* behind the last channel.
LEMMA NextChannelFacts ==
    ASSUME NEW from \in Nat, NEW mask
    PROVE  /\ NextChannel(from, mask) \in Nat
           /\ NextChannel(from, mask) >= from
           /\ NextChannel(from, mask) <= from \/
              NextChannel(from, mask) <= kLast + 1
           /\ NextChannel(from, mask) <= kLast =>
                 NextChannel(from, mask) \in mask
           /\ \A c \in from .. kLast : c \in mask => NextChannel(from, mask) <= c
<1> DEFINE last == IF from >= kLast + 1 THEN from ELSE kLast + 1
           S == {c \in from .. kLast : c \in mask} \cup {last}
<1> USE TxPowerAssumption
<1>1. Max({from, kLast + 1}) = last
  BY MaxOfTwo
<1>2. NextChannel(from, mask) = Min(S)
  BY <1>1 DEF NextChannel
<1>3. S \in SUBSET Nat /\ S # {}
  OBVIOUS
<1>4. Min(S) \in S /\ \A i \in S : Min(S) <= i
  BY <1>3, MinIsLeast
<1>5. /\ Min(S) \in Nat /\ Min(S) >= from /\ Min(S) <= last
      /\ Min(S) <= kLast => Min(S) \in mask
      /\ \A c \in from .. kLast : c \in mask => Min(S) <= c
  BY <1>4
<1> HIDE DEF S
<1> QED BY <1>2, <1>5

-----------------------------------------------------------------------------
(* Requests in progress. *)

WorkType ==
    [Requests -> {NoWork} \cup [waits : {"buffer", "radio"}, channel : Channels]]

\* A request that begins, goes on or ends, in terms of the set of them.
LEMMA InProgressFacts ==
    ASSUME work \in WorkType
    PROVE  /\ IsFiniteSet(InProgress)
           /\ Cardinality(InProgress) \in Nat
           /\ Cardinality(Requests) \in Nat
           /\ Cardinality(InProgress) <= Cardinality(Requests)
           /\ \A r \in Requests : r \in InProgress <=> work[r].waits # "no"
           /\ \A r \in InProgress : work[r].channel \in Channels
<1>1. InProgress \in SUBSET Requests
  BY DEF InProgress
<1>2. IsFiniteSet(Requests)
  BY TxPowerAssumption
<1>3. ASSUME NEW r \in Requests
      PROVE  /\ r \in InProgress <=> work[r].waits # "no"
             /\ r \in InProgress => work[r].channel \in Channels
  BY DEF InProgress, WorkType, NoWork
<1> QED BY <1>1, <1>2, <1>3, FS_Subset, FS_CardinalityType DEF InProgress

LEMMA WorkBegins ==
    ASSUME work \in WorkType, NEW r \in Requests \ InProgress,
           NEW c \in Channels,
           work' = [work EXCEPT ![r] = [waits |-> "buffer", channel |-> c]]
    PROVE  /\ work' \in WorkType
           /\ InProgress' = InProgress \cup {r}
           /\ Cardinality(InProgress') = Cardinality(InProgress) + 1
           /\ Cardinality(InProgress') <= Cardinality(Requests)
           /\ work'[r] = [waits |-> "buffer", channel |-> c]
<1>1. /\ work' \in WorkType
      /\ work'[r] = [waits |-> "buffer", channel |-> c]
      /\ \A q \in Requests : q # r => work'[q] = work[q]
  BY DEF WorkType
<1>2. [waits |-> "buffer", channel |-> c] # NoWork
  <2>1. [waits |-> "buffer", channel |-> c].waits = "buffer" /\ NoWork.waits = "no"
    BY DEF NoWork
  <2> QED BY <2>1
<1>3. InProgress' = InProgress \cup {r}
  BY <1>1, <1>2 DEF InProgress
<1>4. InProgress' \in SUBSET Requests /\ IsFiniteSet(Requests)
  BY TxPowerAssumption DEF InProgress
<1>5. Cardinality(InProgress') <= Cardinality(Requests)
  BY <1>4, FS_Subset
<1>6. Cardinality(InProgress \cup {r}) = Cardinality(InProgress) + 1
  BY InProgressFacts, FS_AddElement
<1> QED BY <1>1, <1>3, <1>5, <1>6

LEMMA WorkGoesOn ==
    ASSUME work \in WorkType, NEW r \in InProgress, NEW c \in Channels,
           work' = [work EXCEPT ![r] = [waits |-> "radio", channel |-> c]]
    PROVE  /\ work' \in WorkType
           /\ InProgress' = InProgress
           /\ work'[r] = [waits |-> "radio", channel |-> c]
           /\ \A q \in Requests : q # r => work'[q] = work[q]
<1>1. /\ work' \in WorkType
      /\ work'[r] = [waits |-> "radio", channel |-> c]
      /\ \A q \in Requests : q # r => work'[q] = work[q]
  BY DEF WorkType, InProgress
<1>2. [waits |-> "radio", channel |-> c] # NoWork
  <2>1. [waits |-> "radio", channel |-> c].waits = "radio" /\ NoWork.waits = "no"
    BY DEF NoWork
  <2> QED BY <2>1
<1>3. InProgress' = InProgress
  BY <1>1, <1>2 DEF InProgress
<1> QED BY <1>1, <1>3

LEMMA WorkEnds ==
    ASSUME work \in WorkType, NEW r \in InProgress,
           work' = [work EXCEPT ![r] = NoWork]
    PROVE  /\ work' \in WorkType
           /\ InProgress' = InProgress \ {r}
           /\ Cardinality(InProgress') = Cardinality(InProgress) - 1
           /\ \A q \in Requests : q # r => work'[q] = work[q]
<1>1. /\ work' \in WorkType
      /\ work'[r] = NoWork
      /\ \A q \in Requests : q # r => work'[q] = work[q]
  BY DEF WorkType, InProgress
<1>2. InProgress' = InProgress \ {r}
  BY <1>1 DEF InProgress
<1>3. Cardinality(InProgress \ {r}) = Cardinality(InProgress) - 1
  BY InProgressFacts, FS_RemoveElement
<1> QED BY <1>1, <1>2, <1>3

-----------------------------------------------------------------------------
(* One lemma for each action.  Each first finds the new cursor, then shows   *)
(* the parts of the invariant one by one.                                    *)

LEMMA InitIInv == Init => IInv
<1> SUFFICES ASSUME Init PROVE IInv
  OBVIOUS
<1> USE DEF Init
<1>1. InProgress = {}
  BY DEF InProgress
<1>2. Cardinality(InProgress) = 0
  BY <1>1, FS_EmptySet
<1>3. Cardinality(Requests) \in Nat
  BY TxPowerAssumption, FS_CardinalityType
<1>4. TypeOK
  <2>1. g_last_channel \in 0 .. kLast + 1 + Cardinality(Requests)
    BY <1>3, TxPowerAssumption
  <2>2. work \in WorkType
    BY DEF WorkType
  <2> QED BY <2>1, <2>2, TxPowerAssumption DEF TypeOK, WorkType
<1>5. CursorBound
  BY <1>1, <1>2, <1>3, TxPowerAssumption DEF CursorBound
<1>6. HandedOut /\ Finished /\ OwnChannels
  BY <1>1 DEF HandedOut, Finished, OwnChannels, AloneOnly
<1> QED BY <1>4, <1>5, <1>6 DEF IInv

\* The cursor after set_tx_power: on the first channel, or behind the last.
LEMMA TakesGlobalsFacts ==
    ASSUME TypeOK, NEW power \in Powers, NEW mask \in Masks,
           NEW cb \in Callbacks \cup {NoCallback}, NEW refused \in BOOLEAN,
           TakesGlobals(power, mask, cb, refused)
    PROVE  /\ g_last_channel' \in kFirst .. kLast + 1
           /\ g_last_channel' <= kLast =>
                 g_last_channel' \in Channels /\ g_last_channel' \in g_channels_to_set'
           /\ \A c \in g_channels_to_set' \cap Channels : g_last_channel' <= c
           /\ g_cb' \in Callbacks \cup {NoCallback}
           /\ g_channels_to_set' \in Masks \cup {{}}
           /\ g_tx_power' \in Powers \cup {0}
           /\ g_error' = 0 /\ worst' = 0 /\ 0 \in Statuses
           /\ report' = report /\ asked' = {} /\ lost' = refused
           /\ alone' = (InProgress = {})
<1> USE TxPowerAssumption
<1>1. kFirst \in Nat
  OBVIOUS
<1>2. /\ NextChannel(kFirst, mask) \in kFirst .. kLast + 1
      /\ NextChannel(kFirst, mask) <= kLast => NextChannel(kFirst, mask) \in mask
      /\ \A c \in kFirst .. kLast : c \in mask => NextChannel(kFirst, mask) <= c
  BY <1>1, NextChannelFacts
<1> QED BY <1>2 DEF TakesGlobals, Channels

LEMMA AcceptedIInv ==
    ASSUME IInv, NEW power \in Powers, NEW mask \in Masks,
           NEW cb \in Callbacks \cup {NoCallback}, Accepted(power, mask, cb)
    PROVE  IInv'
<1> USE TxPowerAssumption
<1>1. TypeOK /\ work \in WorkType /\ TakesGlobals(power, mask, cb, FALSE)
  BY DEF IInv, TypeOK, WorkType, Accepted
<1>2. PICK r \in Requests \ InProgress :
        work' = [work EXCEPT ![r] = [waits |-> "buffer", channel |-> g_last_channel']]
  BY DEF Accepted
<1>3. /\ g_last_channel' \in Channels
      /\ g_last_channel' \in g_channels_to_set'
      /\ \A c \in g_channels_to_set' \cap Channels : g_last_channel' <= c
      /\ g_cb' \in Callbacks \cup {NoCallback}
      /\ g_channels_to_set' \in Masks \cup {{}}
      /\ g_tx_power' \in Powers \cup {0}
      /\ g_error' = 0 /\ worst' = 0 /\ 0 \in Statuses
      /\ report' = report /\ asked' = {} /\ lost' = FALSE
      /\ alone' = (InProgress = {})
  BY <1>1, TakesGlobalsFacts DEF Accepted
<1>4. /\ work' \in WorkType
      /\ InProgress' = InProgress \cup {r}
      /\ Cardinality(InProgress') = Cardinality(InProgress) + 1
      /\ Cardinality(InProgress') <= Cardinality(Requests)
      /\ work'[r] = [waits |-> "buffer", channel |-> g_last_channel']
  BY <1>1, <1>2, <1>3, WorkBegins
<1>5. /\ Cardinality(Requests) \in Nat /\ Cardinality(InProgress') \in Nat
  BY <1>1, <1>4, InProgressFacts
<1>6. CursorBound'
  BY <1>3, <1>4, <1>5 DEF CursorBound, Channels
<1>7. TypeOK'
  <2>1. g_last_channel' \in 0 .. kLast + 1 + Cardinality(Requests)
    BY <1>3, <1>5 DEF Channels
  <2>2. report' = NoReport \/
          (report'.cb \in Callbacks \cup {NoCallback} /\ report'.error \in Statuses)
    BY <1>1, <1>3 DEF TypeOK
  <2>3. asked' \subseteq Channels \X (Powers \cup {0})
    BY <1>3
  <2> QED BY <1>3, <1>4, <2>1, <2>2, <2>3 DEF TypeOK, WorkType
<1>8. HandedOut'
  BY <1>3, <1>4 DEF HandedOut, Channels
<1>9. Finished'
  BY <1>4 DEF Finished
<1>10. OwnChannels'
  <2>1. alone' => InProgress' = {r}
    BY <1>3, <1>4
  <2> QED BY <2>1, <1>3, <1>4 DEF OwnChannels, AloneOnly
<1> QED BY <1>3, <1>6, <1>7, <1>8, <1>9, <1>10 DEF IInv

\* The two ways of set_tx_power to fail leave the requests alone.
LEMMA RefusedIInv ==
    ASSUME IInv, NEW power \in Powers, NEW mask \in Masks,
           NEW cb \in Callbacks \cup {NoCallback},
           NoBuffer(power, mask, cb) \/ NoChannel(power, mask, cb)
    PROVE  IInv'
<1> USE TxPowerAssumption
<1>1. /\ TypeOK /\ work \in WorkType /\ work' = work
      /\ InProgress' = InProgress
  BY DEF IInv, TypeOK, WorkType, NoBuffer, NoChannel, InProgress
<1>2. PICK refusal \in BOOLEAN :
        /\ TakesGlobals(power, mask, cb, refusal)
        /\ ~ refusal => ~ (g_last_channel' <= kLast)
  <2>1. CASE NoBuffer(power, mask, cb)
    BY <2>1 DEF NoBuffer
  <2>2. CASE NoChannel(power, mask, cb)
    <3>1. TakesGlobals(power, mask, cb, FALSE) /\ g_last_channel' > kLast
      BY <2>2 DEF NoChannel
    <3>2. g_last_channel' \in kFirst .. kLast + 1
      BY <1>1, <3>1, TakesGlobalsFacts
    <3>3. ~ (g_last_channel' <= kLast)
      BY <3>1, <3>2
    <3> QED BY <3>1, <3>3
  <2> QED BY <2>1, <2>2
<1>3. /\ g_last_channel' \in kFirst .. kLast + 1
      /\ \A c \in g_channels_to_set' \cap Channels : g_last_channel' <= c
      /\ g_cb' \in Callbacks \cup {NoCallback}
      /\ g_channels_to_set' \in Masks \cup {{}}
      /\ g_tx_power' \in Powers \cup {0}
      /\ g_error' = 0 /\ worst' = 0 /\ 0 \in Statuses
      /\ report' = report /\ asked' = {} /\ lost' = refusal
      /\ alone' = (InProgress = {})
  BY <1>1, <1>2, TakesGlobalsFacts
<1>4. /\ Cardinality(Requests) \in Nat /\ Cardinality(InProgress) \in Nat
      /\ Cardinality(InProgress) <= Cardinality(Requests)
  BY <1>1, InProgressFacts
<1>5. CursorBound'
  BY <1>1, <1>3, <1>4 DEF CursorBound
<1>6. TypeOK'
  BY <1>1, <1>3, <1>4 DEF TypeOK
<1>7. HandedOut'
  BY <1>2, <1>3 DEF HandedOut, Channels
<1>8. Finished'
  BY <1>2, <1>3 DEF Finished
<1>9. OwnChannels'
  BY <1>1, <1>3 DEF OwnChannels, AloneOnly
<1> QED BY <1>3, <1>5, <1>6, <1>7, <1>8, <1>9 DEF IInv

\* set_tx_power_for_channel: ZBOSS is asked to set channel c, or the request
\* is lost.
LEMMA AskFacts ==
    ASSUME work \in WorkType, NEW r \in InProgress, NEW c \in Channels,
           lost \in BOOLEAN, SetTxPowerForChannel(r, c)
    PROVE  /\ work' \in WorkType
           /\ InProgress' \subseteq InProgress
           /\ Cardinality(InProgress') \in Nat
           /\ Cardinality(InProgress') <= Cardinality(InProgress)
           /\ \A q \in Requests : q # r => work'[q] = work[q]
           /\ r \in InProgress' => work'[r].channel = c
           /\ asked \subseteq asked'
           /\ asked' \subseteq asked \cup {<<c, g_tx_power>>}
           /\ ~ lost' => /\ ~ lost /\ InProgress' # {}
                         /\ <<c, g_tx_power>> \in asked'
           /\ lost' \in BOOLEAN
<1>0. Cardinality(InProgress) \in Nat
  BY InProgressFacts
<1>1. CASE /\ work' = [work EXCEPT ![r] = [waits |-> "radio", channel |-> c]]
           /\ asked' = asked \cup {<<c, g_tx_power>>}
           /\ UNCHANGED lost
  <2>1. /\ work' \in WorkType
        /\ InProgress' = InProgress
        /\ work'[r] = [waits |-> "radio", channel |-> c]
        /\ \A q \in Requests : q # r => work'[q] = work[q]
    BY <1>1, WorkGoesOn
  <2> QED BY <1>0, <1>1, <2>1
<1>2. CASE /\ work' = [work EXCEPT ![r] = NoWork]
           /\ lost' = TRUE
           /\ UNCHANGED asked
  <2>1. /\ work' \in WorkType
        /\ InProgress' = InProgress \ {r}
        /\ Cardinality(InProgress') = Cardinality(InProgress) - 1
        /\ \A q \in Requests : q # r => work'[q] = work[q]
    BY <1>2, WorkEnds
  <2>2. Cardinality(InProgress') \in Nat
    <3>1. IsFiniteSet(InProgress')
      BY <2>1, InProgressFacts, FS_RemoveElement
    <3> QED BY <3>1, FS_CardinalityType
  <2> QED BY <1>0, <1>2, <2>1, <2>2
<1> QED BY <1>1, <1>2 DEF SetTxPowerForChannel

LEMMA GotBufferIInv ==
    ASSUME IInv, NEW r \in Requests, GotBuffer(r)
    PROVE  IInv'
<1> USE TxPowerAssumption
<1> DEFINE c == work[r].channel
<1>1. /\ TypeOK /\ work \in WorkType /\ lost \in BOOLEAN
      /\ r \in InProgress /\ c \in Channels
      /\ SetTxPowerForChannel(r, c)
  <2>1. TypeOK /\ work \in WorkType /\ lost \in BOOLEAN
    BY DEF IInv, TypeOK, WorkType
  <2>2. work[r].waits = "buffer"
    BY DEF GotBuffer
  <2>3. r \in InProgress /\ c \in Channels
    BY <2>1, <2>2, InProgressFacts
  <2> QED BY <2>1, <2>3 DEF GotBuffer
<1>2. /\ work' \in WorkType
      /\ InProgress' \subseteq InProgress
      /\ Cardinality(InProgress') \in Nat
      /\ Cardinality(InProgress') <= Cardinality(InProgress)
      /\ \A q \in Requests : q # r => work'[q] = work[q]
      /\ r \in InProgress' => work'[r].channel = c
      /\ asked \subseteq asked'
      /\ asked' \subseteq asked \cup {<<c, g_tx_power>>}
      /\ ~ lost' => /\ ~ lost /\ InProgress' # {}
                    /\ <<c, g_tx_power>> \in asked'
      /\ lost' \in BOOLEAN
  <2> HIDE DEF c
  <2> QED BY <1>1, AskFacts
<1>3. /\ g_cb' = g_cb /\ g_channels_to_set' = g_channels_to_set
      /\ g_last_channel' = g_last_channel /\ g_tx_power' = g_tx_power
      /\ g_error' = g_error /\ report' = report
      /\ worst' = worst /\ alone' = alone
  BY DEF GotBuffer, globals
<1>4. /\ Cardinality(Requests) \in Nat /\ Cardinality(InProgress) \in Nat
  BY <1>1, InProgressFacts
<1>5. g_last_channel \in Int
  BY <1>1, <1>4 DEF TypeOK
<1>6. TypeOK'
  <2>1. asked' \subseteq Channels \X (Powers \cup {0})
    BY <1>1, <1>2 DEF TypeOK
  <2> QED BY <1>1, <1>2, <1>3, <2>1 DEF TypeOK, WorkType
<1>7. CursorBound'
  BY <1>2, <1>3, <1>4, <1>5 DEF IInv, CursorBound
<1>8. HandedOut'
  <2> SUFFICES ASSUME ~ lost', NEW d \in g_channels_to_set \cap Channels,
                      d <= g_last_channel
               PROVE  \/ <<d, g_tx_power>> \in asked'
                      \/ \E q \in Requests :
                            work'[q] = [waits |-> "buffer", channel |-> d]
    BY <1>3 DEF HandedOut
  <2>1. CASE <<d, g_tx_power>> \in asked
    BY <1>2, <2>1
  <2>2. CASE \E q \in Requests : work[q] = [waits |-> "buffer", channel |-> d]
    <3>1. PICK q \in Requests : work[q] = [waits |-> "buffer", channel |-> d]
      BY <2>2
    <3>2. CASE q = r
      BY <1>2, <3>1, <3>2
    <3>3. CASE q # r
      BY <1>2, <3>1, <3>3
    <3> QED BY <3>2, <3>3
  <2> QED BY <1>2, <2>1, <2>2 DEF IInv, HandedOut
<1>9. Finished'
  BY <1>2 DEF Finished
<1>10. OwnChannels'
  <2> SUFFICES ASSUME alone
               PROVE  /\ \A p, q \in InProgress' : p = q
                      /\ \A q \in InProgress' :
                            /\ work'[q].channel = g_last_channel
                            /\ work'[q].channel \in g_channels_to_set
                      /\ \A a \in asked' :
                            a[1] \in g_channels_to_set /\ a[1] <= g_last_channel
    BY <1>3 DEF OwnChannels, AloneOnly
  <2>1. /\ \A p, q \in InProgress : p = q
        /\ c = g_last_channel /\ c \in g_channels_to_set
        /\ \A a \in asked : a[1] \in g_channels_to_set /\ a[1] <= g_last_channel
    BY <1>1 DEF IInv, OwnChannels, AloneOnly
  <2>2. \A q \in InProgress' : q = r
    BY <1>1, <1>2, <2>1
  <2>3. \A a \in asked' : a[1] \in g_channels_to_set /\ a[1] <= g_last_channel
    BY <1>2, <1>5, <2>1
  <2> HIDE DEF c
  <2> QED BY <1>2, <2>1, <2>2, <2>3
<1> QED BY <1>3, <1>6, <1>7, <1>8, <1>9, <1>10 DEF IInv

\* What both ways of on_tx_power_set to go on have in common: where the cursor
\* comes to, and that no channel of the mask is between.
LEMMA AdvanceFacts ==
    ASSUME IInv, NEW r \in Requests, NEW status \in Statuses,
           OnTxPowerSet(r, status)
    PROVE  /\ TypeOK /\ work \in WorkType /\ r \in InProgress
           /\ work[r].waits = "radio"
           /\ g_last_channel \in Nat /\ g_last_channel' \in Nat
           /\ g_last_channel' > g_last_channel /\ g_last_channel >= kFirst
           /\ g_last_channel' <= g_last_channel + 1 \/ g_last_channel' <= kLast + 1
           /\ g_last_channel' <= kLast =>
                 g_last_channel' \in Channels /\ g_last_channel' \in g_channels_to_set
           /\ \A c \in g_channels_to_set \cap Channels :
                 c <= g_last_channel \/ g_last_channel' <= c
           /\ g_error' \in Statuses /\ worst' = g_error'
           /\ g_cb' = g_cb /\ g_channels_to_set' = g_channels_to_set
           /\ g_tx_power' = g_tx_power /\ alone' = alone
           /\ Cardinality(Requests) \in Nat /\ Cardinality(InProgress) \in Nat
<1> USE TxPowerAssumption
<1> DEFINE next == NextChannel(g_last_channel + 1, g_channels_to_set)
<1>1. TypeOK /\ work \in WorkType
  BY DEF IInv, TypeOK, WorkType
<1>2. /\ Cardinality(Requests) \in Nat /\ Cardinality(InProgress) \in Nat
      /\ work[r].waits = "radio" => r \in InProgress
  BY <1>1, InProgressFacts
<1>3. g_last_channel \in Nat /\ g_last_channel + 1 \in Nat
  BY <1>1, <1>2 DEF TypeOK
<1>4. /\ next \in Nat /\ next >= g_last_channel + 1
      /\ next <= g_last_channel + 1 \/ next <= kLast + 1
      /\ next <= kLast => next \in g_channels_to_set
      /\ \A c \in g_last_channel + 1 .. kLast :
            c \in g_channels_to_set => next <= c
  BY <1>3, NextChannelFacts
<1> HIDE DEF next
<1>5. Advances(r, status, next)
  BY DEF OnTxPowerSet, next
<1>6. /\ work[r].waits = "radio" /\ g_last_channel' = next
      /\ g_error' = Max({g_error, status}) /\ worst' = Max({worst, status})
      /\ g_cb' = g_cb /\ g_channels_to_set' = g_channels_to_set
      /\ g_tx_power' = g_tx_power /\ alone' = alone
  BY <1>5 DEF Advances
<1>7. g_error' \in Statuses /\ worst' = g_error'
  <2>1. g_error = worst /\ g_error \in Statuses /\ Statuses \subseteq Int
    BY <1>1 DEF IInv, TypeOK
  <2>2. Max({g_error, status}) \in Statuses
    BY <2>1, MaxOfTwo
  <2> QED BY <1>6, <2>1, <2>2
<1>8. \A c \in g_channels_to_set \cap Channels : c <= g_last_channel \/ next <= c
  BY <1>3, <1>4 DEF Channels
<1>9. g_last_channel >= kFirst
  BY <1>2, <1>6 DEF IInv, CursorBound
<1>10. next <= kLast => next \in Channels
  BY <1>3, <1>4, <1>9 DEF Channels
<1> QED BY <1>1, <1>2, <1>3, <1>4, <1>6, <1>7, <1>8, <1>9, <1>10

\* on_tx_power_set finds another channel.
LEMMA GoesOnIInv ==
    ASSUME IInv, NEW r \in Requests, NEW status \in Statuses,
           OnTxPowerSet(r, status),
           g_last_channel' <= kLast, SetTxPowerForChannel(r, g_last_channel'),
           report' = report
    PROVE  IInv'
<1> USE TxPowerAssumption
<1>1. /\ TypeOK /\ work \in WorkType /\ r \in InProgress
      /\ work[r].waits = "radio"
      /\ g_last_channel \in Nat /\ g_last_channel' \in Nat
      /\ g_last_channel' > g_last_channel /\ g_last_channel >= kFirst
      /\ g_last_channel' \in Channels /\ g_last_channel' \in g_channels_to_set
      /\ \A c \in g_channels_to_set \cap Channels :
            c <= g_last_channel \/ g_last_channel' <= c
      /\ g_error' \in Statuses /\ worst' = g_error'
      /\ g_cb' = g_cb /\ g_channels_to_set' = g_channels_to_set
      /\ g_tx_power' = g_tx_power /\ alone' = alone
      /\ Cardinality(Requests) \in Nat
      /\ Cardinality(InProgress) \in Nat
      /\ Cardinality(InProgress) <= Cardinality(Requests)
  BY AdvanceFacts, InProgressFacts
<1>2. /\ work' \in WorkType
      /\ InProgress' \subseteq InProgress
      /\ Cardinality(InProgress') \in Nat
      /\ Cardinality(InProgress') <= Cardinality(InProgress)
      /\ \A q \in Requests : q # r => work'[q] = work[q]
      /\ r \in InProgress' => work'[r].channel = g_last_channel'
      /\ asked \subseteq asked'
      /\ asked' \subseteq asked \cup {<<g_last_channel', g_tx_power>>}
      /\ ~ lost' => /\ ~ lost /\ InProgress' # {}
                    /\ <<g_last_channel', g_tx_power>> \in asked'
      /\ lost' \in BOOLEAN
  BY <1>1, AskFacts DEF TypeOK
<1>3. CursorBound'
  BY <1>1, <1>2 DEF CursorBound, Channels
<1>4. TypeOK'
  <2>1. asked' \subseteq Channels \X (Powers \cup {0})
    BY <1>1, <1>2 DEF TypeOK
  <2>2. g_last_channel' \in 0 .. kLast + 1 + Cardinality(Requests)
    BY <1>1 DEF Channels
  <2>3. report' = NoReport \/
          (report'.cb \in Callbacks \cup {NoCallback} /\ report'.error \in Statuses)
    BY <1>1 DEF TypeOK
  <2>4. alone' \in BOOLEAN /\ lost' \in BOOLEAN
    BY <1>1, <1>2 DEF TypeOK
  <2> QED BY <1>1, <1>2, <2>1, <2>2, <2>3, <2>4 DEF TypeOK, WorkType
<1>5. HandedOut'
  <2> SUFFICES ASSUME ~ lost', NEW d \in g_channels_to_set \cap Channels,
                      d <= g_last_channel'
               PROVE  \/ <<d, g_tx_power>> \in asked'
                      \/ \E q \in Requests :
                            work'[q] = [waits |-> "buffer", channel |-> d]
    BY <1>1 DEF HandedOut
  <2>1. CASE d = g_last_channel'
    BY <1>2, <2>1
  <2>2. CASE d # g_last_channel'
    <3>1. d <= g_last_channel
      BY <1>1, <2>2 DEF Channels
    <3>2. CASE <<d, g_tx_power>> \in asked
      BY <1>2, <3>2
    <3>3. CASE \E q \in Requests : work[q] = [waits |-> "buffer", channel |-> d]
      <4>1. PICK q \in Requests : work[q] = [waits |-> "buffer", channel |-> d]
        BY <3>3
      <4>2. q # r
        BY <1>1, <4>1
      <4> QED BY <1>2, <4>1, <4>2
    <3> QED BY <1>2, <3>1, <3>2, <3>3 DEF IInv, HandedOut
  <2> QED BY <2>1, <2>2
<1>6. Finished'
  BY <1>2 DEF Finished
<1>7. OwnChannels'
  <2> SUFFICES ASSUME alone
               PROVE  /\ \A p, q \in InProgress' : p = q
                      /\ \A q \in InProgress' :
                            /\ work'[q].channel = g_last_channel'
                            /\ work'[q].channel \in g_channels_to_set
                      /\ \A a \in asked' :
                            a[1] \in g_channels_to_set /\ a[1] <= g_last_channel'
    BY <1>1 DEF OwnChannels, AloneOnly
  <2>1. /\ \A p, q \in InProgress : p = q
        /\ \A a \in asked : a[1] \in g_channels_to_set /\ a[1] <= g_last_channel
    BY DEF IInv, OwnChannels, AloneOnly
  <2>2. \A q \in InProgress' : q = r
    BY <1>1, <1>2, <2>1
  <2>3. \A a \in asked : a[1] \in Nat
    BY <1>1 DEF TypeOK, Channels
  <2>4. \A a \in asked' : a[1] \in g_channels_to_set /\ a[1] <= g_last_channel'
    BY <1>1, <1>2, <2>1, <2>3
  <2> QED BY <1>1, <1>2, <2>2, <2>4
<1> QED BY <1>1, <1>3, <1>4, <1>5, <1>6, <1>7 DEF IInv

\* on_tx_power_set was called for the last channel.
LEMMA EndsIInv ==
    ASSUME IInv, NEW r \in Requests, NEW status \in Statuses,
           OnTxPowerSet(r, status),
           g_last_channel' > kLast,
           work' = [work EXCEPT ![r] = NoWork],
           report' = [cb |-> g_cb, error |-> g_error'],
           UNCHANGED <<asked, lost>>
    PROVE  IInv'
<1> USE TxPowerAssumption
<1>1. /\ TypeOK /\ work \in WorkType /\ r \in InProgress
      /\ work[r].waits = "radio"
      /\ g_last_channel \in Nat /\ g_last_channel' \in Nat
      /\ g_last_channel' > g_last_channel /\ g_last_channel >= kFirst
      /\ g_last_channel' <= g_last_channel + 1 \/ g_last_channel' <= kLast + 1
      /\ \A c \in g_channels_to_set \cap Channels :
            c <= g_last_channel \/ g_last_channel' <= c
      /\ g_error' \in Statuses /\ worst' = g_error'
      /\ g_cb' = g_cb /\ g_channels_to_set' = g_channels_to_set
      /\ g_tx_power' = g_tx_power /\ alone' = alone
      /\ Cardinality(Requests) \in Nat
      /\ Cardinality(InProgress) \in Nat
      /\ Cardinality(InProgress) <= Cardinality(Requests)
  BY AdvanceFacts, InProgressFacts
<1>2. /\ work' \in WorkType
      /\ InProgress' = InProgress \ {r}
      /\ Cardinality(InProgress') = Cardinality(InProgress) - 1
      /\ \A q \in Requests : q # r => work'[q] = work[q]
  BY <1>1, WorkEnds
<1>3. Cardinality(InProgress') \in Nat
  <2>1. IsFiniteSet(InProgress')
    BY <1>1, <1>2, InProgressFacts, FS_RemoveElement
  <2> QED BY <2>1, FS_CardinalityType
<1>4. CursorBound'
  BY <1>1, <1>2, <1>3 DEF IInv, CursorBound
<1>5. TypeOK'
  <2>1. g_last_channel' \in 0 .. kLast + 1 + Cardinality(Requests)
    BY <1>1, <1>3, <1>4 DEF CursorBound
  <2>2. /\ report'.cb \in Callbacks \cup {NoCallback}
        /\ report'.error \in Statuses
    BY <1>1 DEF TypeOK
  <2> QED BY <1>1, <1>2, <2>1, <2>2 DEF TypeOK, WorkType
<1>6. HandedOut'
  <2> SUFFICES ASSUME ~ lost, NEW d \in g_channels_to_set \cap Channels
               PROVE  \/ <<d, g_tx_power>> \in asked
                      \/ \E q \in Requests :
                            work'[q] = [waits |-> "buffer", channel |-> d]
    BY <1>1 DEF HandedOut
  <2>1. d <= g_last_channel
    BY <1>1 DEF Channels
  <2>2. CASE \E q \in Requests : work[q] = [waits |-> "buffer", channel |-> d]
    <3>1. PICK q \in Requests : work[q] = [waits |-> "buffer", channel |-> d]
      BY <2>2
    <3>2. q # r
      BY <1>1, <3>1
    <3> QED BY <1>2, <3>1, <3>2
  <2> QED BY <2>1, <2>2 DEF IInv, HandedOut
<1>7. Finished'
  BY <1>1 DEF Finished
<1>8. OwnChannels'
  <2>1. alone => InProgress' = {}
    BY <1>1, <1>2 DEF IInv, OwnChannels, AloneOnly
  <2>2. \A a \in asked : a[1] \in Nat
    BY <1>1 DEF TypeOK, Channels
  <2>3. alone => \A a \in asked' :
            a[1] \in g_channels_to_set' /\ a[1] <= g_last_channel'
    BY <1>1, <2>2 DEF IInv, OwnChannels, AloneOnly
  <2> QED BY <1>1, <2>1, <2>3 DEF OwnChannels, AloneOnly
<1> QED BY <1>1, <1>4, <1>5, <1>6, <1>7, <1>8 DEF IInv

LEMMA OnTxPowerSetIInv ==
    ASSUME IInv, NEW r \in Requests, NEW status \in Statuses,
           OnTxPowerSet(r, status)
    PROVE  IInv'
<1>1. \/ /\ g_last_channel' <= kLast
         /\ SetTxPowerForChannel(r, g_last_channel')
         /\ report' = report
      \/ /\ g_last_channel' > kLast
         /\ work' = [work EXCEPT ![r] = NoWork]
         /\ report' = [cb |-> g_cb, error |-> g_error']
         /\ UNCHANGED <<asked, lost>>
  <2>1. \A next : Advances(r, status, next) =>
            \/ /\ g_last_channel' <= kLast
               /\ SetTxPowerForChannel(r, g_last_channel')
               /\ report' = report
            \/ /\ g_last_channel' > kLast
               /\ work' = [work EXCEPT ![r] = NoWork]
               /\ report' = [cb |-> g_cb, error |-> g_error']
               /\ UNCHANGED <<asked, lost>>
    BY DEF Advances
  <2> QED BY <2>1 DEF OnTxPowerSet
<1> QED BY <1>1, GoesOnIInv, EndsIInv

LEMMA NextIInv == IInv /\ [Next]_vars => IInv'
<1> SUFFICES ASSUME IInv, [Next]_vars PROVE IInv'
  OBVIOUS
<1>1. ASSUME NEW power \in Powers, NEW mask \in Masks,
             NEW cb \in Callbacks \cup {NoCallback}, SetTxPower(power, mask, cb)
      PROVE  IInv'
  BY <1>1, AcceptedIInv, RefusedIInv DEF SetTxPower
<1>2. ASSUME NEW r \in Requests, GotBuffer(r) PROVE IInv'
  BY <1>2, GotBufferIInv
<1>3. ASSUME NEW r \in Requests, NEW status \in Statuses, OnTxPowerSet(r, status)
      PROVE  IInv'
  BY <1>3, OnTxPowerSetIInv
<1>4. CASE UNCHANGED vars
  BY <1>4 DEF vars, globals, history, IInv, TypeOK, CursorBound, HandedOut,
              Finished, OwnChannels, AloneOnly, InProgress
<1> QED BY <1>1, <1>2, <1>3, <1>4 DEF Next

-----------------------------------------------------------------------------
(* The theorems. *)

\* The invariant holds in every run.
THEOREM Invariance == Spec => []IInv
BY InitIInv, NextIInv, PTL DEF Spec

\* The variables keep their types: g_last_channel stays a byte however many
\* requests overlap, and ZBOSS is only asked for channels it has.
THEOREM TypeCorrect == Spec => []TypeOK
<1>1. IInv => TypeOK
  BY DEF IInv
<1> QED BY <1>1, Invariance, PTL

\* When ZBOSS has nothing left to do, every channel of the last set_tx_power
\* was asked for with its power, and its callback was told the worst answer,
\* although all requests share the globals.
THEOREM LastRequestIsServed == Spec => []LastRequestServed
<1>1. IInv => LastRequestServed
  <2> SUFFICES ASSUME IInv, InProgress = {}, ~ lost
               PROVE  /\ \A c \in g_channels_to_set \cap Channels :
                            <<c, g_tx_power>> \in asked
                      /\ asked # {} => report = [cb |-> g_cb, error |-> worst]
    BY DEF LastRequestServed
  <2>1. ASSUME NEW c \in g_channels_to_set \cap Channels
        PROVE  <<c, g_tx_power>> \in asked
    <3>1. work \in WorkType /\ Cardinality(Requests) \in Nat
      BY InProgressFacts DEF IInv, TypeOK, WorkType
    <3>2. c <= g_last_channel
      BY <3>1, TxPowerAssumption DEF IInv, TypeOK, Finished, Channels
    <3>3. ASSUME NEW r \in Requests
          PROVE  work[r] # [waits |-> "buffer", channel |-> c]
      BY <3>1, InProgressFacts
    <3> QED BY <3>2, <3>3 DEF IInv, HandedOut
  <2> QED BY <2>1 DEF IInv, Finished
<1> QED BY <1>1, Invariance, PTL

\* A request made while no other was in progress sets its own channels only,
\* one at a time and in their order.
THEOREM AloneSetsItsOwn == Spec => []AloneOnly
<1>1. IInv => AloneOnly
  BY DEF IInv, OwnChannels
<1> QED BY <1>1, Invariance, PTL

-----------------------------------------------------------------------------
(* That all requests end. *)

\* What ZBOSS may still do before it has nothing left to do: answer for buffers,
\* and put the shared cursor forward.
Buffering == {r \in Requests : work[r].waits = "buffer"}

StepsLeft ==
    Cardinality(Buffering) + (kLast + 1 + Cardinality(Requests) - g_last_channel)

LEMMA BufferingIsFinite == IsFiniteSet(Buffering) /\ Cardinality(Buffering) \in Nat
<1>1. IsFiniteSet(Requests)
  BY TxPowerAssumption
<1> QED BY <1>1, FS_Subset, FS_CardinalityType DEF Buffering

LEMMA StepsLeftType == TypeOK => StepsLeft \in Nat
<1> SUFFICES ASSUME TypeOK PROVE StepsLeft \in Nat
  OBVIOUS
<1>1. Cardinality(Requests) \in Nat
  BY TxPowerAssumption, FS_CardinalityType
<1>2. kLast \in Nat
  BY TxPowerAssumption
<1>3. g_last_channel \in 0 .. kLast + 1 + Cardinality(Requests)
  BY DEF TypeOK
<1> QED BY <1>1, <1>2, <1>3, BufferingIsFinite DEF StepsLeft

\* What one request waits for changes; those that wait for a buffer can only
\* become fewer, as nobody begins to wait for one.
LEMMA OneRequestSteps ==
    ASSUME work \in WorkType, NEW r \in InProgress, NEW channel \in Channels,
           \/ work' = [work EXCEPT ![r] = [waits |-> "radio", channel |-> channel]]
           \/ work' = [work EXCEPT ![r] = NoWork]
    PROVE  Buffering' = Buffering \ {r}
<1>1. /\ \A q \in Requests : q # r => work'[q] = work[q]
      /\ r \in Requests
  BY DEF WorkType, InProgress
<1>2. work'[r] = [waits |-> "radio", channel |-> channel] \/ work'[r] = NoWork
  BY <1>1 DEF WorkType
<1>3. work'[r].waits # "buffer"
  BY <1>2 DEF NoWork
<1> QED BY <1>1, <1>3 DEF Buffering

LEMMA GotBufferComesCloser ==
    ASSUME IInv, NEW r \in Requests, GotBuffer(r)
    PROVE  StepsLeft' < StepsLeft
<1> DEFINE c == work[r].channel
<1>1. /\ work \in WorkType /\ r \in InProgress /\ c \in Channels /\ r \in Buffering
  <2>1. work \in WorkType /\ work[r].waits = "buffer"
    BY DEF IInv, TypeOK, WorkType, GotBuffer
  <2>2. r \in InProgress
    BY <2>1, InProgressFacts
  <2> QED BY <2>1, <2>2, InProgressFacts DEF Buffering
<1>2. Buffering' = Buffering \ {r}
  BY <1>1, OneRequestSteps DEF GotBuffer, SetTxPowerForChannel
<1>3. Cardinality(Buffering') = Cardinality(Buffering) - 1
  BY <1>1, <1>2, BufferingIsFinite, FS_RemoveElement
<1>4. g_last_channel' = g_last_channel /\ g_last_channel \in Nat
  BY TxPowerAssumption DEF IInv, TypeOK, GotBuffer, globals
<1>5. Cardinality(Requests) \in Nat /\ kLast \in Nat
  BY TxPowerAssumption, FS_CardinalityType
<1> QED BY <1>3, <1>4, <1>5, BufferingIsFinite DEF StepsLeft

LEMMA AnswerComesCloser ==
    ASSUME IInv, NEW r \in Requests, NEW status \in Statuses, OnTxPowerSet(r, status)
    PROVE  StepsLeft' < StepsLeft
<1>1. /\ work \in WorkType /\ r \in InProgress /\ r \notin Buffering
      /\ g_last_channel \in Nat /\ g_last_channel' \in Nat
      /\ g_last_channel' > g_last_channel
  BY AdvanceFacts DEF Buffering
<1>2. \/ /\ g_last_channel' <= kLast
         /\ SetTxPowerForChannel(r, g_last_channel')
      \/ work' = [work EXCEPT ![r] = NoWork]
  BY DEF OnTxPowerSet, Advances
<1>3. Buffering' = Buffering
  <2>1. CASE g_last_channel' <= kLast /\ SetTxPowerForChannel(r, g_last_channel')
    <3>1. g_last_channel' \in Channels
      BY <1>1, <2>1, AdvanceFacts, TxPowerAssumption DEF Channels
    <3> QED BY <1>1, <2>1, <3>1, OneRequestSteps DEF SetTxPowerForChannel
  <2>2. CASE work' = [work EXCEPT ![r] = NoWork]
    <3>1. kFirst \in Channels
      BY TxPowerAssumption DEF Channels
    <3> QED BY <1>1, <2>2, <3>1, OneRequestSteps
  <2> QED BY <1>2, <2>1, <2>2
<1>4. Cardinality(Requests) \in Nat /\ kLast \in Nat
  BY TxPowerAssumption, FS_CardinalityType
<1> QED BY <1>1, <1>3, <1>4, BufferingIsFinite DEF StepsLeft

\* Requests that overlap, and share the cursor, never keep each other going: but
\* for a new request, every step leaves fewer to come.  With the fairness of
\* FairSpec that is why RequestsEnd.
THEOREM RequestsComeToAnEnd ==
    Spec => [](StepsLeft \in Nat) /\ [][NewRequest \/ StepsLeft' < StepsLeft]_vars
<1>1. IInv => StepsLeft \in Nat
  BY StepsLeftType DEF IInv
<1>2. IInv /\ [Next]_vars => [NewRequest \/ StepsLeft' < StepsLeft]_vars
  <2> SUFFICES ASSUME IInv, Next
               PROVE  NewRequest \/ StepsLeft' < StepsLeft
    OBVIOUS
  <2> QED BY GotBufferComesCloser, AnswerComesCloser DEF Next, NewRequest
<1> QED BY <1>1, <1>2, Invariance, PTL DEF Spec

===============================================================================
