---------------------------- MODULE CmdSendProofs ----------------------------
(***************************************************************************)
(* Proofs about CmdSend, for any buffers, any depth of the queue, any      *)
(* modulus of the ids and any timeouts.  First what the searches of        *)
(* zb_buf.hpp return, then types, which hold in every run, then who owns   *)
(* the buffers and the alarms, which is known as long as ZBOSS has         *)
(* accepted every alarm, and last that CmdPromise is kept, which again     *)
(* holds in every run.                                                     *)
(***************************************************************************)
EXTENDS CmdSend, NatMin, FiniteSetTheorems, FunctionTheorems

\* The buffers in the pool.
Pooled == {bufs[i] : i \in FullSlots(bufs)}

\* No buffer is in two slots, and all of them are ZBOSS's loans.
PoolOwned ==
    /\ \A i, j \in FullSlots(bufs) : bufs[i] = bufs[j] => i = j
    /\ Pooled \subseteq lent

\* What is lent and not in the pool carries one packet.
PacketsOwned == \A b \in Bufs : inflight[b] = IF b \in lent \ Pooled THEN 1 ELSE 0

\* A command that waits for its report has a buffer of its own, which carries
\* its packet, and one alarm.
CommandsOwned ==
    /\ \A i, j \in Slots :
          g_IssuedCmds[i].buf = g_IssuedCmds[j].buf /\ g_IssuedCmds[i] # NoEntry => i = j
    /\ \A i \in Slots : g_IssuedCmds[i] # NoEntry => inflight[g_IssuedCmds[i].buf] = 1
    /\ \A b \in Bufs : alarms[b] = IF EntriesOf(b) = {} THEN 0 ELSE 1

\* Before init() there is nothing.
NothingBefore ==
    ~ ready =>
        /\ lent = {} /\ FullSlots(bufs) = {}
        /\ \A i \in Slots : g_IssuedCmds[i] = NoEntry
        /\ \A b \in Bufs : inflight[b] = 0

\* The inductive invariant.
IInv ==
    /\ TypeOK
    /\ Cardinality(lent) <= kCmdQueueSize
    /\ NothingBefore
    /\ ~ refused => PoolOwned /\ PacketsOwned /\ CommandsOwned

-----------------------------------------------------------------------------
(* What the searches and the operators return. *)

(* The first of the slots that fit is one of them. *)
LEMMA MinSlot ==
    ASSUME NEW S \in SUBSET Slots, S # {}
    PROVE  Min(S) \in S
<1>1. S \in SUBSET Nat
  BY CmdSendAssumption DEF Slots
<1> QED BY <1>1, MinIsLeast

(* Cancelling an alarm that may be there takes one away, if there is one. *)
LEMMA OneLess ==
    ASSUME NEW n \in Nat
    PROVE  Max({n - 1, 0}) = IF n = 0 THEN 0 ELSE n - 1
<1> DEFINE m == IF n = 0 THEN 0 ELSE n - 1
<1>1. m \in {n - 1, 0} /\ \A y \in {n - 1, 0} : m >= y
  OBVIOUS
<1>2. \A x \in {n - 1, 0} : (\A y \in {n - 1, 0} : x >= y) => x = m
  OBVIOUS
<1>3. Max({n - 1, 0}) = CHOOSE x \in {n - 1, 0} : \A y \in {n - 1, 0} : x >= y
  BY DEF Max
<1> HIDE DEF m
<1>4. Max({n - 1, 0}) = m
  BY <1>1, <1>2, <1>3
<1> QED BY <1>4 DEF m

(* allocate() empties a slot that held a buffer. *)
LEMMA AllocatedFacts ==
    ASSUME TypeOK, FullSlots(bufs) # {}
    PROVE  \E n \in Slots :
              /\ n \in FullSlots(bufs)
              /\ NextBuf = bufs[n] /\ NextBuf \in Bufs
              /\ Allocated = [bufs EXCEPT ![n] = ZB_BUF_INVALID]
<1> DEFINE n == Min(FullSlots(bufs))
<1>1. n \in FullSlots(bufs)
  BY MinSlot DEF FullSlots
<1>2. n \in Slots /\ NextBuf = bufs[n] /\ NextBuf \in Bufs
  BY <1>1 DEF FullSlots, NextBuf, TypeOK
<1> QED BY <1>1, <1>2 DEF Allocated

(* deallocate() fills a slot that was empty. *)
LEMMA DeallocateFacts ==
    ASSUME NEW s, NEW b, Deallocate(s, b)
    PROVE  \E m \in Slots : s[m] = ZB_BUF_INVALID /\ bufs' = [s EXCEPT ![m] = b]
<1>1. Min(EmptySlots(s)) \in EmptySlots(s)
  BY MinSlot DEF Deallocate, EmptySlots
<1> QED BY <1>1 DEF Deallocate, EmptySlots

(* A buffer that is taken and given back at once leaves as many as before, in
   slots of their own. *)
LEMMA TakenAndGivenBack ==
    ASSUME TypeOK, FullSlots(bufs) # {}, Deallocate(Allocated, NextBuf)
    PROVE  /\ bufs' \in [Slots -> Bufs \cup {ZB_BUF_INVALID}]
           /\ Pooled' = Pooled
           /\ PoolOwned /\ lent' = lent => PoolOwned'
           /\ FullSlots(bufs') # {}
<1>1. PICK n \in Slots :
         /\ n \in FullSlots(bufs)
         /\ NextBuf = bufs[n] /\ NextBuf \in Bufs
         /\ Allocated = [bufs EXCEPT ![n] = ZB_BUF_INVALID]
  BY AllocatedFacts
<1>2. PICK m \in Slots :
         /\ Allocated[m] = ZB_BUF_INVALID
         /\ bufs' = [Allocated EXCEPT ![m] = NextBuf]
  BY DeallocateFacts
<1>3. bufs' \in [Slots -> Bufs \cup {ZB_BUF_INVALID}]
  BY <1>1, <1>2 DEF TypeOK
<1>4. NextBuf # ZB_BUF_INVALID
  BY <1>1, CmdSendAssumption
<1>5. \A i \in Slots : bufs'[i] = IF i = m THEN bufs[n]
                                  ELSE IF i = n THEN ZB_BUF_INVALID ELSE bufs[i]
  BY <1>1, <1>2 DEF TypeOK
<1>6. m = n \/ bufs[m] = ZB_BUF_INVALID
  BY <1>1, <1>2 DEF TypeOK
<1>7. Pooled' = Pooled
  BY <1>1, <1>4, <1>5, <1>6 DEF Pooled, FullSlots
<1>8. ASSUME PoolOwned, lent' = lent
      PROVE  PoolOwned'
  <2>1. ASSUME NEW i \in FullSlots(bufs'), NEW j \in FullSlots(bufs'), bufs'[i] = bufs'[j]
        PROVE  i = j
    BY <1>1, <1>4, <1>5, <1>6, <1>8, <2>1 DEF PoolOwned, FullSlots
  <2> QED BY <1>7, <1>8, <2>1 DEF PoolOwned
<1>9. m \in FullSlots(bufs')
  BY <1>1, <1>4, <1>5 DEF FullSlots
<1> QED BY <1>3, <1>7, <1>8, <1>9

-----------------------------------------------------------------------------
(* Types. *)

(* An entry of the table for a buffer is that of a command. *)
LEMMA EntryFacts ==
    ASSUME TypeOK, NEW b \in Bufs, EntriesOf(b) # {}
    PROVE  \E i \in Slots :
              /\ Min(EntriesOf(b)) = i
              /\ g_IssuedCmds[i] \in Entry
              /\ g_IssuedCmds[i] # NoEntry
              /\ g_IssuedCmds[i].buf = b
<1>1. Min(EntriesOf(b)) \in EntriesOf(b)
  BY MinSlot DEF EntriesOf
<1>2. \A i \in EntriesOf(b) : i \in Slots /\ g_IssuedCmds[i].buf = b
  BY DEF EntriesOf
<1>3. \A i \in EntriesOf(b) : g_IssuedCmds[i] # NoEntry
  BY <1>2, CmdSendAssumption DEF NoEntry
<1>4. \A i \in EntriesOf(b) : g_IssuedCmds[i] \in Entry
  BY <1>2, <1>3 DEF TypeOK
<1> QED BY <1>1, <1>2, <1>3, <1>4

(* An entry is free or that of a command, and the one that is found free is. *)
LEMMA FreeEntryFacts ==
    ASSUME TypeOK, EntriesOf(ZB_BUF_INVALID) # {}
    PROVE  \E i \in Slots :
              Min(EntriesOf(ZB_BUF_INVALID)) = i /\ g_IssuedCmds[i] = NoEntry
<1>1. Min(EntriesOf(ZB_BUF_INVALID)) \in EntriesOf(ZB_BUF_INVALID)
  BY MinSlot DEF EntriesOf
<1>2. \A i \in EntriesOf(ZB_BUF_INVALID) : i \in Slots /\ g_IssuedCmds[i].buf \notin Bufs
  BY CmdSendAssumption DEF EntriesOf
<1>3. \A i \in EntriesOf(ZB_BUF_INVALID) : g_IssuedCmds[i] = NoEntry
  BY <1>2 DEF TypeOK, Entry
<1> QED BY <1>1, <1>2, <1>3

(* NextId stays an id. *)
LEMMA NextIdType ==
    ASSUME TypeOK
    PROVE  NextId \in CmdIds
BY CmdSendAssumption DEF NextId, CmdIds, TypeOK

LEMMA InitTypes == Init => TypeOK
<1> SUFFICES ASSUME Init PROVE TypeOK
  OBVIOUS
<1>1. /\ bufs \in [Slots -> Bufs \cup {ZB_BUF_INVALID}]
      /\ g_IssuedCmds \in [Slots -> Entry \cup {NoEntry}]
  BY DEF Init
<1>2. g_cmd_num \in CmdIds
  BY CmdSendAssumption DEF Init, CmdIds
<1>3. 0 \in 0 .. kMaxInFlight
  BY CmdSendAssumption
<1>4. inflight \in [Bufs -> 0 .. kMaxInFlight] /\ alarms \in [Bufs -> Nat]
  BY <1>3 DEF Init
<1> QED BY <1>1, <1>2, <1>4 DEF Init, TypeOK

(* A packet is handed to ZBOSS. *)
LEMMA PacketSentTypes ==
    ASSUME TypeOK, PacketSent
    PROVE  /\ inflight' \in [Bufs -> 0 .. kMaxInFlight]
           /\ Allocated \in [Slots -> Bufs \cup {ZB_BUF_INVALID}]
           /\ NextBuf \in Bufs
<1>1. \E n \in Slots : /\ NextBuf = bufs[n] /\ NextBuf \in Bufs
                       /\ Allocated = [bufs EXCEPT ![n] = ZB_BUF_INVALID]
  BY AllocatedFacts DEF PacketSent, CanSend
<1>2. Allocated \in [Slots -> Bufs \cup {ZB_BUF_INVALID}]
  BY <1>1 DEF TypeOK
<1>3. inflight' \in [Bufs -> 0 .. kMaxInFlight]
  BY <1>1, CmdSendAssumption DEF PacketSent, TypeOK
<1> QED BY <1>1, <1>2, <1>3

(* A report takes an entry and enters the callback. *)
LEMMA ReportTypes ==
    ASSUME TypeOK, NEW b \in Bufs, EntriesOf(b) # {},
           NEW status \in Bufs \cup {NoStatus}, Report(Min(EntriesOf(b)), status)
    PROVE  /\ g_IssuedCmds' \in [Slots -> Entry \cup {NoEntry}]
           /\ call' \in Reports
<1>1. PICK i \in Slots : Min(EntriesOf(b)) = i /\ g_IssuedCmds[i] \in Entry
  BY EntryFacts
<1>2. call' \in Reports
  BY <1>1 DEF Report, Reports, Entry
<1>3. g_IssuedCmds' \in [Slots -> Entry \cup {NoEntry}]
  BY <1>1 DEF Report, TypeOK
<1> QED BY <1>2, <1>3

LEMMA NextTypes ==
    ASSUME TypeOK, [Next]_vars
    PROVE  TypeOK'
<1>1. CASE InitBufs
  <2>1. bufs' \in [Slots -> Bufs \cup {ZB_BUF_INVALID}]
    BY <1>1 DEF InitBufs
  <2>2. lent' \subseteq Bufs
    BY <1>1, <2>1 DEF InitBufs, FullSlots
  <2> QED BY <1>1, <2>1, <2>2 DEF InitBufs, TypeOK
<1>2. CASE SendFails
  <2>1. bufs' \in [Slots -> Bufs \cup {ZB_BUF_INVALID}]
    BY <1>2, TakenAndGivenBack DEF SendFails, CanSend
  <2> QED BY <1>2, <2>1 DEF SendFails, TypeOK
<1>3. CASE SendUntracked
  BY <1>3, PacketSentTypes, NextIdType DEF SendUntracked, TypeOK
<1>4. ASSUME NEW timeout \in Timeouts, SendTracked(timeout)
      PROVE  TypeOK'
  <2>1. NewEntry(timeout) \in Entry
    BY <1>4, PacketSentTypes DEF SendTracked, NewEntry, Entry, TypeOK
  <2>2. g_IssuedCmds' \in [Slots -> Entry \cup {NoEntry}]
    BY <1>4, <2>1 DEF SendTracked, TypeOK
  <2>3. alarms' \in [Bufs -> Nat]
    BY <1>4, PacketSentTypes DEF SendTracked, ArmAlarm, TypeOK
  <2> QED BY <1>4, <2>2, <2>3, PacketSentTypes, NextIdType DEF SendTracked, TypeOK
<1>5. CASE AlarmFails
  <2>1. bufs' \in [Slots -> Bufs \cup {ZB_BUF_INVALID}]
    BY <1>5, TakenAndGivenBack DEF AlarmFails, PacketSent, CanSend
  <2> QED BY <1>5, <2>1, PacketSentTypes DEF AlarmFails, TypeOK
<1>6. ASSUME NEW b \in Bufs, PacketDone(b)
      PROVE  /\ bufs' \in [Slots -> Bufs \cup {ZB_BUF_INVALID}]
             /\ inflight' \in [Bufs -> 0 .. kMaxInFlight]
  <2>1. \E m \in Slots : bufs' = [bufs EXCEPT ![m] = b]
    BY <1>6, DeallocateFacts DEF PacketDone
  <2> QED BY <1>6, <2>1, CmdSendAssumption DEF PacketDone, TypeOK
<1>7. ASSUME NEW b \in Bufs, Answered(b)
      PROVE  TypeOK'
  <2>1. alarms' \in [Bufs -> Nat]
    <3>1. Max({alarms[b] - 1, 0}) \in Nat
      BY OneLess DEF TypeOK
    <3> QED BY <1>7, <3>1 DEF Answered, TypeOK
  <2>2. g_IssuedCmds' \in [Slots -> Entry \cup {NoEntry}] /\ call' \in Reports
    BY <1>7, ReportTypes DEF Answered
  <2> QED BY <1>6, <1>7, <2>1, <2>2 DEF Answered, TypeOK
<1>8. ASSUME NEW b \in Bufs, AnsweredLate(b)
      PROVE  TypeOK'
  BY <1>6, <1>8 DEF AnsweredLate, TypeOK
<1>9. ASSUME NEW b \in Bufs, TimedOut(b)
      PROVE  TypeOK'
  <2>1. alarms' \in [Bufs -> Nat]
    BY <1>9 DEF TimedOut, TypeOK
  <2>2. g_IssuedCmds' \in [Slots -> Entry \cup {NoEntry}] /\ call' \in Reports
    BY <1>9, ReportTypes DEF TimedOut
  <2> QED BY <1>9, <2>1, <2>2 DEF TimedOut, TypeOK
<1>10. CASE Return
  BY <1>10 DEF Return, TypeOK
<1>11. CASE SendRefused \/ UNCHANGED vars
  BY <1>11 DEF SendRefused, vars, TypeOK
<1> QED
  BY <1>1, <1>2, <1>3, <1>4, <1>5, <1>7, <1>8, <1>9, <1>10, <1>11 DEF Next

(* Every variable keeps its type, in the runs in which an alarm was refused
   too. *)
THEOREM TypeCorrect == Spec => []TypeOK
BY InitTypes, NextTypes, PTL DEF Spec

-----------------------------------------------------------------------------
(* Who owns the buffers and the alarms. *)

(* A packet leaves with a buffer of the pool, which carried none. *)
LEMMA PacketTaken ==
    ASSUME TypeOK, PoolOwned, PacketsOwned,
           PacketSent, bufs' = Allocated, lent' = lent
    PROVE  /\ NextBuf \in Bufs /\ inflight[NextBuf] = 0
           /\ inflight' = [inflight EXCEPT ![NextBuf] = 1]
           /\ PoolOwned' /\ PacketsOwned'
<1>1. PICK n \in Slots :
         /\ n \in FullSlots(bufs)
         /\ NextBuf = bufs[n] /\ NextBuf \in Bufs
         /\ bufs' = [bufs EXCEPT ![n] = ZB_BUF_INVALID]
  BY AllocatedFacts DEF PacketSent, CanSend
<1> DEFINE b == NextBuf
<1>2. b \in Pooled /\ b \in lent
  BY <1>1 DEF Pooled, PoolOwned
<1>3. inflight[b] = 0
  BY <1>1, <1>2 DEF PacketsOwned
<1>4. inflight' = [inflight EXCEPT ![b] = 1]
  BY <1>1, <1>3 DEF PacketSent, TypeOK
<1>5. FullSlots(bufs') = FullSlots(bufs) \ {n}
  BY <1>1 DEF FullSlots, TypeOK
<1>6. \A i \in FullSlots(bufs') : bufs'[i] = bufs[i] /\ bufs[i] # b
  BY <1>1, <1>5 DEF PoolOwned, FullSlots, TypeOK
<1>7. Pooled' = Pooled \ {b}
  <2>1. \A x \in Pooled' : x \in Pooled \ {b}
    BY <1>5, <1>6 DEF Pooled
  <2>2. ASSUME NEW x \in Pooled \ {b}
        PROVE  x \in Pooled'
    <3>1. PICK i \in FullSlots(bufs) : bufs[i] = x
      BY <2>2 DEF Pooled
    <3>2. i \in FullSlots(bufs') /\ bufs'[i] = x
      BY <1>1, <1>5, <1>6, <2>2, <3>1
    <3> QED BY <3>2 DEF Pooled
  <2> QED BY <2>1, <2>2
<1>8. PoolOwned'
  BY <1>5, <1>6, <1>7 DEF PoolOwned
<1>9. PacketsOwned'
  <2>1. \A c \in Bufs : inflight'[c] = IF c = b THEN 1 ELSE inflight[c]
    BY <1>1, <1>4 DEF TypeOK
  <2> QED BY <1>2, <1>7, <2>1 DEF PacketsOwned
<1> QED BY <1>1, <1>3, <1>4, <1>8, <1>9

(* ZBOSS gives back a buffer that was on its way, to the pool. *)
LEMMA PacketGivenBack ==
    ASSUME TypeOK, PoolOwned, PacketsOwned,
           NEW b \in Bufs, PacketDone(b), lent' = lent
    PROVE  /\ inflight[b] = 1
           /\ inflight' = [inflight EXCEPT ![b] = 0]
           /\ PoolOwned' /\ PacketsOwned'
<1>1. PICK m \in Slots :
         bufs[m] = ZB_BUF_INVALID /\ bufs' = [bufs EXCEPT ![m] = b]
  BY DeallocateFacts DEF PacketDone
<1>2. inflight[b] = 1 /\ b \in lent /\ b \notin Pooled
  BY DEF PacketDone, PacketsOwned
<1>3. inflight' = [inflight EXCEPT ![b] = 0]
  BY <1>2 DEF PacketDone, TypeOK
<1>4. b # ZB_BUF_INVALID
  BY CmdSendAssumption
<1>5. FullSlots(bufs') = FullSlots(bufs) \cup {m} /\ m \notin FullSlots(bufs)
  BY <1>1, <1>4 DEF FullSlots, TypeOK
<1>6. /\ \A i \in FullSlots(bufs) : bufs'[i] = bufs[i] /\ bufs[i] # b
      /\ bufs'[m] = b
  BY <1>1, <1>2, <1>5 DEF FullSlots, Pooled, TypeOK
<1>7. Pooled' = Pooled \cup {b}
  BY <1>5, <1>6 DEF Pooled
<1>8. PoolOwned'
  BY <1>2, <1>5, <1>6, <1>7 DEF PoolOwned
<1>9. PacketsOwned'
  <2>1. \A c \in Bufs : inflight'[c] = IF c = b THEN 0 ELSE inflight[c]
    BY <1>3 DEF TypeOK
  <2> QED BY <1>2, <1>7, <2>1 DEF PacketsOwned
<1> QED BY <1>2, <1>3, <1>8, <1>9

(* The command reported is the only one with its buffer. *)
LEMMA CommandReported ==
    ASSUME TypeOK, CommandsOwned, NEW b \in Bufs, EntriesOf(b) # {},
           NEW status, Report(Min(EntriesOf(b)), status)
    PROVE  /\ EntriesOf(b)' = {}
           /\ \A c \in Bufs \ {b} : EntriesOf(c)' = EntriesOf(c)
           /\ \A i \in Slots : g_IssuedCmds'[i] # NoEntry =>
                 g_IssuedCmds'[i] = g_IssuedCmds[i] /\ g_IssuedCmds[i].buf # b
           /\ alarms[b] = 1
<1>1. PICK i \in Slots :
         /\ Min(EntriesOf(b)) = i
         /\ g_IssuedCmds[i] # NoEntry
         /\ g_IssuedCmds[i].buf = b
  BY EntryFacts
<1>2. g_IssuedCmds' = [g_IssuedCmds EXCEPT ![i] = NoEntry]
  BY <1>1 DEF Report
<1>3. \A j \in Slots : g_IssuedCmds'[j] = IF j = i THEN NoEntry ELSE g_IssuedCmds[j]
  BY <1>2 DEF TypeOK
<1>4. \A c \in Bufs : NoEntry.buf # c
  BY CmdSendAssumption DEF NoEntry
<1>5. \A j \in Slots : g_IssuedCmds[j].buf = b => j = i
  BY <1>1 DEF CommandsOwned
<1>6. EntriesOf(b)' = {}
  BY <1>3, <1>4, <1>5 DEF EntriesOf
<1>7. ASSUME NEW c \in Bufs \ {b}
      PROVE  EntriesOf(c)' = EntriesOf(c)
  BY <1>1, <1>3, <1>4 DEF EntriesOf
<1>8. alarms[b] = 1
  BY DEF CommandsOwned
<1> QED BY <1>3, <1>5, <1>6, <1>7, <1>8

(* init() borrows no more buffers than the pool has slots. *)
LEMMA LoansFit ==
    ASSUME NEW s \in [Slots -> Bufs \cup {ZB_BUF_INVALID}]
    PROVE  Cardinality({s[i] : i \in FullSlots(s)}) <= kCmdQueueSize
<1> DEFINE F == FullSlots(s)
           L == {s[i] : i \in F}
           f == [i \in F |-> s[i]]
<1>1. IsFiniteSet(Slots) /\ Cardinality(Slots) = kCmdQueueSize
  BY CmdSendAssumption, FS_Interval DEF Slots
<1>2. F \subseteq Slots
  BY DEF FullSlots
<1>3. IsFiniteSet(F) /\ Cardinality(F) <= kCmdQueueSize
  BY <1>1, <1>2, FS_Subset
<1>4. f \in Surjection(F, L)
  BY DEF Surjection
<1> HIDE DEF F, L, f
<1>5. IsFiniteSet(L) /\ Cardinality(L) <= Cardinality(F)
  BY <1>3, <1>4, FS_Surjection
<1>6. Cardinality(L) \in Nat /\ Cardinality(F) \in Nat
  BY <1>3, <1>5, FS_CardinalityType
<1> QED BY <1>3, <1>5, <1>6, CmdSendAssumption DEF F, L

LEMMA InitOwned == Init => IInv
<1> SUFFICES ASSUME Init PROVE IInv
  OBVIOUS
<1>1. TypeOK
  BY InitTypes
<1>2. FullSlots(bufs) = {} /\ Pooled = {} /\ lent = {}
  BY DEF Init, FullSlots, Pooled
<1>3. Cardinality(lent) <= kCmdQueueSize
  BY <1>2, FS_EmptySet, CmdSendAssumption
<1>4. \A i \in Slots : g_IssuedCmds[i] = NoEntry
  BY DEF Init
<1>5. PoolOwned /\ PacketsOwned
  BY <1>2 DEF PoolOwned, PacketsOwned, Init
<1>6. \A b \in Bufs : EntriesOf(b) = {}
  BY <1>4, CmdSendAssumption DEF EntriesOf, NoEntry
<1>7. CommandsOwned
  BY <1>4, <1>6 DEF CommandsOwned, Init
<1>8. \A b \in Bufs : inflight[b] = 0
  BY DEF Init
<1> QED BY <1>1, <1>2, <1>3, <1>4, <1>5, <1>7, <1>8 DEF IInv, NothingBefore

(* What init() leaves is owned. *)
LEMMA InitBufsOwned ==
    ASSUME IInv, InitBufs
    PROVE  IInv'
<1>1. TypeOK'
  BY NextTypes DEF IInv, Next
<1>2. Cardinality(lent)' <= kCmdQueueSize
  BY LoansFit DEF InitBufs
<1>3. NothingBefore'
  BY DEF InitBufs, NothingBefore
<1>4. ASSUME ~ refused'
      PROVE  PoolOwned' /\ PacketsOwned' /\ CommandsOwned'
  <2>1. ~ refused /\ \A b \in Bufs : inflight[b] = 0
    BY <1>4 DEF InitBufs, IInv, NothingBefore, PacketsOwned
  <2>2. lent' = Pooled'
    BY DEF InitBufs, Pooled
  <2>3. PoolOwned'
    BY <2>2 DEF InitBufs, PoolOwned
  <2>4. PacketsOwned'
    BY <2>1, <2>2 DEF InitBufs, PacketsOwned
  <2>5. CommandsOwned'
    BY <2>1 DEF InitBufs, IInv, CommandsOwned, EntriesOf
  <2> QED BY <2>3, <2>4, <2>5
<1> QED BY <1>1, <1>2, <1>3, <1>4 DEF IInv

(* A command is sent, with a callback or without. *)
LEMMA SentOwned ==
    ASSUME IInv, ~ refused, PacketSent, bufs' = Allocated, lent' = lent,
           \/ UNCHANGED <<g_IssuedCmds, alarms>>
           \/ \E timeout \in Timeouts :
                 /\ g_IssuedCmds' = [g_IssuedCmds EXCEPT
                       ![Min(EntriesOf(ZB_BUF_INVALID))] = NewEntry(timeout)]
                 /\ ArmAlarm(timeout)
    PROVE  PoolOwned' /\ PacketsOwned' /\ CommandsOwned'
<1>1. TypeOK /\ PoolOwned /\ PacketsOwned /\ CommandsOwned
  BY DEF IInv
<1>1a. PICK b \in Bufs : b = NextBuf
  BY <1>1, PacketTaken
<1>2. /\ inflight[b] = 0
      /\ inflight' = [inflight EXCEPT ![b] = 1]
      /\ PoolOwned' /\ PacketsOwned'
  BY <1>1a, <1>1, PacketTaken
<1>3. \A i \in Slots : g_IssuedCmds[i] # NoEntry => g_IssuedCmds[i].buf \in Bufs \ {b}
  BY <1>1, <1>2 DEF CommandsOwned, TypeOK, Entry
<1>4. \A c \in Bufs : inflight'[c] = IF c = b THEN 1 ELSE inflight[c]
  BY <1>1, <1>2 DEF TypeOK
<1>5. \A c \in Bufs : NoEntry.buf # c
  BY CmdSendAssumption DEF NoEntry
<1>6. EntriesOf(b) = {} /\ alarms[b] = 0
  BY <1>1, <1>2, <1>3, <1>5 DEF EntriesOf, CommandsOwned
<1>7. CASE UNCHANGED <<g_IssuedCmds, alarms>>
  BY <1>1, <1>2, <1>3, <1>4, <1>7 DEF CommandsOwned, EntriesOf
<1>8. ASSUME NEW timeout \in Timeouts,
             g_IssuedCmds' = [g_IssuedCmds EXCEPT
                ![Min(EntriesOf(ZB_BUF_INVALID))] = NewEntry(timeout)],
             ArmAlarm(timeout)
      PROVE  CommandsOwned'
  <2>1. PICK k \in Slots : Min(EntriesOf(ZB_BUF_INVALID)) = k /\ g_IssuedCmds[k] = NoEntry
    BY <1>1, FreeEntryFacts DEF PacketSent, CanSend
  <2>2. \A i \in Slots : g_IssuedCmds'[i] = IF i = k THEN NewEntry(timeout) ELSE g_IssuedCmds[i]
    BY <1>1, <1>8, <2>1 DEF TypeOK
  <2>3. NewEntry(timeout).buf = b
    BY <1>1a DEF NewEntry
  <2>4. \A i, j \in Slots : g_IssuedCmds'[i].buf = g_IssuedCmds'[j].buf
                            /\ g_IssuedCmds'[i] # NoEntry => i = j
    BY <1>1, <1>2, <1>3, <1>5, <2>1, <2>2, <2>3 DEF CommandsOwned
  <2>5. \A i \in Slots : g_IssuedCmds'[i] # NoEntry => inflight'[g_IssuedCmds'[i].buf] = 1
    BY <1>1, <1>2, <1>3, <1>4, <2>2, <2>3 DEF CommandsOwned
  <2>6. k \in EntriesOf(b)'
    BY <2>2, <2>3 DEF EntriesOf
  <2>7. \A c \in Bufs \ {b} : EntriesOf(c)' = EntriesOf(c)
    BY <1>5, <2>1, <2>2, <2>3 DEF EntriesOf
  <2>8. \A c \in Bufs : alarms'[c] = IF c = b THEN 1 ELSE alarms[c]
    BY <1>1a, <1>1, <1>6, <1>8 DEF ArmAlarm, TypeOK
  <2>9. \A c \in Bufs : alarms'[c] = IF EntriesOf(c)' = {} THEN 0 ELSE 1
    BY <1>1, <2>6, <2>7, <2>8 DEF CommandsOwned
  <2> QED BY <2>4, <2>5, <2>9 DEF CommandsOwned
<1> QED BY <1>2, <1>7, <1>8

(* A command that waits is reported by its answer. *)
LEMMA AnsweredOwned ==
    ASSUME IInv, ~ refused, NEW b \in Bufs, Answered(b)
    PROVE  PoolOwned' /\ PacketsOwned' /\ CommandsOwned'
<1>1. TypeOK /\ PoolOwned /\ PacketsOwned /\ CommandsOwned
  BY DEF IInv
<1>2. /\ inflight' = [inflight EXCEPT ![b] = 0]
      /\ PoolOwned' /\ PacketsOwned'
  BY <1>1, PacketGivenBack DEF Answered
<1>3. /\ EntriesOf(b)' = {}
      /\ \A c \in Bufs \ {b} : EntriesOf(c)' = EntriesOf(c)
      /\ \A i \in Slots : g_IssuedCmds'[i] # NoEntry =>
            g_IssuedCmds'[i] = g_IssuedCmds[i] /\ g_IssuedCmds[i].buf # b
      /\ alarms[b] = 1
  BY <1>1, CommandReported DEF Answered
<1>4. \A i \in Slots : g_IssuedCmds[i] # NoEntry => g_IssuedCmds[i].buf \in Bufs
  BY <1>1 DEF TypeOK, Entry
<1>5. \A c \in Bufs \ {b} : inflight'[c] = inflight[c]
  BY <1>1, <1>2 DEF TypeOK
<1>6. \A i, j \in Slots : g_IssuedCmds'[i].buf = g_IssuedCmds'[j].buf
                          /\ g_IssuedCmds'[i] # NoEntry => i = j
  <2> SUFFICES ASSUME NEW i \in Slots, NEW j \in Slots, g_IssuedCmds'[i] # NoEntry,
                      g_IssuedCmds'[i].buf = g_IssuedCmds'[j].buf
               PROVE  i = j
    OBVIOUS
  <2>1. g_IssuedCmds'[i].buf \in Bufs
    BY <1>3, <1>4
  <2>2. g_IssuedCmds'[j] # NoEntry
    BY <2>1, CmdSendAssumption DEF NoEntry
  <2> QED BY <1>1, <1>3, <2>2 DEF CommandsOwned
<1>7. \A i \in Slots : g_IssuedCmds'[i] # NoEntry => inflight'[g_IssuedCmds'[i].buf] = 1
  BY <1>1, <1>3, <1>4, <1>5 DEF CommandsOwned
<1>8. alarms'[b] = 0 /\ \A c \in Bufs \ {b} : alarms'[c] = alarms[c]
  <2>1. Max({alarms[b] - 1, 0}) = 0
    BY <1>1, <1>3, OneLess
  <2> QED BY <1>1, <2>1 DEF Answered, TypeOK
<1>9. CommandsOwned'
  BY <1>1, <1>3, <1>6, <1>7, <1>8 DEF CommandsOwned
<1> QED BY <1>2, <1>9

(* ... or by its alarm, and then nobody waits for the answer. *)
LEMMA TimedOutOwned ==
    ASSUME IInv, ~ refused, NEW b \in Bufs, TimedOut(b)
    PROVE  PoolOwned' /\ PacketsOwned' /\ CommandsOwned'
<1>1. TypeOK /\ PoolOwned /\ PacketsOwned /\ CommandsOwned
  BY DEF IInv
<1>2. PoolOwned' /\ PacketsOwned'
  BY <1>1 DEF TimedOut, PoolOwned, PacketsOwned, Pooled
<1>3. /\ EntriesOf(b)' = {}
      /\ \A c \in Bufs \ {b} : EntriesOf(c)' = EntriesOf(c)
      /\ \A i \in Slots : g_IssuedCmds'[i] # NoEntry =>
            g_IssuedCmds'[i] = g_IssuedCmds[i] /\ g_IssuedCmds[i].buf # b
      /\ alarms[b] = 1
  BY <1>1, CommandReported DEF TimedOut
<1>4. \A i \in Slots : g_IssuedCmds[i] # NoEntry => g_IssuedCmds[i].buf \in Bufs
  BY <1>1 DEF TypeOK, Entry
<1>5. \A i, j \in Slots : g_IssuedCmds'[i].buf = g_IssuedCmds'[j].buf
                          /\ g_IssuedCmds'[i] # NoEntry => i = j
  <2> SUFFICES ASSUME NEW i \in Slots, NEW j \in Slots, g_IssuedCmds'[i] # NoEntry,
                      g_IssuedCmds'[i].buf = g_IssuedCmds'[j].buf
               PROVE  i = j
    OBVIOUS
  <2>1. g_IssuedCmds'[j] # NoEntry
    BY <1>3, <1>4, CmdSendAssumption DEF NoEntry
  <2> QED BY <1>1, <1>3, <2>1 DEF CommandsOwned
<1>6. \A i \in Slots : g_IssuedCmds'[i] # NoEntry => inflight'[g_IssuedCmds'[i].buf] = 1
  BY <1>1, <1>3 DEF CommandsOwned, TimedOut
<1>7. alarms'[b] = 0 /\ \A c \in Bufs \ {b} : alarms'[c] = alarms[c]
  BY <1>1, <1>3 DEF TimedOut, TypeOK
<1>8. CommandsOwned'
  BY <1>1, <1>3, <1>5, <1>6, <1>7 DEF CommandsOwned
<1> QED BY <1>2, <1>8

(* An answer nobody waits for only brings its buffer back. *)
LEMMA AnsweredLateOwned ==
    ASSUME IInv, ~ refused, NEW b \in Bufs, AnsweredLate(b)
    PROVE  PoolOwned' /\ PacketsOwned' /\ CommandsOwned'
<1>1. TypeOK /\ PoolOwned /\ PacketsOwned /\ CommandsOwned
  BY DEF IInv
<1>2. /\ inflight' = [inflight EXCEPT ![b] = 0]
      /\ PoolOwned' /\ PacketsOwned'
  BY <1>1, PacketGivenBack DEF AnsweredLate
<1>3. \A i \in Slots : g_IssuedCmds[i].buf # b
  BY DEF AnsweredLate, EntriesOf
<1>4. \A i \in Slots : g_IssuedCmds[i] # NoEntry => inflight'[g_IssuedCmds[i].buf] = 1
  <2> SUFFICES ASSUME NEW i \in Slots, g_IssuedCmds[i] # NoEntry
               PROVE  inflight'[g_IssuedCmds[i].buf] = 1
    OBVIOUS
  <2>1. g_IssuedCmds[i].buf \in Bufs \ {b}
    BY <1>1, <1>3 DEF TypeOK, Entry
  <2> QED BY <1>1, <1>2, <2>1 DEF CommandsOwned, TypeOK
<1>5. CommandsOwned'
  BY <1>1, <1>4 DEF CommandsOwned, AnsweredLate, EntriesOf
<1> QED BY <1>2, <1>5

(* Nothing happens before init(), and it borrows once. *)
LEMMA AfterInit ==
    ASSUME IInv, Next, ~ InitBufs
    PROVE  /\ ready' = ready /\ lent' = lent
           /\ NothingBefore'
<1>1. ready' = ready /\ lent' = lent
  BY DEF Next, SendRefused, SendFails, SendUntracked, SendTracked, AlarmFails,
         Answered, AnsweredLate, TimedOut, Return, vars
<1>2. ASSUME ~ ready
      PROVE  UNCHANGED <<bufs, g_IssuedCmds, inflight>>
  <2>1. /\ FullSlots(bufs) = {}
        /\ \A i \in Slots : g_IssuedCmds[i] = NoEntry
        /\ \A b \in Bufs : inflight[b] = 0
    BY <1>2 DEF IInv, NothingBefore
  <2>2. \A b \in Bufs : EntriesOf(b) = {}
    BY <2>1, CmdSendAssumption DEF EntriesOf, NoEntry
  <2>3. ~ CanSend
    BY <2>1 DEF CanSend
  <2>4. ~ SendFails /\ ~ SendUntracked /\ ~ AlarmFails
        /\ \A timeout \in Timeouts : ~ SendTracked(timeout)
    BY <2>3 DEF SendFails, SendUntracked, SendTracked, AlarmFails, PacketSent
  <2>5. \A b \in Bufs : ~ (inflight[b] > 0)
    BY <2>1
  <2>6. \A b \in Bufs : ~ Answered(b) /\ ~ AnsweredLate(b) /\ ~ TimedOut(b)
    BY <2>2, <2>5 DEF Answered, AnsweredLate, TimedOut, PacketDone
  <2>7. SendRefused \/ Return
    BY <2>4, <2>6 DEF Next
  <2> QED BY <2>7 DEF SendRefused, Return, vars
<1>3. NothingBefore'
  BY <1>1, <1>2 DEF IInv, NothingBefore
<1> QED BY <1>1, <1>3

LEMMA NextOwned ==
    ASSUME IInv, [Next]_vars
    PROVE  IInv'
<1>1. TypeOK'
  BY NextTypes DEF IInv
<1>2. CASE InitBufs
  BY <1>2, InitBufsOwned
<1>3. CASE UNCHANGED vars
  BY <1>3 DEF vars, IInv, TypeOK, NothingBefore, PoolOwned, PacketsOwned, Pooled,
              CommandsOwned, EntriesOf
<1>4. ASSUME Next, ~ InitBufs
      PROVE  IInv'
  <2>1. ready' = ready /\ lent' = lent /\ NothingBefore'
    BY <1>4, AfterInit
  <2>2. Cardinality(lent)' <= kCmdQueueSize
    BY <2>1 DEF IInv
  <2>3. ASSUME ~ refused'
        PROVE  PoolOwned' /\ PacketsOwned' /\ CommandsOwned'
    <3>1. ~ refused
      BY <1>4, <2>3
      DEF Next, SendRefused, SendFails, SendUntracked, SendTracked, AlarmFails,
          Answered, AnsweredLate, TimedOut, Return, vars
    <3>2. TypeOK /\ PoolOwned /\ PacketsOwned /\ CommandsOwned
      BY <3>1 DEF IInv
    <3>3. CASE SendRefused \/ Return
      BY <3>2, <3>3
      DEF SendRefused, Return, vars, PoolOwned, PacketsOwned, Pooled, CommandsOwned,
          EntriesOf
    <3>4. CASE SendFails
      <4>1. Pooled' = Pooled /\ PoolOwned'
        BY <2>1, <3>2, <3>4, TakenAndGivenBack DEF SendFails, CanSend
      <4>2. PacketsOwned' /\ CommandsOwned'
        BY <2>1, <3>2, <3>4, <4>1 DEF SendFails, PacketsOwned, CommandsOwned, EntriesOf
      <4> QED BY <4>1, <4>2
    <3>5. CASE SendUntracked
      BY <2>1, <3>1, <3>5, SentOwned DEF SendUntracked
    <3>6. ASSUME NEW timeout \in Timeouts, SendTracked(timeout)
          PROVE  PoolOwned' /\ PacketsOwned' /\ CommandsOwned'
      BY <2>1, <3>1, <3>6, SentOwned DEF SendTracked
    <3>7. CASE AlarmFails
      BY <2>3, <3>7 DEF AlarmFails
    <3>8. ASSUME NEW b \in Bufs, Answered(b) \/ AnsweredLate(b) \/ TimedOut(b)
          PROVE  PoolOwned' /\ PacketsOwned' /\ CommandsOwned'
      BY <3>1, <3>8, AnsweredOwned, AnsweredLateOwned, TimedOutOwned
    <3> QED BY <1>4, <3>3, <3>4, <3>5, <3>6, <3>7, <3>8 DEF Next
  <2> QED BY <1>1, <2>1, <2>2, <2>3 DEF IInv
<1> QED BY <1>2, <1>3, <1>4

(* In every run buffers, packets, commands and alarms belong together as IInv
   says, until ZBOSS refuses an alarm. *)
THEOREM Invariance == Spec => []IInv
BY InitOwned, NextOwned, PTL DEF Spec

-----------------------------------------------------------------------------
(* What follows from that. *)

(* zb_buf.hpp and the table lose, share and duplicate no buffer. *)
THEOREM BuffersAreConserved == Spec => []BuffersConserved
<1>1. IInv => BuffersConserved
  <2> SUFFICES ASSUME IInv, ~ refused, NEW b \in Bufs
               PROVE  Cardinality({i \in Slots : bufs[i] = b}) + inflight[b] =
                         IF b \in lent THEN 1 ELSE 0
    BY DEF BuffersConserved
  <2> DEFINE S == {i \in Slots : bufs[i] = b}
  <2>1. PoolOwned /\ PacketsOwned
    BY DEF IInv
  <2>2. S \subseteq FullSlots(bufs)
    BY CmdSendAssumption DEF FullSlots
  <2>3. CASE b \in Pooled
    <3>1. PICK i \in FullSlots(bufs) : bufs[i] = b
      BY <2>3 DEF Pooled
    <3>2. S = {i}
      BY <2>1, <2>2, <3>1 DEF PoolOwned, FullSlots
    <3>3. Cardinality(S) = 1
      BY <3>2, FS_Singleton
    <3>4. b \in lent /\ inflight[b] = 0
      BY <2>1, <2>3 DEF PoolOwned, PacketsOwned
    <3> QED BY <3>3, <3>4
  <2>4. CASE b \notin Pooled
    <3>1. S = {}
      BY <2>2, <2>4 DEF Pooled
    <3>2. Cardinality(S) = 0
      BY <3>1, FS_EmptySet
    <3>3. inflight[b] = IF b \in lent THEN 1 ELSE 0
      BY <2>1, <2>4 DEF PacketsOwned
    <3> QED BY <3>2, <3>3
  <2> QED BY <2>3, <2>4
<1> QED BY <1>1, Invariance, PTL

(* Alarms and table agree, and the packet of a command that waits is on its
   way. *)
THEOREM AlarmsBelong == Spec => []AlarmOfItsCommand
<1>1. IInv => AlarmOfItsCommand
  <2> SUFFICES ASSUME IInv, ~ refused, NEW b \in Bufs
               PROVE  /\ alarms[b] = Cardinality(EntriesOf(b))
                      /\ alarms[b] > 0 => inflight[b] = 1
    BY DEF AlarmOfItsCommand
  <2>1. CommandsOwned /\ TypeOK
    BY DEF IInv
  <2>2. CASE EntriesOf(b) = {}
    BY <2>1, <2>2, FS_EmptySet DEF CommandsOwned
  <2>3. CASE EntriesOf(b) # {}
    <3>1. PICK i \in Slots : g_IssuedCmds[i] # NoEntry /\ g_IssuedCmds[i].buf = b
      BY <2>1, <2>3, EntryFacts
    <3>2. EntriesOf(b) = {i}
      BY <2>1, <3>1 DEF CommandsOwned, EntriesOf
    <3>3. Cardinality(EntriesOf(b)) = 1
      BY <3>2, FS_Singleton
    <3> QED BY <2>1, <2>3, <3>1, <3>3 DEF CommandsOwned
  <2> QED BY <2>2, <2>3
<1> QED BY <1>1, Invariance, PTL

(* The slots of the pool, or of the table, cannot all hold different buffers
   that ZBOSS has lent while one more buffer is somewhere else. *)
LEMMA NoRoomForMore ==
    ASSUME lent \subseteq Bufs, Cardinality(lent) <= kCmdQueueSize,
           NEW b \in lent, NEW f \in [Slots -> lent \ {b}],
           \A i, j \in Slots : f[i] = f[j] => i = j
    PROVE  FALSE
<1>1. IsFiniteSet(lent)
  BY FS_Subset, CmdSendAssumption
<1>2. IsFiniteSet(lent \ {b}) /\ Cardinality(lent \ {b}) = Cardinality(lent) - 1
  BY <1>1, FS_RemoveElement
<1>3. f \in Injection(Slots, lent \ {b})
  BY DEF Injection, IsInjective
<1>4. Cardinality(Slots) <= Cardinality(lent \ {b})
  BY <1>2, <1>3, FS_Injection
<1>5. Cardinality(Slots) = kCmdQueueSize
  BY FS_Interval, CmdSendAssumption DEF Slots
<1>6. Cardinality(lent) \in Nat
  BY <1>1, FS_CardinalityType
<1> QED BY <1>2, <1>4, <1>5, <1>6, CmdSendAssumption

(* The assertions of send_cmd_impl, of on_send_cmd_timeout2 and of deallocate
   hold: were the table full, every slot of it would have a buffer that is on
   its way, and the pool none; were the pool full, no packet would be. *)
THEOREM AssertionsHold == Spec => []AssertsHoldIfArmed
<1>1. IInv => AssertsHoldIfArmed
  <2> SUFFICES ASSUME IInv, ~ refused PROVE AssertsHold
    BY DEF AssertsHoldIfArmed
  <2>1. /\ TypeOK /\ PoolOwned /\ PacketsOwned /\ CommandsOwned
        /\ lent \subseteq Bufs /\ Cardinality(lent) <= kCmdQueueSize
    BY DEF IInv, TypeOK
  <2>2. ASSUME NEW n \in FullSlots(bufs)
        PROVE  EntriesOf(ZB_BUF_INVALID) # {}
    <3> SUFFICES ASSUME EntriesOf(ZB_BUF_INVALID) = {} PROVE FALSE
      OBVIOUS
    <3> DEFINE f == [i \in Slots |-> g_IssuedCmds[i].buf]
    <3>1. \A i \in Slots : g_IssuedCmds[i] # NoEntry
      BY DEF EntriesOf, NoEntry
    <3>2. \A i \in Slots : g_IssuedCmds[i].buf \in Bufs /\ inflight[g_IssuedCmds[i].buf] = 1
      BY <2>1, <3>1 DEF TypeOK, Entry, CommandsOwned
    <3>3. bufs[n] \in lent /\ bufs[n] \in Pooled
      BY <2>1 DEF PoolOwned, Pooled
    <3>4. \A i \in Slots : g_IssuedCmds[i].buf \in lent \ {bufs[n]}
      BY <2>1, <3>2, <3>3 DEF PacketsOwned
    <3>5. f \in [Slots -> lent \ {bufs[n]}]
      BY <3>4
    <3>6. \A i, j \in Slots : f[i] = f[j] => i = j
      BY <2>1, <3>1 DEF CommandsOwned
    <3> HIDE DEF f
    <3> QED BY <2>1, <3>3, <3>5, <3>6, NoRoomForMore
  <2>3. ASSUME NEW b \in Bufs, alarms[b] > 0
        PROVE  EntriesOf(b) # {}
    BY <2>1, <2>3 DEF CommandsOwned
  <2>4. ASSUME NEW b \in Bufs, inflight[b] > 0
        PROVE  EmptySlots(bufs) # {}
    <3> SUFFICES ASSUME EmptySlots(bufs) = {} PROVE FALSE
      OBVIOUS
    <3>1. \A i \in Slots : i \in FullSlots(bufs)
      BY DEF EmptySlots, FullSlots
    <3>2. b \in lent /\ b \notin Pooled
      BY <2>1, <2>4 DEF PacketsOwned
    <3>3. \A i \in Slots : bufs[i] \in lent \ {b}
      BY <2>1, <3>1, <3>2 DEF PoolOwned, Pooled
    <3>4. bufs \in [Slots -> lent \ {b}]
      BY <2>1, <3>3 DEF TypeOK
    <3>5. \A i, j \in Slots : bufs[i] = bufs[j] => i = j
      BY <2>1, <3>1 DEF PoolOwned
    <3> QED BY <2>1, <3>2, <3>4, <3>5, NoRoomForMore
  <2> QED BY <2>2, <2>3, <2>4 DEF AssertsHold
<1> QED BY <1>1, Invariance, PTL

-----------------------------------------------------------------------------
(* CmdPromise is kept.  Only types are needed: even the runs in which an alarm
   was refused report every command as promised. *)

Awaited == [id \in CmdIds |-> Cardinality(WaitingFor(id))]
Reporting == IF call = NoCall THEN <<>> ELSE <<call.cmd_id>>

(* The commands that wait with one id can be numbered. *)
LEMMA WaitingForFinite ==
    ASSUME NEW id
    PROVE  IsFiniteSet(WaitingFor(id)) /\ Awaited \in [CmdIds -> Nat]
<1>1. IsFiniteSet(Slots)
  BY CmdSendAssumption, FS_Interval DEF Slots
<1>2. \A x : IsFiniteSet(WaitingFor(x))
  BY <1>1, FS_Subset DEF WaitingFor
<1>3. \A x : Cardinality(WaitingFor(x)) \in Nat
  BY <1>2, FS_CardinalityType
<1> QED BY <1>2, <1>3 DEF Awaited

(* As long as an entry of the table is free, fewer commands wait than the
   table has entries: they can be numbered apart with the other entries. *)
LEMMA RoomToAccept ==
    ASSUME NEW k \in Slots, g_IssuedCmds[k] = NoEntry
    PROVE  Cardinality(Promise!Waiting) < kCmdQueueSize
<1> DEFINE numbering(id) ==
              CHOOSE f : f \in Bijection(1 .. Cardinality(WaitingFor(id)), WaitingFor(id))
           W == Promise!Waiting
           g == [w \in W |-> numbering(w[1])[w[2]]]
<1>1. ASSUME NEW id
      PROVE  numbering(id) \in Bijection(1 .. Cardinality(WaitingFor(id)), WaitingFor(id))
  <2>1. ExistsBijection(1 .. Cardinality(WaitingFor(id)), WaitingFor(id))
    BY WaitingForFinite, FS_CardinalityType
  <2> QED BY <2>1, Zenon DEF ExistsBijection
<1> HIDE DEF numbering
<1>2. \A id : \A m, n \in 1 .. Cardinality(WaitingFor(id)) :
         /\ numbering(id)[m] \in WaitingFor(id)
         /\ numbering(id)[m] = numbering(id)[n] => m = n
  BY <1>1 DEF Bijection, Injection, IsInjective
<1>3. \A w \in W : /\ w = <<w[1], w[2]>>
                   /\ w[1] \in CmdIds
                   /\ w[2] \in 1 .. Cardinality(WaitingFor(w[1]))
  BY DEF Promise!Waiting, Promise!CmdIds, CmdIds
<1>4. \A id : WaitingFor(id) \subseteq Slots \ {k}
  BY DEF WaitingFor
<1> HIDE DEF W
<1>5. g \in [W -> Slots \ {k}]
  BY <1>2, <1>3, <1>4
<1>6. ASSUME NEW v \in W, NEW w \in W, g[v] = g[w]
      PROVE  v = w
  <2>1. numbering(v[1])[v[2]] = numbering(w[1])[w[2]]
    BY <1>6
  <2>2. numbering(v[1])[v[2]] \in WaitingFor(v[1]) /\ numbering(w[1])[w[2]] \in WaitingFor(w[1])
    BY <1>2, <1>3
  <2>3. v[1] = w[1]
    BY <2>1, <2>2 DEF WaitingFor
  <2>4. v[2] = w[2]
    BY <1>2, <1>3, <2>1, <2>3
  <2> QED BY <1>3, <2>3, <2>4
<1> HIDE DEF g
<1>7. g \in Injection(W, Slots \ {k})
  BY <1>5, <1>6 DEF Injection, IsInjective
<1>8. IsFiniteSet(Slots) /\ Cardinality(Slots) = kCmdQueueSize
  BY CmdSendAssumption, FS_Interval DEF Slots
<1>9. IsFiniteSet(Slots \ {k}) /\ Cardinality(Slots \ {k}) = kCmdQueueSize - 1
  BY <1>8, FS_RemoveElement
<1>10. IsFiniteSet(W) /\ Cardinality(W) <= kCmdQueueSize - 1
  BY <1>7, <1>9, FS_Injection
<1>11. Cardinality(W) \in Nat
  BY <1>10, FS_CardinalityType
<1> QED BY <1>10, <1>11, CmdSendAssumption DEF W

(* CmdPromise counts as CmdSend does. *)
LEMMA PromiseCardinality ==
    ASSUME NEW S
    PROVE  Promise!Cardinality(S) = Cardinality(S)
BY DEF Promise!Cardinality, Cardinality

(* A command enters the table: one more waits with its id. *)
LEMMA CommandAccepted ==
    ASSUME TypeOK, NEW timeout \in Timeouts, SendTracked(timeout)
    PROVE  Promise!Accept
<1>1. PICK k \in Slots : Min(EntriesOf(ZB_BUF_INVALID)) = k /\ g_IssuedCmds[k] = NoEntry
  BY FreeEntryFacts DEF SendTracked, PacketSent, CanSend
<1>2. NewEntry(timeout) \in Entry /\ NewEntry(timeout).cmd_id = g_cmd_num
  BY PacketSentTypes DEF SendTracked, NewEntry, Entry, TypeOK
<1>3. NewEntry(timeout) # NoEntry
  BY <1>2, CmdSendAssumption DEF Entry, NoEntry
<1>4. \A i \in Slots : g_IssuedCmds'[i] = IF i = k THEN NewEntry(timeout) ELSE g_IssuedCmds[i]
  BY <1>1 DEF SendTracked, TypeOK
<1>5. PICK id \in CmdIds : id = g_cmd_num
  BY DEF TypeOK
<1>6. k \notin WaitingFor(id)
  BY <1>1 DEF WaitingFor
<1>7. WaitingFor(id)' = WaitingFor(id) \cup {k}
  BY <1>1, <1>2, <1>3, <1>4, <1>5 DEF WaitingFor
<1>8. \A x \in CmdIds \ {id} : WaitingFor(x)' = WaitingFor(x)
  BY <1>1, <1>2, <1>3, <1>4, <1>5 DEF WaitingFor
<1>9. Cardinality(WaitingFor(id) \cup {k}) = Cardinality(WaitingFor(id)) + 1
  BY <1>6, WaitingForFinite, FS_AddElement
<1>10. Awaited' = [Awaited EXCEPT ![id] = @ + 1]
  BY <1>7, <1>8, <1>9 DEF Awaited
<1>11. Promise!Cardinality(Promise!Waiting) < kCmdQueueSize
  BY <1>1, RoomToAccept, PromiseCardinality
<1>12. Reporting' = Reporting /\ g_cmd_num' = NextId
  BY DEF SendTracked, Reporting
<1> QED BY <1>5, <1>10, <1>11, <1>12 DEF Promise!Accept, Awaited, Reporting, NextId

(* A command leaves the table: one less waits with the id that is reported. *)
LEMMA CommandIsReported ==
    ASSUME TypeOK, NEW b \in Bufs, EntriesOf(b) # {}, call = NoCall, g_cmd_num' = g_cmd_num,
           NEW status \in Bufs \cup {NoStatus}, Report(Min(EntriesOf(b)), status)
    PROVE  \E id \in CmdIds : Promise!Report(id)
<1>1. PICK k \in Slots :
         /\ Min(EntriesOf(b)) = k
         /\ g_IssuedCmds[k] \in Entry
         /\ g_IssuedCmds[k] # NoEntry
  BY EntryFacts
<1>2. PICK id \in CmdIds : g_IssuedCmds[k].cmd_id = id
  BY <1>1 DEF Entry
<1>3. \A i \in Slots : g_IssuedCmds'[i] = IF i = k THEN NoEntry ELSE g_IssuedCmds[i]
  BY <1>1 DEF Report, TypeOK
<1>4. k \in WaitingFor(id) /\ \A x \in CmdIds \ {id} : k \notin WaitingFor(x)
  BY <1>1, <1>2 DEF WaitingFor
<1>5. /\ WaitingFor(id)' = WaitingFor(id) \ {k}
      /\ \A x \in CmdIds \ {id} : WaitingFor(x)' = WaitingFor(x)
  BY <1>3, <1>4 DEF WaitingFor
<1>6. /\ Cardinality(WaitingFor(id) \ {k}) = Cardinality(WaitingFor(id)) - 1
      /\ Cardinality(WaitingFor(id)) \in Nat
  BY <1>4, WaitingForFinite, FS_RemoveElement, FS_CardinalityType
<1>7. Cardinality(WaitingFor(id)) # 0
  BY <1>4, WaitingForFinite, FS_EmptySet
<1>8. Awaited' = [Awaited EXCEPT ![id] = @ - 1]
  BY <1>5, <1>6 DEF Awaited
<1>9. Awaited[id] > 0
  BY <1>6, <1>7 DEF Awaited
<1>10. call'.cmd_id = id /\ call' # NoCall
  BY <1>1, <1>2 DEF Report, NoCall
<1>11. Reporting = <<>> /\ Reporting' = <<id>>
  BY <1>10 DEF Reporting
<1>12. Promise!Report(id)
  BY <1>8, <1>9, <1>11 DEF Promise!Report, Awaited, Reporting
<1>13. id \in Promise!CmdIds
  BY DEF Promise!CmdIds, CmdIds
<1> QED BY <1>12

LEMMA NextPromise ==
    ASSUME TypeOK, [Next]_vars
    PROVE  [Promise!Next]_<<Awaited, g_cmd_num, Reporting>>
<1>1. CASE InitBufs \/ SendRefused \/ SendFails \/ AlarmFails \/ UNCHANGED vars
  BY <1>1 DEF InitBufs, SendRefused, SendFails, AlarmFails, vars, Awaited, WaitingFor,
              Reporting
<1>2. CASE SendUntracked
  <2>1. Promise!Accept
    BY <1>2 DEF SendUntracked, Promise!Accept, WaitingFor, NextId
  <2> QED BY <2>1 DEF Promise!Next
<1>3. ASSUME NEW timeout \in Timeouts, SendTracked(timeout)
      PROVE  Promise!Next
  BY <1>3, CommandAccepted DEF Promise!Next
<1>4. ASSUME NEW b \in Bufs, Answered(b) \/ TimedOut(b)
      PROVE  Promise!Next
  <2>1. \E id \in CmdIds : Promise!Report(id)
    BY <1>4, CommandIsReported DEF Answered, TimedOut, PacketDone
  <2> QED BY <2>1 DEF Promise!Next, Promise!CmdIds, CmdIds
<1>5. ASSUME NEW b \in Bufs, AnsweredLate(b)
      PROVE  UNCHANGED <<Awaited, g_cmd_num, Reporting>>
  BY <1>5 DEF AnsweredLate, Awaited, WaitingFor, Reporting
<1>6. CASE Return
  <2>1. Awaited' = Awaited /\ Reporting' = <<>> /\ Reporting # <<>>
    BY <1>6 DEF Return, Awaited, WaitingFor, Reporting
  <2>2. Promise!Reported
    BY <1>6, <2>1 DEF Return, Promise!Reported, Awaited, Reporting
  <2> QED BY <2>2 DEF Promise!Next
<1> QED BY <1>1, <1>2, <1>3, <1>4, <1>5, <1>6 DEF Next

(* zb_desc_helper_types_ep.hpp keeps CmdPromise, for any depth of the queue and
   any modulus of the ids: what was accepted with a callback is reported with
   its id, once, in whatever order answers and timeouts come. *)
THEOREM CommandsKeepPromise == Spec => ImplementsPromise
<1>1. Init => Promise!Init
  <2> SUFFICES ASSUME Init PROVE Promise!Init
    OBVIOUS
  <2>1. \A id : WaitingFor(id) = {}
    BY DEF Init, WaitingFor
  <2>2. [id \in CmdIds |-> Cardinality(WaitingFor(id))] = [id \in CmdIds |-> 0]
    BY <2>1, FS_EmptySet
  <2> QED BY <2>2 DEF Init, Promise!Init, Promise!CmdIds, CmdIds
<1>2. TypeOK /\ [Next]_vars => [Promise!Next]_<<Awaited, g_cmd_num, Reporting>>
  BY NextPromise
<1> QED BY <1>1, <1>2, TypeCorrect, PTL
        DEF Spec, ImplementsPromise, Promise!Spec, Awaited, Reporting

==============================================================================
