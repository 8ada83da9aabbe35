----------------------------- MODULE SettingsProofs -----------------------------
(***************************************************************************)
(* Proofs about Settings, for any attributes, entries, handlers, sizes and *)
(* values: what is stored is what the attributes hold, through every       *)
(* restart, callback, export and load.                                     *)
(***************************************************************************)
EXTENDS Settings, NatMin

\* Records are loaded before anything else happens, and each once.
LoadingFirst ==
    toLoad # {} =>
        /\ todo = {} /\ export = "none"
        /\ \A n \in toLoad : result[n] = "none"

\* Nothing is said of an export before it has ended, and the entries it has
\* passed are stored.
ExportedSoFar ==
    todo # {} =>
        /\ toLoad = {} /\ export = "none"
        /\ job = EXPORT => \A i \in DOMAIN Entries \ todo : Entries[i] \in clean

\* The inductive invariant.
IInv == TypeOK /\ LoadingFirst /\ ExportedSoFar /\ CleanIsStored /\ ExportStoresAll

-----------------------------------------------------------------------------
(* The constants and the operators. *)

(* The entries are attributes, the handlers are numbered. *)
LEMMA ConstantFacts ==
    /\ \A i \in DOMAIN Entries : Entries[i] \in Range(Entries)
    /\ Range(Entries) \subseteq Attrs
    /\ DOMAIN Entries \subseteq Nat /\ DOMAIN Handlers \subseteq Nat
    /\ EXPORT \notin Attrs /\ kANY \notin Attrs
    /\ Attrs \subseteq Names
<1>1. Entries \in Seq(Attrs) /\ Handlers \in Seq([attr : Attrs \cup {kANY}, saves : BOOLEAN])
  BY SettingsAssumption
<1>2. DOMAIN Entries \subseteq Nat /\ \A i \in DOMAIN Entries : Entries[i] \in Attrs
  BY <1>1
<1>3. DOMAIN Handlers \subseteq Nat
  BY <1>1
<1> QED BY <1>2, <1>3, SettingsAssumption DEF Range, Names

(* The call that is made is one of those left. *)
LEMMA NextCallIsLeft ==
    ASSUME TypeOK, todo # {}
    PROVE  /\ NextCall \in todo
           /\ job = EXPORT => NextCall \in DOMAIN Entries
           /\ job # EXPORT => job \in Attrs /\ NextCall \in CallsFor(job)
<1>1. todo \in SUBSET Nat
  BY ConstantFacts DEF TypeOK, CallsFor
<1>2. NextCall \in todo
  BY <1>1, MinIsLeast DEF NextCall
<1> QED BY <1>2 DEF TypeOK

(* A handler that saves is that of an entry: the written one. *)
LEMMA SavedIsEntry ==
    ASSUME NEW a \in Attrs, NEW i \in CallsFor(a), Handlers[i].saves
    PROVE  a \in Range(Entries)
<1>1. Handlers[i].attr \in Range(Entries)
  BY SettingsAssumption DEF CallsFor
<1>2. Handlers[i].attr = a
  BY <1>1, ConstantFacts DEF CallsFor
<1> QED BY <1>1, <1>2

(* What the application's code leaves are values, or what was there. *)
LEMMA EffectsType ==
    ASSUME TypeOK, NEW r \in Effects
    PROVE  r \in [Attrs -> Values \cup {Torn}]
<1>1. CASE r = ram
  BY <1>1 DEF TypeOK
<1>2. ASSUME NEW a \in Attrs, NEW v \in Values, r = [ram EXCEPT ![a] = v]
      PROVE  r \in [Attrs -> Values \cup {Torn}]
  BY <1>2 DEF TypeOK
<1> QED BY <1>1, <1>2 DEF Effects

(* A record of an attribute has its size. *)
LEMMA RecordType ==
    ASSUME TypeOK, NEW a \in Attrs, NEW v \in Values \cup {Torn}
    PROVE  /\ Record(a, v) \in [len : Sizes, value : Values \cup {Torn}]
           /\ Record(a, v) # NoRecord
<1>1. Record(a, v) \in [len : Sizes, value : Values \cup {Torn}]
  BY DEF Record, TypeOK
<1>2. Record(a, v).len # 0
  BY SettingsAssumption DEF Record, TypeOK
<1> QED BY <1>1, <1>2 DEF NoRecord

-----------------------------------------------------------------------------
(* One lemma for each part of Next. *)

LEMMA InitInv == Init => IInv
<1> SUFFICES ASSUME Init PROVE IInv
  OBVIOUS
<1>1. TypeOK
  BY SettingsAssumption DEF Init, TypeOK
<1>2. LoadingFirst /\ ExportedSoFar /\ CleanIsStored /\ ExportStoresAll
  BY DEF Init, LoadingFirst, ExportedSoFar, CleanIsStored, ExportStoresAll
<1> QED BY <1>1, <1>2 DEF IInv

(* After a restart nothing is known, and nothing of the flash is lost. *)
LEMMA RestartInv ==
    ASSUME IInv, Restart
    PROVE  IInv'
<1>1. flash' \in [Names -> {NoRecord} \cup [len : Sizes, value : Values \cup {Torn}]]
  <2>1. CASE flash' = flash
    BY <2>1 DEF IInv, TypeOK
  <2>2. ASSUME NEW n \in OldNames, NEW l \in Sizes,
               flash' = [flash EXCEPT ![n] = [len |-> l, value |-> Default]]
        PROVE  flash' \in [Names -> {NoRecord} \cup [len : Sizes, value : Values \cup {Torn}]]
    <3>1. [len |-> l, value |-> Default] \in [len : Sizes, value : Values \cup {Torn}]
      BY SettingsAssumption
    <3> QED BY <2>2, <3>1 DEF IInv, TypeOK
  <2> QED BY <2>1, <2>2 DEF Restart
<1>2. toLoad' = Stored(flash')
  BY DEF Restart
<1>3. TypeOK'
  BY <1>1, <1>2, SettingsAssumption DEF Restart, TypeOK
<1>4. LoadingFirst'
  BY <1>2 DEF Restart, LoadingFirst, Stored
<1>5. ExportedSoFar' /\ CleanIsStored' /\ ExportStoresAll'
  BY DEF Restart, ExportedSoFar, CleanIsStored, ExportStoresAll
<1> QED BY <1>3, <1>4, <1>5 DEF IInv

(* zigbee_settings_set changes the attribute of its record alone, and that one
   only to what the record holds or while nothing is said of it. *)
LEMMA SetInv ==
    ASSUME IInv, NEW n \in Names, ZigbeeSettingsSet(n)
    PROVE  IInv'
<1>1. n \in toLoad /\ TypeOK /\ LoadingFirst /\ ExportedSoFar /\ CleanIsStored
  BY DEF IInv, ZigbeeSettingsSet, SetUnknown, SetWrongSize, SetReadFails, SetReadShort,
         SetRead, SetReturns
<1>2. /\ todo = {} /\ export = "none" /\ flash[n] # NoRecord
      /\ \A m \in toLoad : result[m] = "none"
  BY <1>1 DEF LoadingFirst, TypeOK, Stored
<1>3. flash[n] \in [len : Sizes, value : Values \cup {Torn}]
  BY <1>1, <1>2 DEF TypeOK
<1> DEFINE Loads(rc, v) ==
              /\ SetReturns(n, rc, v)
              /\ IsEntry(n) => v \in Values \cup {Torn}
              /\ rc = "0" => IsEntry(n) /\ flash[n] = Record(n, v)
<1>4. \E rc \in {"none", "0", "-ENOENT", "-EINVAL", "read error"} : \E v : Loads(rc, v)
  <2>1. CASE SetUnknown(n)
    BY <2>1 DEF SetUnknown
  <2>2. ASSUME IsEntry(n)
        PROVE  n \in Attrs /\ ram[n] \in Values \cup {Torn}
    BY <1>1, <2>2, ConstantFacts DEF IsEntry, TypeOK
  <2>3. CASE SetWrongSize(n) \/ SetReadFails(n) \/ SetReadShort(n)
    BY <2>2, <2>3 DEF SetWrongSize, SetReadFails, SetReadShort
  <2>4. CASE SetRead(n)
    <3>1. flash[n].len = size[n] /\ IsEntry(n)
      BY <2>4 DEF SetRead, FitsEntry
    <3>2. SetReturns(n, "0", flash[n].value)
      BY <2>4, <3>1 DEF SetRead
    <3>3. flash[n] = Record(n, flash[n].value) /\ flash[n].value \in Values \cup {Torn}
      BY <1>3, <3>1 DEF Record
    <3> QED BY <3>1, <3>2, <3>3
  <2> QED BY <2>1, <2>3, <2>4 DEF ZigbeeSettingsSet
<1>5. PICK rc \in {"none", "0", "-ENOENT", "-EINVAL", "read error"} : \E v : Loads(rc, v)
  BY <1>4
<1>6. PICK v : Loads(rc, v)
  BY <1>5
<1>7. \A a \in Attrs : ram'[a] = IF IsEntry(n) /\ a = n THEN v ELSE ram[a]
  BY <1>1, <1>6 DEF SetReturns, TypeOK
<1>8. UNCHANGED <<size, flash, job, todo, export>> /\ toLoad' = toLoad \ {n}
  BY <1>6 DEF SetReturns
<1>9. TypeOK'
  <2>1. ram' \in [Attrs -> Values \cup {Torn}]
    BY <1>1, <1>6 DEF SetReturns, TypeOK
  <2>2. clean' \subseteq Range(Entries)
    BY <1>1, <1>6 DEF SetReturns, TypeOK, IsEntry
  <2>3. result' \in [Names -> {"none", "0", "-ENOENT", "-EINVAL", "read error"}]
    BY <1>1, <1>6 DEF SetReturns, TypeOK
  <2> QED BY <1>1, <1>8, <2>1, <2>2, <2>3 DEF TypeOK, Stored
<1>10. LoadingFirst'
  BY <1>1, <1>2, <1>6, <1>8 DEF SetReturns, LoadingFirst, TypeOK, Stored
<1>11. CleanIsStored'
  <2> SUFFICES ASSUME NEW a \in clean'
               PROVE  a \notin toLoad' /\ flash'[a] = Record(a, ram[a])'
    BY DEF CleanIsStored
  <2>1. CASE a \in clean
    <3>1. a # n /\ a \notin toLoad /\ flash[a] = Record(a, ram[a]) /\ a \in Attrs
      BY <1>1, <2>1, ConstantFacts DEF CleanIsStored, TypeOK
    <3> QED BY <1>7, <1>8, <3>1 DEF Record
  <2>2. CASE a \notin clean
    <3>1. a = n /\ rc = "0" /\ n \in Attrs
      BY <1>6, <2>2, ConstantFacts DEF SetReturns, IsEntry
    <3>2. ram'[a] = v /\ flash'[a] = Record(a, v)
      BY <1>6, <1>7, <1>8, <3>1
    <3> QED BY <1>8, <3>1, <3>2 DEF Record
  <2> QED BY <2>1, <2>2
<1>12. ExportedSoFar' /\ ExportStoresAll'
  BY <1>2, <1>8 DEF ExportedSoFar, ExportStoresAll
<1> QED BY <1>9, <1>10, <1>11, <1>12 DEF IInv

(* What was not changed by the application's code stays stored. *)
LEMMA EffectsKeepClean ==
    ASSUME IInv, ram' \in Effects, clean' = clean \cap Unchanged(ram'),
           UNCHANGED <<size, flash, toLoad>>
    PROVE  CleanIsStored' /\ ram' \in [Attrs -> Values \cup {Torn}]
<1>1. ram' \in [Attrs -> Values \cup {Torn}]
  BY EffectsType DEF IInv
<1>2. \A a \in clean' : a \in clean /\ ram'[a] = ram[a]
  BY DEF Unchanged
<1>3. CleanIsStored'
  BY <1>2 DEF IInv, CleanIsStored, Record
<1> QED BY <1>1, <1>3

(* A handler is called that may change the attributes. *)
LEMMA HandlerInv ==
    ASSUME IInv, Handler
    PROVE  IInv'
<1>1. TypeOK /\ LoadingFirst /\ ExportedSoFar
  BY DEF IInv
<1>2. todo # {} /\ job # EXPORT /\ todo' \subseteq todo
      /\ UNCHANGED <<job, size, toLoad, result, flash, export>>
  BY DEF Handler, CallsHandler, Calls
<1>3. CleanIsStored' /\ ram' \in [Attrs -> Values \cup {Torn}]
  BY <1>2, EffectsKeepClean DEF Handler
<1>4. clean' \subseteq clean
  BY DEF Handler
<1>5. TypeOK'
  BY <1>1, <1>2, <1>3, <1>4 DEF TypeOK, CallsFor, Stored
<1>6. LoadingFirst' /\ ExportedSoFar' /\ ExportStoresAll'
  BY <1>1, <1>2 DEF LoadingFirst, ExportedSoFar, ExportStoresAll
<1> QED BY <1>3, <1>5, <1>6 DEF IInv

(* on_setting_changed stores what its handler has left. *)
LEMMA OnSettingChangedInv ==
    ASSUME IInv, OnSettingChanged
    PROVE  IInv'
<1>1. TypeOK /\ LoadingFirst /\ ExportedSoFar
  BY DEF IInv
<1>2. todo # {} /\ job # EXPORT /\ todo' \subseteq todo
      /\ UNCHANGED <<job, size, toLoad, result, export>>
  BY DEF OnSettingChanged, CallsHandler, Calls
<1>3. PICK a \in Attrs : a = job /\ a \in Range(Entries)
  <2>1. job \in Attrs /\ NextCall \in CallsFor(job)
    BY <1>1, <1>2, NextCallIsLeft
  <2>2. Handlers[NextCall].saves
    BY DEF OnSettingChanged, CallsHandler
  <2> QED BY <2>1, <2>2, SavedIsEntry
<1>4. toLoad' = {} /\ export' = "none"
  BY <1>1, <1>2 DEF ExportedSoFar
<1>5. ram' \in [Attrs -> Values \cup {Torn}]
  BY <1>1, EffectsType DEF OnSettingChanged
<1>6. LoadingFirst' /\ ExportedSoFar' /\ ExportStoresAll'
  BY <1>2, <1>4 DEF LoadingFirst, ExportedSoFar, ExportStoresAll
<1>7. CASE flash' = flash /\ clean' = clean \cap Unchanged(ram')
  <2>1. CleanIsStored'
    BY <1>2, <1>7, EffectsKeepClean DEF OnSettingChanged
  <2>2. TypeOK'
    BY <1>1, <1>2, <1>5, <1>7 DEF TypeOK, CallsFor, Stored
  <2> QED BY <1>6, <2>1, <2>2 DEF IInv
<1>8. CASE /\ flash' = [flash EXCEPT ![a] = Record(a, ram'[a])]
           /\ clean' = (clean \cap Unchanged(ram')) \cup {a}
  <2>1. a \in Names /\ ram'[a] \in Values \cup {Torn}
    BY <1>5, ConstantFacts
  <2>2. Record(a, ram'[a]) \in [len : Sizes, value : Values \cup {Torn}]
    BY <1>1, <2>1, RecordType
  <2>3. \A b \in Names : flash'[b] = IF b = a THEN Record(a, ram'[a]) ELSE flash[b]
    BY <1>1, <1>8, <2>1 DEF TypeOK
  <2>4. flash' \in [Names -> {NoRecord} \cup [len : Sizes, value : Values \cup {Torn}]]
    BY <1>1, <1>8, <2>2 DEF TypeOK
  <2>5. TypeOK'
    BY <1>1, <1>2, <1>3, <1>4, <1>5, <1>8, <2>4 DEF TypeOK, CallsFor
  <2>6. CleanIsStored'
    <3> SUFFICES ASSUME NEW b \in clean'
                 PROVE  flash'[b] = Record(b, ram[b])'
      BY <1>4 DEF CleanIsStored
    <3>1. CASE b = a
      BY <1>2, <2>1, <2>3, <3>1 DEF Record
    <3>2. CASE b # a
      <4>1. b \in clean /\ b \in Attrs /\ ram'[b] = ram[b]
        BY <1>8, <3>2 DEF Unchanged
      <4>2. flash[b] = Record(b, ram[b]) /\ b \in Names
        BY <4>1, ConstantFacts DEF IInv, CleanIsStored
      <4> QED BY <1>2, <2>3, <3>2, <4>1, <4>2 DEF Record
    <3> QED BY <3>1, <3>2
  <2> QED BY <1>6, <2>5, <2>6 DEF IInv
<1> QED BY <1>3, <1>7, <1>8 DEF OnSettingChanged

(* A write from the network, an assignment and the start of an export. *)
LEMMA IdleInv ==
    ASSUME IInv,
           (\E a \in Attrs, v \in Values : SetAttrValue(a, v)) \/ Assign \/ Export
    PROVE  IInv'
<1>1. TypeOK /\ LoadingFirst /\ ExportedSoFar /\ CleanIsStored
  BY DEF IInv
<1>2. toLoad = {} /\ todo = {} /\ UNCHANGED <<size, flash, toLoad, result>>
  BY DEF SetAttrValue, Assign, Export, Idle
<1>3. ASSUME NEW a \in Attrs, NEW v \in Values, SetAttrValue(a, v)
      PROVE  IInv'
  <2>1. ram' \in [Attrs -> Values \cup {Torn}]
        /\ \A b \in Attrs : b # a => ram'[b] = ram[b]
    BY <1>1, <1>3 DEF SetAttrValue, TypeOK
  <2>2. TypeOK'
    <3>1. job' \in Attrs /\ job' # EXPORT /\ todo' = CallsFor(a) /\ job' = a
      BY <1>3, ConstantFacts DEF SetAttrValue
    <3> QED BY <1>1, <1>2, <1>3, <2>1, <3>1 DEF SetAttrValue, TypeOK, CallsFor, Stored
  <2>3. CleanIsStored'
    BY <1>1, <1>2, <1>3, <2>1, ConstantFacts DEF SetAttrValue, CleanIsStored, Record, TypeOK
  <2>4. LoadingFirst' /\ ExportedSoFar' /\ ExportStoresAll'
    BY <1>2, <1>3, ConstantFacts
    DEF SetAttrValue, LoadingFirst, ExportedSoFar, ExportStoresAll
  <2> QED BY <2>2, <2>3, <2>4 DEF IInv
<1>4. CASE Assign
  <2>1. CleanIsStored' /\ ram' \in [Attrs -> Values \cup {Torn}]
    BY <1>2, <1>4, EffectsKeepClean DEF Assign
  <2>2. TypeOK'
    BY <1>1, <1>2, <1>4, <2>1 DEF Assign, TypeOK, CallsFor, Stored
  <2>3. LoadingFirst' /\ ExportedSoFar' /\ ExportStoresAll'
    BY <1>2, <1>4 DEF Assign, LoadingFirst, ExportedSoFar, ExportStoresAll
  <2> QED BY <2>1, <2>2, <2>3 DEF IInv
<1>5. CASE Export
  <2>1. TypeOK'
    BY <1>1, <1>2, <1>5 DEF Export, TypeOK, CallsFor, Stored
  <2>2. CleanIsStored'
    BY <1>1, <1>2, <1>5 DEF Export, CleanIsStored, Record
  <2>3. LoadingFirst' /\ ExportedSoFar' /\ ExportStoresAll'
    BY <1>2, <1>5 DEF Export, LoadingFirst, ExportedSoFar, ExportStoresAll
  <2> QED BY <2>1, <2>2, <2>3 DEF IInv
<1> QED BY <1>3, <1>4, <1>5

(* An export stores one entry after the other. *)
LEMMA ExportEntryInv ==
    ASSUME IInv, ExportEntry
    PROVE  IInv'
<1>1. TypeOK /\ ExportedSoFar /\ CleanIsStored
  BY DEF IInv
<1>2. todo # {} /\ job = EXPORT
      /\ UNCHANGED <<job, size, toLoad, result, ram>>
      /\ todo' = todo \ {NextCall}
  BY DEF ExportEntry, Calls
<1>3. PICK i \in todo : i = NextCall /\ i \in DOMAIN Entries
  BY <1>1, <1>2, NextCallIsLeft
<1>4. PICK a \in Attrs : a = Entries[i] /\ a \in Range(Entries) /\ a \in Names
  BY <1>3, ConstantFacts
<1>5. toLoad = {} /\ export = "none"
      /\ \A j \in DOMAIN Entries \ todo : Entries[j] \in clean
  BY <1>1, <1>2 DEF ExportedSoFar
<1>6. /\ flash' = [flash EXCEPT ![a] = Record(a, ram[a])]
      /\ clean' = clean \cup {a}
      /\ export' = IF todo' = {} THEN "ok" ELSE export
  BY <1>3, <1>4 DEF ExportEntry
<1>7. \A b \in Names : flash'[b] = IF b = a THEN Record(a, ram[a]) ELSE flash[b]
  BY <1>1, <1>4, <1>6 DEF TypeOK
<1>8. TypeOK'
  <2>1. Record(a, ram[a]) \in [len : Sizes, value : Values \cup {Torn}]
    BY <1>1, RecordType DEF TypeOK
  <2>2. flash' \in [Names -> {NoRecord} \cup [len : Sizes, value : Values \cup {Torn}]]
    BY <1>1, <1>6, <2>1 DEF TypeOK
  <2> QED BY <1>1, <1>2, <1>4, <1>5, <1>6, <2>2 DEF TypeOK, CallsFor
<1>9. \A j \in DOMAIN Entries \ todo' : Entries[j] \in clean'
  BY <1>2, <1>3, <1>4, <1>5, <1>6
<1>10. CleanIsStored'
  <2> SUFFICES ASSUME NEW b \in clean'
               PROVE  flash'[b] = Record(b, ram[b])'
    BY <1>2, <1>5 DEF CleanIsStored
  <2>1. b \in Names
    BY <1>8, ConstantFacts DEF TypeOK
  <2> QED BY <1>1, <1>2, <1>6, <1>7, <2>1 DEF CleanIsStored, Record
<1>11. LoadingFirst' /\ ExportedSoFar' /\ ExportStoresAll'
  BY <1>2, <1>5, <1>6, <1>9 DEF LoadingFirst, ExportedSoFar, ExportStoresAll
<1> QED BY <1>8, <1>10, <1>11 DEF IInv

(* A failed export says so. *)
LEMMA ExportEntryFailsInv ==
    ASSUME IInv, ExportEntryFails
    PROVE  IInv'
<1>1. TypeOK /\ ExportedSoFar /\ CleanIsStored
  BY DEF IInv
<1>2. toLoad = {} /\ todo' = {} /\ export' = "failed"
      /\ UNCHANGED <<ram, size, flash, toLoad, result, job, clean>>
  BY <1>1 DEF ExportEntryFails, ExportedSoFar
<1>3. TypeOK'
  BY <1>1, <1>2 DEF TypeOK, CallsFor, Stored
<1>4. CleanIsStored'
  BY <1>1, <1>2 DEF CleanIsStored, Record
<1>5. LoadingFirst' /\ ExportedSoFar' /\ ExportStoresAll'
  BY <1>2 DEF LoadingFirst, ExportedSoFar, ExportStoresAll
<1> QED BY <1>3, <1>4, <1>5 DEF IInv

LEMMA NextInv ==
    ASSUME IInv, [Next]_vars
    PROVE  IInv'
<1>1. CASE UNCHANGED vars
  BY <1>1 DEF vars, IInv, TypeOK, CallsFor, Stored, LoadingFirst, ExportedSoFar,
              CleanIsStored, Record, ExportStoresAll
<1>2. CASE Next
  BY <1>2, RestartInv, SetInv, HandlerInv, OnSettingChangedInv, IdleInv, ExportEntryInv,
     ExportEntryFailsInv
  DEF Next
<1> QED BY <1>1, <1>2

-----------------------------------------------------------------------------
(* The theorems. *)

THEOREM Invariance == Spec => []IInv
BY InitInv, NextInv, PTL DEF Spec

(* Every variable keeps its type; a write is saved only under a name the
   settings manager has. *)
THEOREM TypeCorrect == Spec => []TypeOK
<1>1. IInv => TypeOK
  BY DEF IInv
<1> QED BY <1>1, Invariance, PTL

(* What was saved or loaded and not changed since is what the next start
   finds, at whatever moment power fails. *)
THEOREM CleanAttributesAreStored == Spec => []CleanIsStored
<1>1. IInv => CleanIsStored
  BY DEF IInv
<1> QED BY <1>1, Invariance, PTL

(* An export that returns no error has stored all entries as they are. *)
THEOREM ExportsAreComplete == Spec => []ExportStoresAll
<1>1. IInv => ExportStoresAll
  BY DEF IInv
<1> QED BY <1>1, Invariance, PTL

(* No step, whatever record it loads, writes another attribute than the one
   the record is for, nor that one when its size has changed. *)
THEOREM LoadsTouchTheirOwn == Spec => LoadTouchesOwn
<1> DEFINE Touches ==
              \A n \in toLoad : result'[n] # "none" =>
                 \A a \in Attrs : ram'[a] # ram[a] => a = n /\ flash[a].len = size[a]
<1>1. ASSUME IInv, [Next]_vars
      PROVE  [Touches]_vars
  <2> SUFFICES ASSUME NEW n \in toLoad, result'[n] # "none",
                      NEW a \in Attrs, ram'[a] # ram[a]
               PROVE  a = n /\ flash[a].len = size[a]
    OBVIOUS
  <2>1. todo = {} /\ result[n] = "none" /\ TypeOK /\ n \in Names
    BY <1>1 DEF IInv, LoadingFirst, TypeOK, Stored
  <2>2. ~ Restart
    BY <2>1 DEF Restart
  <2>3. PICK m \in Names : ZigbeeSettingsSet(m)
    BY <1>1, <2>1, <2>2
    DEF Next, vars, SetAttrValue, Handler, OnSettingChanged, CallsHandler, Calls, Assign,
        Export, ExportEntry, ExportEntryFails, Idle
  <2>4. PICK rc, v : SetReturns(m, rc, v)
    BY <2>3 DEF ZigbeeSettingsSet, SetUnknown, SetWrongSize, SetReadFails, SetReadShort,
                SetRead
  <2>5. m = n
    BY <2>1, <2>4 DEF SetReturns, TypeOK
  <2>6. a = n
    BY <2>1, <2>4, <2>5 DEF SetReturns, TypeOK
  <2>7. CASE SetUnknown(m)
    BY <2>7 DEF SetUnknown, SetReturns
  <2>8. CASE SetWrongSize(m) \/ SetReadFails(m)
    BY <2>1, <2>5, <2>6, <2>8 DEF SetWrongSize, SetReadFails, SetReturns, TypeOK
  <2>9. CASE SetReadShort(m) \/ SetRead(m)
    BY <2>5, <2>6, <2>9 DEF SetReadShort, SetRead, FitsEntry
  <2> QED BY <2>3, <2>6, <2>7, <2>8, <2>9 DEF ZigbeeSettingsSet
<1>2. Spec => [][Touches]_vars
  BY <1>1, Invariance, PTL DEF Spec
<1> QED BY <1>2 DEF LoadTouchesOwn

=================================================================================
