------------------------------- MODULE Settings -------------------------------
(***************************************************************************)
(* Attributes that survive a restart: the device callback tpl_device_cb    *)
(* (zb_handlers.hpp) runs the handlers of an attribute the network wrote,  *)
(* on_setting_changed among them saves it, and persistent_settings_manager *)
(* (zb_settings.hpp) exports the attributes and loads them at the start.   *)
(*                                                                         *)
(* Power may fail between any two calls: a step is one handler of the      *)
(* callback, one entry of an export or one record of a load.  A new        *)
(* firmware may give an attribute another size.                            *)
(***************************************************************************)
EXTENDS Integers, Sequences, Functions, FiniteSetsExt

CONSTANTS
    Attrs,           \* the attributes of the device
    Entries,         \* those of the settings manager, in its order
    OldNames,        \* names no entry has any more
    Handlers,        \* what tpl_device_cb calls for a written attribute: a
                     \* sequence of [attr, saves]; attr = kANY fits every one
    Sizes,           \* sizes an attribute may have
    Values,          \* what an attribute may hold
    Default          \* the value in the image

kANY == "any"
EXPORT == "export"
Torn == -1           \* a part of a value over another one

ASSUME SettingsAssumption ==
    /\ {kANY, EXPORT} \cap Attrs = {} /\ Torn \notin Values
    /\ Entries \in Seq(Attrs) /\ IsInjective(Entries)
    /\ OldNames \cap Attrs = {}
    /\ Sizes \subseteq Nat \ {0}
    /\ Values \subseteq Nat /\ Default \in Values
    /\ Handlers \in Seq([attr : Attrs \cup {kANY}, saves : BOOLEAN])
    /\ \A i \in DOMAIN Handlers :
          Handlers[i].saves => Handlers[i].attr \in Range(Entries)

VARIABLES
    ram,             \* the attributes
    size,            \* sizeof of each attribute in this firmware
    flash,           \* the stored records, by name
    toLoad,          \* names of the records settings_load has still to offer
    result,          \* what zigbee_settings_set returned for each name
    job,             \* the attribute of the last callback, or EXPORT
    todo,            \* calls left of it, by their places in Handlers or Entries
    clean,           \* history: attributes loaded or saved as they are now
    export           \* history: what the last export returned, if it is still
                     \* up to date

vars == <<ram, size, flash, toLoad, result, job, todo, clean, export>>

Names == Attrs \cup OldNames
NoRecord == [len |-> 0]
Record(a, v) == [len |-> size[a], value |-> v]
Stored(f) == {n \in Names : f[n] # NoRecord}
Idle == toLoad = {} /\ todo = {}

Init ==
    /\ ram = [a \in Attrs |-> Default]
    /\ size \in [Attrs -> Sizes]
    /\ flash = [n \in Names |-> NoRecord]
    /\ toLoad = {}
    /\ result = [n \in Names |-> "none"]
    /\ job = EXPORT
    /\ todo = {}
    /\ clean = {}
    /\ export = "none"

-----------------------------------------------------------------------------
(* Start: settings_load offers every record to zigbee_settings_set. *)

\* Power fails at any moment; what starts again may be another firmware, and
\* one in between may have left records of its own.
Restart ==
    /\ ram' = [a \in Attrs |-> Default]
    /\ size' \in [Attrs -> Sizes]
    /\ \/ UNCHANGED flash
       \/ \E n \in OldNames, l \in Sizes :
             flash' = [flash EXCEPT ![n] = [len |-> l, value |-> Default]]
    /\ toLoad' = Stored(flash')
    /\ result' = [n \in Names |-> "none"]
    /\ job' = EXPORT
    /\ todo' = {}
    /\ clean' = {}
    /\ export' = "none"

IsEntry(n) == n \in Range(Entries)

FitsEntry_NotLarger(n) == flash[n].len <= size[n]

FitsEntry(n) == flash[n].len = size[n]

\* zigbee_settings_set(n) returns rc and leaves v in the attribute.
SetReturns(n, rc, v) ==
    /\ n \in toLoad
    /\ toLoad' = toLoad \ {n}
    /\ ram' = IF IsEntry(n) THEN [ram EXCEPT ![n] = v] ELSE ram
    /\ result' = [result EXCEPT ![n] = rc]
    /\ clean' = IF rc = "0" THEN clean \cup {n} ELSE clean
    /\ UNCHANGED <<size, flash, job, todo, export>>

SetUnknown_Accepted(n) == ~ IsEntry(n) /\ SetReturns(n, "0", Default)

SetUnknown(n) == ~ IsEntry(n) /\ SetReturns(n, "-ENOENT", Default)

SetWrongSize(n) ==
    IsEntry(n) /\ ~ FitsEntry(n) /\ SetReturns(n, "-EINVAL", ram[n])

\* read_cb fails before it has read anything,
SetReadFails(n) ==
    IsEntry(n) /\ FitsEntry(n) /\ SetReturns(n, "read error", ram[n])

\* or reads fewer bytes than it was asked for, some or none, into the attribute,
SetReadShort(n) ==
    /\ IsEntry(n) /\ FitsEntry(n)
    /\ \E v \in {ram[n], Torn} : SetReturns(n, "-EINVAL", v)

\* or reads the record.
SetRead(n) ==
    /\ IsEntry(n) /\ FitsEntry(n)
    /\ SetReturns(n, "0", IF flash[n].len = size[n] THEN flash[n].value ELSE Torn)

ZigbeeSettingsSet(n) ==
    \/ SetUnknown(n)
    \/ SetWrongSize(n)
    \/ SetReadFails(n)
    \/ SetReadShort(n)
    \/ SetRead(n)

-----------------------------------------------------------------------------
(* The device callback. *)

\* The calls tpl_device_cb makes for attribute a: its handlers that fit (the
\* template's, then the nodes'), the default handler, the generic nodes.
CallsFor(a) == {i \in DOMAIN Handlers : Handlers[i].attr \in {a, kANY}}

\* ZBOSS has written attribute a and calls tpl_device_cb.
SetAttrValue(a, v) ==
    /\ Idle
    /\ ram' = [ram EXCEPT ![a] = v]
    /\ job' = a
    /\ todo' = CallsFor(a)
    /\ clean' = clean \ {a}
    /\ export' = "none"
    /\ UNCHANGED <<size, flash, toLoad, result>>

\* The next call is made, in the order of the places.
NextCall == Min(todo)

Calls ==
    /\ todo # {}
    /\ todo' = todo \ {NextCall}
    /\ UNCHANGED <<job, size, toLoad, result>>

CallsHandler(saves) == Calls /\ job # EXPORT /\ Handlers[NextCall].saves = saves

\* The application's code may leave the attributes alone or assign to one;
\* an assignment does not come back as a device callback.
Effects == {ram} \cup {[ram EXCEPT ![a] = v] : a \in Attrs, v \in Values}

Unchanged(r) == {a \in Attrs : r[a] = ram[a]}

Handler ==
    /\ CallsHandler(FALSE)
    /\ ram' \in Effects
    /\ clean' = clean \cap Unchanged(ram')
    /\ UNCHANGED <<flash, export>>

OnSettingChanged_SavesFirst ==
    /\ CallsHandler(TRUE)
    /\ ram' \in Effects
    /\ \/ /\ flash' = [flash EXCEPT ![job] = Record(job, ram[job])]
          /\ clean' = (clean \cap Unchanged(ram')) \cup {job}
       \/ /\ flash' = flash
          /\ clean' = clean \cap Unchanged(ram')
    /\ UNCHANGED export

\* on_setting_changed<entry, h>: h first, then settings_save_one, whose
\* failure nobody is told.
OnSettingChanged ==
    /\ CallsHandler(TRUE)
    /\ ram' \in Effects
    /\ \/ /\ flash' = [flash EXCEPT ![job] = Record(job, ram'[job])]
          /\ clean' = (clean \cap Unchanged(ram')) \cup {job}
       \/ /\ flash' = flash
          /\ clean' = clean \cap Unchanged(ram')
    /\ UNCHANGED export

\* The application assigns to an attribute outside of any callback.
Assign ==
    /\ Idle
    /\ ram' \in Effects \ {ram}
    /\ clean' = clean \cap Unchanged(ram')
    /\ export' = "none"
    /\ UNCHANGED <<size, flash, toLoad, result, job, todo>>

-----------------------------------------------------------------------------
(* zigbee_settings_export, called by settings_save. *)

Export ==
    /\ Idle
    /\ job' = EXPORT
    /\ todo' = DOMAIN Entries
    /\ export' = IF Entries = <<>> THEN "ok" ELSE "none"
    /\ UNCHANGED <<ram, size, flash, toLoad, result, clean>>

\* cb stores the next entry.
ExportEntry ==
    LET a == Entries[NextCall]
    IN  /\ Calls /\ job = EXPORT
        /\ flash' = [flash EXCEPT ![a] = Record(a, ram[a])]
        /\ clean' = clean \cup {a}
        /\ export' = IF todo' = {} THEN "ok" ELSE export
        /\ UNCHANGED ram

ExportEntryFails_GoesOn ==
    /\ Calls /\ job = EXPORT
    /\ export' = IF todo' = {} THEN "failed" ELSE export
    /\ UNCHANGED <<ram, flash, clean>>

\* cb returns a negative rc: the entries after this one are skipped.
ExportEntryFails ==
    /\ todo # {} /\ job = EXPORT
    /\ todo' = {}
    /\ export' = "failed"
    /\ UNCHANGED <<ram, size, flash, toLoad, result, job, clean>>

Next ==
    \/ Restart
    \/ \E n \in Names : ZigbeeSettingsSet(n)
    \/ \E a \in Attrs, v \in Values : SetAttrValue(a, v)
    \/ Handler
    \/ OnSettingChanged
    \/ Assign
    \/ Export
    \/ ExportEntry
    \/ ExportEntryFails

Spec == Init /\ [][Next]_vars

-----------------------------------------------------------------------------
(* Properties. *)

TypeOK ==
    /\ ram \in [Attrs -> Values \cup {Torn}]
    /\ size \in [Attrs -> Sizes]
    /\ flash \in [Names -> {NoRecord} \cup
                           [len : Sizes, value : Values \cup {Torn}]]
    /\ toLoad \subseteq Stored(flash)
    /\ result \in [Names -> {"none", "0", "-ENOENT", "-EINVAL", "read error"}]
    /\ job \in Attrs \cup {EXPORT}
    /\ todo \subseteq IF job = EXPORT THEN DOMAIN Entries ELSE CallsFor(job)
    /\ clean \subseteq Range(Entries)
    /\ export \in {"none", "ok", "failed"}

\* An attribute that was loaded or saved and not changed since is in flash
\* with its value and its size: the next start finds it.
CleanIsStored ==
    \A a \in clean : a \notin toLoad /\ flash[a] = Record(a, ram[a])

\* Loading a record touches no attribute but the one it is stored for, and
\* not even that one when the firmware gives it another size.
LoadTouchesOwn ==
    [][\A n \in toLoad : result'[n] # "none" =>
          \A a \in Attrs : ram'[a] # ram[a] => a = n /\ flash[a].len = size[a]]_vars

\* An export that returned no error has stored every entry as it is.
ExportStoresAll ==
    export = "ok" => \A i \in DOMAIN Entries : Entries[i] \in clean

===============================================================================
