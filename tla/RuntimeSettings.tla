--------------------------- MODULE RuntimeSettings ---------------------------
(***************************************************************************)
(* One admin-editable setting and the copies API processes of one host     *)
(* keep of it: core/runtime_settings.py and the writers in                 *)
(* modules/settings/service.py.  The setting's value is the number of      *)
(* times it has changed; the clock is time.monotonic() in ticks.           *)
(***************************************************************************)
EXTENDS Integers

CONSTANTS
    Processes,
    Ttl,            \* CACHE_TTL_SECONDS, in ticks
    MaxUpdates      \* bound: changes of the setting in a behaviour

ASSUME SettingsAssumption == Ttl \in Nat \ {0} /\ MaxUpdates \in Nat

VARIABLES
    setting,    \* the platform_settings row
    caches,     \* see Cache
    writer,     \* the process whose change is committed and not yet invalidated
    lastWriter, \* the process that made the latest change
    sinceChange,\* ticks since the setting changed last
    uptime      \* ticks of the clock so far, which starts at 0 with the host

settingVars == <<setting, caches, writer, lastWriter, sinceChange, uptime>>

Values == 0..MaxUpdates
Empty == -1             \* the cache {}: never loaded, or the load failed
Environment == -2       \* what the process's environment has for the key, if anything
Nobody == "nobody"
Old == Ttl + 1          \* any longer time: nothing tells two of them apart

\* age: ticks since _cache_loaded_at.  A load in progress holds _lock: now is the
\* age of the clock reading it will store, read what it has got from the table.
\* missed: the cached value was read before this process's latest change (history).
Cache == [value : Values \cup {Empty}, age : 0..Old,
          load : {"no", "begun", "read"}, now : 0..Old, read : Values \cup {Empty},
          missed : BOOLEAN]

SettingsTypeOK ==
    /\ setting \in Values
    /\ caches \in [Processes -> Cache]
    /\ writer \in Processes \cup {Nobody}
    /\ lastWriter \in Processes \cup {Nobody}
    /\ sinceChange \in 0..Old
    /\ uptime \in 0..Old

\* _cache_loaded_at = 0.0 reads as loaded when the host started.  The processes
\* start with the host, or on one that has been up for long.
SettingsInit ==
    /\ setting = 0
    /\ uptime \in {0, Old}
    /\ caches = [p \in Processes |-> [value |-> Empty, age |-> uptime, load |-> "no", now |-> 0,
                                      read |-> Empty, missed |-> FALSE]]
    /\ writer = Nobody
    /\ lastWriter = Nobody
    /\ sinceChange = Old

Older(t) == IF t = Old THEN Old ELSE t + 1

SettingsTick ==
    /\ uptime' = Older(uptime)
    /\ sinceChange' = Older(sinceChange)
    /\ caches' = [p \in Processes |-> [caches[p] EXCEPT !.age = Older(@),
                                         !.now = IF caches[p].load = "no" THEN 0 ELSE Older(@)]]
    /\ UNCHANGED <<setting, writer, lastWriter>>

Fresh(p) == caches[p].age <= Ttl

\* get(), when the cache answers.  A stored value may itself be blank.
Get(p) == IF caches[p].value = Empty THEN Environment ELSE caches[p].value

\* _db_values: a caller that finds the cache too old reads the clock, then the table.
BeginLoad(p) ==
    /\ caches[p].load = "no" /\ ~Fresh(p)
    /\ caches' = [caches EXCEPT ![p].load = "begun", ![p].now = 0]
    /\ UNCHANGED <<setting, writer, lastWriter, sinceChange, uptime>>

LoadRows(p) ==
    /\ caches[p].load = "begun"
    /\ caches' = [caches EXCEPT ![p].load = "read", ![p].read = setting]
    /\ UNCHANGED <<setting, writer, lastWriter, sinceChange, uptime>>

LoadFails(p) ==
    /\ caches[p].load = "begun"
    /\ caches' = [caches EXCEPT ![p].load = "read", ![p].read = Empty]
    /\ UNCHANGED <<setting, writer, lastWriter, sinceChange, uptime>>

\* MUTANT: the time of loading is taken when the load is over
StoreRowsWithLateClock(p) ==
    /\ caches[p].load = "read"
    /\ caches' = [caches EXCEPT ![p] = [value |-> caches[p].read, age |-> 0, load |-> "no", now |-> 0,
                                        read |-> Empty,
                                        missed |-> lastWriter = p /\ caches[p].read # setting]]
    /\ UNCHANGED <<setting, writer, lastWriter, sinceChange, uptime>>

\* MUTANT: a failed load leaves nothing to serve and is not tried again
StoreFailureForGood(p) ==
    /\ caches[p].load = "read"
    /\ caches[p].read # Empty
    /\ caches' = [caches EXCEPT ![p] = [value |-> caches[p].read, age |-> caches[p].now, load |-> "no",
                                        now |-> 0, read |-> Empty,
                                        missed |-> lastWriter = p /\ caches[p].read # setting]]
    /\ UNCHANGED <<setting, writer, lastWriter, sinceChange, uptime>>

StoreRows(p) ==
    /\ caches[p].load = "read"
    /\ caches' = [caches EXCEPT ![p] = [value |-> caches[p].read, age |-> caches[p].now, load |-> "no",
                                        now |-> 0, read |-> Empty,
                                        missed |-> lastWriter = p /\ caches[p].read # setting]]
    /\ UNCHANGED <<setting, writer, lastWriter, sinceChange, uptime>>

\* A writer commits the change ...
Update(p) ==
    /\ writer = Nobody
    /\ setting < MaxUpdates
    /\ setting' = setting + 1
    /\ writer' = p
    /\ lastWriter' = p
    /\ sinceChange' = 0
    /\ caches' = [q \in Processes |-> [caches[q] EXCEPT !.missed = FALSE]]
    /\ UNCHANGED uptime

UpdateSettings(p) == Update(p)
DisconnectAi(p) == Update(p)

\* ... and then drop the copy of their own process.
Invalidate(p) ==
    /\ writer = p
    /\ writer' = Nobody
    /\ caches' = [caches EXCEPT ![p].age = uptime]
    /\ UNCHANGED <<setting, lastWriter, sinceChange, uptime>>

SettingsNext ==
    \/ SettingsTick
    \/ \E p \in Processes :
          \/ BeginLoad(p) \/ LoadRows(p) \/ LoadFails(p) \/ StoreRows(p)
          \/ UpdateSettings(p) \/ DisconnectAi(p) \/ Invalidate(p)

\* Time passes; the settings are asked for again and again; a request runs to its
\* end; a table that is read over and over is not unreadable every time.
SettingsFairness ==
    /\ WF_settingVars(SettingsTick)
    /\ \A p \in Processes :
          /\ WF_settingVars(BeginLoad(p)) /\ WF_settingVars(LoadRows(p) \/ LoadFails(p))
          /\ SF_settingVars(LoadRows(p)) /\ WF_settingVars(StoreRows(p)) /\ WF_settingVars(Invalidate(p))

SettingsSpec == SettingsInit /\ [][SettingsNext]_settingVars /\ SettingsFairness

-----------------------------------------------------------------------------

\* runtime_settings.py:4-5 "cached in-process for a short TTL and invalidated on
\* write": what get() answers has been the setting within the last Ttl.  In the
\* process that made the latest change it is the new value at once - unless the
\* table had been read before the change, the load failed, or the host has been
\* up for less than Ttl (_cache_loaded_at = 0.0 is then no long time ago).
CacheIsFresh ==
    \A p \in Processes :
        Fresh(p) /\ Get(p) \notin {setting, Environment} =>
            /\ sinceChange <= Ttl
            /\ lastWriter = p /\ writer # p => caches[p].missed \/ uptime <= Ttl

\* Every process comes to answer with the setting that is in the table for good.
CachesConverge ==
    \A p \in Processes : []<>(Get(p) = setting)
=============================================================================
