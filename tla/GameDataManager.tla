-------------------------- MODULE GameDataManager --------------------------
(***************************************************************************)
(* GameDataManager.ts: the cache of game objects over a content-addressed  *)
(* datastore and the persistent name map (DistributedBucketMap, which this *)
(* module composes with).                                                  *)
(*                                                                         *)
(* A Value is an immutable object and, a hash URN being determined by what *)
(* it names, also the object's URN.  A Name is a soft reference.  A cached *)
(* promise is a record: how far it got, and the object it is for.          *)
(*                                                                         *)
(* fetchValue of the map manager answers what the key was mapped to when   *)
(* it was called (FetchSeesLatest of DistributedBucketMap, proved there),  *)
(* so a fetch of a name takes its hard reference from Mapped at the call   *)
(* and goes on with it in a later callback.                                *)
(***************************************************************************)
EXTENDS DistributedBucketMap, FiniteSets

CONSTANTS
  RefsOf,  \* the references that each object holds in its *Ref fields
  Uses,    \* the operations that the program using the manager calls
  Habits   \* what that program takes care of

Refs == Names \cup Values

Operations == {"storeObject", "fastStoreObject", "tempStoreObject", "updateMap",
               "fetchObject", "getMutableRoom", "flushUpdates", "clearCache"}

(* serialBinds: the program does not rebind a name that is being stored,   *)
(* or behind the back of a mutable object.  quietClears: it does not clear *)
(* the cache while data is on its way to the datastore.  liveRefs: what it *)
(* stores refers to nothing that a flush dropped before.                   *)
Care == {"serialBinds", "quietClears", "liveRefs"}

ASSUME DataAssumption ==
  /\ Names \cap Values = {}
  /\ Absent \notin Refs
  /\ Untouched \notin Refs
  /\ RefsOf \in [Values -> SUBSET Refs]
  /\ Uses \subseteq Operations
  /\ Habits \subseteq Care

VARIABLES
  cache,        \* cache
  lookups,      \* what the fetches of names that go on will fetch
  loads,        \* objects requested from the datastore
  storing,      \* storing: the names in it (nothing else is ever added)
  knownStored,  \* knownStored
  tempUrns,     \* tempObjectUrns
  tempNames,    \* tempNameMap
  mutable,      \* mutableObjects
  landing,      \* objects on their way to the datastore
  blobs,        \* objects in the datastore
  op,           \* the storing operation that each caller has under way
  latest        \* history variable: what each name was last set to

fetchVars == <<lookups, loads>>
tempVars == <<tempUrns, tempNames, mutable>>
diskVars == <<landing, blobs>>
dataVars == <<cache, fetchVars, storing, knownStored, tempVars, diskVars, op, latest>>
vars == <<mapVars, dataVars>>

-----------------------------------------------------------------------------
(* Cached promises *)

Entry == [state: {"none", "finding", "loading", "ready", "failed"},
          of: Values \cup {Absent}]

NoEntry == [state |-> "none", of |-> Absent]
Ready(v) == [state |-> "ready", of |-> v]

(* What fetchValue of the map manager answers. *)
Mapped(n) == Overlay(pending, Overlay(current, root))[n]

(* fetchHardRef *)
HardRef(n) == IF tempNames[n] # Untouched THEN tempNames[n] ELSE Mapped(n)

(* What the program gets when it asks for a name now. *)
Shown(n) ==
  CASE mutable[n] # Absent                             -> mutable[n]
    [] mutable[n] = Absent /\ cache[n].state # "none" -> cache[n].of
    [] OTHER                                           -> HardRef(n)

-----------------------------------------------------------------------------
(* Objects that hold references *)

(* The references reached from start, when each leads to those of succ. *)
Closure(start, succ) ==
  {r \in Refs : \A S \in SUBSET Refs :
                  start \subseteq S /\ (\A x \in S : succ[x] \subseteq S) => r \in S}

(* What a game saved as the map m needs: what its names are mapped to, and *)
(* all that is referred to from there.                                     *)
Needed(m) ==
  Values \cap Closure(Names, [r \in Refs |-> IF r \in Values THEN RefsOf[r]
                                              ELSE {m[r]} \cap Values])

-----------------------------------------------------------------------------
(* Operations under way *)

(* A storeObject waits for its data to be stored ("data"), then for the    *)
(* map ("map"); a fastStoreObject only for the map; a flush for both.      *)
Op == [kind: {"none", "store", "flush"}, name: Names \cup {Absent}, wait: SUBSET Values,
       state: {"data", "map", "done"}]

NoOp == [kind |-> "none", name |-> Absent, wait |-> {}, state |-> "done"]

(* A caller makes one storing call at a time. *)
Busy(c) == op[c].state # "done" \/ op[c].wait # {} \/ Waiting(c)

(* Bound of the model: the operations under way can still call storeValues. *)
StoresLeft ==
  Len(history) + Cardinality({c \in Callers : op[c].state = "data" /\ op[c].name # Absent})
    <= MaxStores

MayBind(n) == "serialBinds" \in Habits => n \notin storing /\ mutable[n] = Absent

MayRefer(v) ==
  "liveRefs" \in Habits => RefsOf[v] \cap Values \subseteq tempUrns \cup landing \cup blobs

DataInit ==
  /\ Init
  /\ cache = [r \in Refs |-> NoEntry]
  /\ lookups = {}
  /\ loads = {}
  /\ storing = {}
  /\ knownStored = {}
  /\ tempUrns = {}
  /\ tempNames = NoUpdates
  /\ mutable = EmptyNode
  /\ landing = {}
  /\ blobs = Needed(root)
  /\ op = [c \in Callers |-> NoOp]
  /\ latest = root

-----------------------------------------------------------------------------
(* Fetching *)

(* fetchObject of a hash URN that is not cached asks the datastore; of a   *)
(* name, it asks fetchHardRef and goes on when that has answered.  What    *)
(* fetchHardRef rejects at once stays cached, rejected.                    *)
FetchObject(r) ==
  /\ "fetchObject" \in Uses
  /\ cache[r].state = "none"
  /\ \/ /\ r \in Values
        /\ cache' = [cache EXCEPT ![r] = [state |-> "loading", of |-> r]]
        /\ loads' = loads \cup {r}
        /\ UNCHANGED lookups
     \/ /\ r \in Names
        /\ mutable[r] = Absent \/ tempNames[r] # Untouched
        /\ cache' = [cache EXCEPT ![r] = [state |-> "finding", of |-> HardRef(r)]]
        /\ lookups' = lookups \cup {HardRef(r)}
        /\ UNCHANGED loads
     \/ /\ r \in Names
        /\ mutable[r] # Absent /\ tempNames[r] = Untouched
        /\ cache' = [cache EXCEPT ![r] = [state |-> "failed", of |-> Absent]]
        /\ UNCHANGED <<fetchVars>>
  /\ UNCHANGED <<mapVars, storing, knownStored, tempVars, diskVars, op, latest>>

(* The entries that wait for h in state s get state t. *)
Advanced(s, h, t) ==
  [r \in Refs |-> IF cache[r] = [state |-> s, of |-> h] THEN [cache[r] EXCEPT !.state = t]
                  ELSE cache[r]]

(* fetchHardRef has answered h: the callback fetches the object, out of    *)
(* the cache or, when it is not there, from the datastore.                 *)
FoundHardRef(h) ==
  /\ h \in lookups
  /\ lookups' = lookups \ {h}
  /\ \/ /\ h \in Values
        /\ cache[h].state # "none"
        /\ cache' = Advanced("finding", h, cache[h].state)
        /\ UNCHANGED loads
     \/ /\ h \in Values
        /\ cache[h].state = "none"
        /\ cache' = [Advanced("finding", h, "loading") EXCEPT
                       ![h] = [state |-> "loading", of |-> h]]
        /\ loads' = loads \cup {h}
     \/ /\ h = Absent \/ DatastoreMayFail
        /\ cache' = Advanced("finding", h, "failed")
        /\ UNCHANGED loads
  /\ UNCHANGED <<mapVars, storing, knownStored, tempVars, diskVars, op, latest>>

(* The datastore answers a fetch: with the object, which is then known to  *)
(* be stored, or with a rejection, which stays in the cache.               *)
ObjectLoaded(h) ==
  /\ h \in loads \cap blobs
  /\ loads' = loads \ {h}
  /\ cache' = Advanced("loading", h, "ready")
  /\ knownStored' = knownStored \cup {h}
  /\ UNCHANGED <<mapVars, lookups, storing, tempVars, diskVars, op, latest>>

LoadFailsKnowing(h, known) ==
  /\ h \in loads
  /\ h \notin blobs \/ DatastoreMayFail
  /\ loads' = loads \ {h}
  /\ cache' = Advanced("loading", h, "failed")
  /\ knownStored' = known
  /\ UNCHANGED <<mapVars, lookups, storing, tempVars, diskVars, op, latest>>

(* Mutant of LoadFails: knownStored is set however the fetch ended. *)
LoadEnds(h) == LoadFailsKnowing(h, knownStored \cup {h})

LoadFails(h) == LoadFailsKnowing(h, knownStored)

-----------------------------------------------------------------------------
(* Storing *)

Only(n, v) == [k \in Names |-> IF k = n THEN v ELSE Untouched]

(* Mutant of Rebound: the cache keeps what n was before. *)
NotRebound(entries, n, v) == entries

(* What updateMap does before it hands its updates to the map manager:     *)
(* n's overrides are dropped, and n shares v's promise if there is one.    *)
Rebound(entries, n, v) == [entries EXCEPT ![n] = entries[v]]

(* updateMap, as the console's /set calls it: nothing waits for it.        *)
UpdateMap(c, n, v) ==
  /\ "updateMap" \in Uses
  /\ ~ Busy(c)
  /\ StoresLeft /\ MayBind(n)
  /\ tempNames' = [tempNames EXCEPT ![n] = Untouched]
  /\ cache' = Rebound(cache, n, v)
  /\ StoreValues(c, Only(n, v))
  /\ latest' = [latest EXCEPT ![n] = v]
  /\ op' = [op EXCEPT ![c] = NoOp]
  /\ UNCHANGED <<fetchVars, storing, knownStored, tempUrns, mutable, diskVars>>

(* storeObject, with or without a name. *)
StoreObject(c, v, n) ==
  /\ "storeObject" \in Uses
  /\ ~ Busy(c)
  /\ MayRefer(v)
  /\ n \in Names => StoresLeft /\ MayBind(n)
  /\ op' = [op EXCEPT ![c] = [kind |-> "store", name |-> n, wait |-> {v},
                              state |-> "data"]]
  /\ landing' = landing \cup ({v} \ blobs)
  /\ IF n = Absent THEN UNCHANGED <<cache, storing, latest>>
     ELSE /\ cache' = [cache EXCEPT ![n] = Ready(v)]
          /\ storing' = storing \cup {n}
          /\ latest' = [latest EXCEPT ![n] = v]
  /\ UNCHANGED <<mapVars, fetchVars, knownStored, tempVars, blobs>>

(* An object arrives in the datastore, which acknowledges it afterwards.   *)
ObjectLands(v) ==
  /\ v \in landing
  /\ landing' = landing \ {v}
  /\ blobs' = blobs \cup {v}
  /\ UNCHANGED <<mapVars, cache, fetchVars, storing, knownStored, tempVars, op, latest>>

(* The datastore acknowledges what a storeObject stored; the callbacks     *)
(* that follow cache it under its URN and, if it was given a name, call    *)
(* updateMap.                                                              *)
ObjectStored(c, v) ==
  /\ op[c].kind = "store"
  /\ v \in op[c].wait \cap blobs
  /\ knownStored' = knownStored \cup {v}
  /\ LET n == op[c].name
         cached == [cache EXCEPT ![v] = Ready(v)]
     IN \/ /\ n = Absent
           /\ cache' = cached
           /\ op' = [op EXCEPT ![c] = NoOp]
           /\ UNCHANGED <<mapVars, tempNames>>
        \/ /\ n # Absent
           /\ tempNames' = [tempNames EXCEPT ![n] = Untouched]
           /\ cache' = Rebound(cached, n, v)
           /\ StoreValues(c, Only(n, v))
           /\ op' = [op EXCEPT ![c].wait = {}, ![c].state = "map"]
  /\ UNCHANGED <<fetchVars, storing, tempUrns, mutable, diskVars, latest>>

(* fastStoreObject does not wait for the data to arrive. *)
FastStoreObject(c, v, n) ==
  /\ "fastStoreObject" \in Uses
  /\ MayRefer(v)
  /\ landing' = landing \cup ({v} \ blobs)
  /\ LET cached == [cache EXCEPT ![v] = Ready(v)]
     IN \/ /\ n = Absent
           /\ cache' = cached
           /\ UNCHANGED <<mapVars, storing, tempNames, op, latest>>
        \/ /\ n # Absent
           /\ ~ Busy(c)
           /\ StoresLeft /\ MayBind(n)
           /\ storing' = storing \cup {n}
           /\ tempNames' = [tempNames EXCEPT ![n] = Untouched]
           /\ cache' = Rebound(cached, n, v)
           /\ StoreValues(c, Only(n, v))
           /\ latest' = [latest EXCEPT ![n] = v]
           /\ op' = [op EXCEPT ![c] = [kind |-> "store", name |-> n, wait |-> {},
                                       state |-> "map"]]
  /\ UNCHANGED <<fetchVars, knownStored, tempUrns, mutable, blobs>>

(* The promise that updateMap returned resolves: the name is not being     *)
(* stored any more.                                                        *)
NameStored(c) ==
  /\ op[c].kind = "store" /\ op[c].state = "map"
  /\ call[c].state = "resolved"
  /\ storing' = storing \ {op[c].name}
  /\ op' = [op EXCEPT ![c] = NoOp]
  /\ UNCHANGED <<mapVars, cache, fetchVars, knownStored, tempVars, diskVars, latest>>

(* tempStoreObject keeps the object and its name in memory. *)
TempStoreCached(v, n, refs) ==
  /\ "tempStoreObject" \in Uses
  /\ MayRefer(v)
  /\ n \in Names => MayBind(n)
  /\ tempUrns' = tempUrns \cup {v}
  /\ cache' = [r \in Refs |-> IF r \in refs THEN Ready(v) ELSE cache[r]]
  /\ IF n = Absent THEN UNCHANGED <<tempNames, latest>>
     ELSE /\ tempNames' = [tempNames EXCEPT ![n] = v]
          /\ latest' = [latest EXCEPT ![n] = v]
  /\ UNCHANGED <<mapVars, fetchVars, storing, knownStored, mutable, diskVars, op>>

(* Mutant of TempStoreObject: a named object is cached under its name only. *)
TempStoreUnderName(v, n) == TempStoreCached(v, n, {IF n = Absent THEN v ELSE n})

TempStoreObject(v, n) == TempStoreCached(v, n, {v, n})

(* The datastore or the map manager rejects what a caller waits for.  A    *)
(* name that was being stored stays in storing.                            *)
StoringFails(c) ==
  /\ \/ /\ DatastoreMayFail
        /\ \E v \in op[c].wait :
             op' = [op EXCEPT ![c] = [NoOp EXCEPT !.wait = op[c].wait \ {v}]]
     \/ /\ op[c].kind = "flush" \/ op[c].state = "map"
        /\ call[c].state = "rejected"
        /\ op' = [op EXCEPT ![c] = [NoOp EXCEPT !.wait = op[c].wait]]
  /\ UNCHANGED <<mapVars, cache, fetchVars, storing, knownStored, tempVars, diskVars,
                 latest>>

-----------------------------------------------------------------------------
(* Mutable objects *)

(* getMutableRoom makes a loaded room mutable (putMutableObject). *)
GetMutableRoom(n) ==
  /\ "getMutableRoom" \in Uses
  /\ mutable[n] = Absent
  /\ cache[n].state = "ready"
  /\ "serialBinds" \in Habits => n \notin storing
  /\ mutable' = [mutable EXCEPT ![n] = cache[n].of]
  /\ cache' = [cache EXCEPT ![n] = NoEntry]
  /\ UNCHANGED <<mapVars, fetchVars, storing, knownStored, tempUrns, tempNames, diskVars,
                 op, latest>>

(* The simulation changes a room that it has got so. *)
Mutate(n, v) ==
  /\ mutable[n] \notin {Absent, v}
  /\ MayRefer(v)
  /\ mutable' = [mutable EXCEPT ![n] = v]
  /\ latest' = [latest EXCEPT ![n] = v]
  /\ UNCHANGED <<mapVars, cache, fetchVars, storing, knownStored, tempUrns, tempNames,
                 diskVars, op>>

-----------------------------------------------------------------------------
(* flushUpdates *)

Mutables == {n \in Names : mutable[n] # Absent}

(* Mutant of Walked: references are not followed. *)
WalkedRoots(temps, names, entries) ==
  Mutables \cup ({names[n] : n \in Names} \cap Values)

(* collectLiveObjectsForSaving: what is walked from the mutable objects    *)
(* and the temporary names, through loaded objects.  A URN that is not     *)
(* temporary is taken to be saved with all it refers to.                   *)
Walked(temps, names, entries) ==
  LET object(r) == IF r \in Mutables THEN {mutable[r]}
                   ELSE IF entries[r].state = "ready" THEN {entries[r].of} ELSE {}
      succ == [r \in Refs |-> IF r \in Values \ temps THEN {}
                               ELSE UNION {RefsOf[v] : v \in object(r)}]
      start == Mutables \cup ({names[n] : n \in Names} \cap Values)
  IN Closure(start, succ)

(* First every mutable object is stored temporarily under its name; then   *)
(* the temporary objects that were walked are stored, except those known   *)
(* to be stored, and the temporary names are handed to the map manager,    *)
(* which flushes.  All of it is started at once.                           *)
Flush(c) ==
  /\ "flushUpdates" \in Uses
  /\ ~ Busy(c)
  /\ StoresLeft
  /\ LET temps == tempUrns \cup {mutable[n] : n \in Mutables}
         names == [n \in Names |-> IF n \in Mutables THEN mutable[n] ELSE tempNames[n]]
         entries == [r \in Refs |->
                       IF r \in Mutables THEN Ready(mutable[r])
                       ELSE IF r \in {mutable[n] : n \in Mutables} THEN Ready(r)
                       ELSE cache[r]]
         toSave == {v \in Walked(temps, names, entries) \cap temps :
                      entries[v].state = "ready"} \ knownStored
     IN /\ cache' = entries
        /\ landing' = landing \cup (toSave \ blobs)
        /\ op' = [op EXCEPT ![c] = [kind |-> "flush", name |-> Absent, wait |-> toSave,
                                    state |-> "data"]]
        /\ TakeUpdates(names)
  /\ tempUrns' = {}
  /\ tempNames' = NoUpdates
  /\ call' = [call EXCEPT ![c] =
                AllUpdatesPromise(NewCall("flush", Len(history), Untouched))']
  /\ UNCHANGED <<fetchVars, storing, knownStored, mutable, blobs, latest>>

(* The storeObject of one object of a flush is acknowledged. *)
FlushedObjectStored(c, v) ==
  /\ op[c].kind # "store"
  /\ v \in op[c].wait \cap blobs
  /\ op' = [op EXCEPT ![c].wait = @ \ {v}]
  /\ cache' = [cache EXCEPT ![v] = Ready(v)]
  /\ knownStored' = knownStored \cup {v}
  /\ UNCHANGED <<mapVars, fetchVars, storing, tempVars, diskVars, latest>>

FlushDone(c) ==
  /\ op[c].kind = "flush" /\ op[c].state = "data" /\ op[c].wait = {}
  /\ call[c].state = "resolved"
  /\ op' = [op EXCEPT ![c].state = "done"]
  /\ UNCHANGED <<mapVars, cache, fetchVars, storing, knownStored, tempVars, diskVars,
                 latest>>

(* clearCache keeps the promises of what is temporary or being stored. *)
ClearCacheBut(kept) ==
  /\ "clearCache" \in Uses
  /\ "quietClears" \in Habits => landing = {}
  /\ cache' = [r \in Refs |-> IF r \in kept THEN cache[r] ELSE NoEntry]
  /\ knownStored' = {}
  /\ UNCHANGED <<mapVars, fetchVars, storing, tempVars, diskVars, op, latest>>

(* Mutant of ClearCache: what is being stored goes too. *)
ClearStoring == ClearCacheBut(tempUrns)

ClearCache == ClearCacheBut(tempUrns \cup storing)

-----------------------------------------------------------------------------
(* A batch of the map manager goes on by itself. *)
MapStep == BatchStep /\ UNCHANGED dataVars

FetchStep ==
  \/ \E h \in Values \cup {Absent} : FoundHardRef(h)
  \/ \E h \in Values : ObjectLoaded(h) \/ LoadFails(h)

StoringStep(c) ==
  \/ \E v \in Values : ObjectStored(c, v) \/ FlushedObjectStored(c, v)
  \/ NameStored(c)
  \/ FlushDone(c)
  \/ StoringFails(c)

Landing == \E v \in Values : ObjectLands(v)

ProgramStep ==
  \/ \E r \in Refs : FetchObject(r)
  \/ \E c \in Callers, v \in Values, n \in Names : UpdateMap(c, n, v)
  \/ \E c \in Callers, v \in Values, n \in Names \cup {Absent} : StoreObject(c, v, n)
  \/ \E c \in Callers, v \in Values, n \in Names \cup {Absent} : FastStoreObject(c, v, n)
  \/ \E v \in Values, n \in Names \cup {Absent} : TempStoreObject(v, n)
  \/ \E n \in Names : GetMutableRoom(n)
  \/ \E n \in Names, v \in Values : Mutate(n, v)
  \/ \E c \in Callers : Flush(c)
  \/ ClearCache

DataNext ==
  \/ ProgramStep
  \/ FetchStep
  \/ \E c \in Callers : StoringStep(c)
  \/ Landing
  \/ MapStep

DataSpec == DataInit /\ [][DataNext]_vars

-----------------------------------------------------------------------------
DataTypeOK ==
  /\ cache \in [Refs -> Entry]
  /\ lookups \subseteq Values \cup {Absent}
  /\ loads \subseteq Values
  /\ storing \subseteq Names
  /\ knownStored \subseteq Values
  /\ tempUrns \subseteq Values
  /\ tempNames \in [Names -> Values \cup {Untouched}]
  /\ mutable \in Node
  /\ landing \subseteq Values
  /\ blobs \subseteq Values
  /\ op \in [Callers -> Op]
  /\ latest \in Node

(* Whatever has been cached, flushed, cleared or is half stored, a name    *)
(* shows the object that it was last set to.                               *)
NamesShowLatest == \A n \in Names : cache[n].state # "failed" => Shown(n) = latest[n]

(* An object that a name was set to is still to be had: it is mutable or   *)
(* cached, or it is in the datastore, or on its way there, and not cached  *)
(* as missing.                                                             *)
NothingLost ==
  \A n \in Names : latest[n] # Absent =>
    \/ mutable[n] # Absent
    \/ cache[n].state = "ready"
    \/ /\ cache[n].state # "failed"
       /\ cache[latest[n]].state # "failed"
       /\ cache[latest[n]].state = "ready" \/ latest[n] \in landing \cup blobs

(* A temporary object and a name being stored are in the cache: what       *)
(* clearCache and collectLiveObjectsForSaving complain about never         *)
(* happens.                                                                *)
PinnedAreCached ==
  /\ \A v \in tempUrns : cache[v] = Ready(v)
  /\ \A n \in storing : cache[n].state = "ready"

(* Whatever is cleared, stored or rejected, the cache is what the rest of  *)
(* the manager takes it for: its parts fit together, and nothing that has  *)
(* to stay is dropped.                                                     *)
CacheIsSound == DataTypeOK /\ PinnedAreCached

(* What is taken to be stored, and skipped by flushUpdates, is stored. *)
KnownStoredIsStored == knownStored \subseteq blobs

(* When the promise of flushUpdates resolves, a game can be loaded from    *)
(* the root URN that it gives: everything the root refers to is stored.    *)
SavedGameLoads ==
  \A c \in Callers :
    op[c].kind = "flush" /\ op[c].state = "done" => Needed(call[c].node) \subseteq blobs

=============================================================================
