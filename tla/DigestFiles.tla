----------------------------- MODULE DigestFiles -----------------------------
(* The digest's files (services/digest.py): each is loaded, changed and saved    *)
(* whole, with no lock over them. A discovery cycle runs for minutes in a thread *)
(* (the background loop's, or a manual refresh's) and keeps what it loaded       *)
(* across network and model calls; the owner's requests save the same files      *)
(* meanwhile. One load-change-save with no call in between is one step; a        *)
(* request that saves several files takes a step for each.                       *)
(* Also here: the owner's feedback events (ProfileNext).                         *)
EXTENDS FiniteSets, Integers, Sequences

CONSTANTS Builtins,    \* the built-in public sources
          Feeds,       \* sources the owner may add
          Cycles,      \* threads that run a discovery cycle
          MaxItems,    \* MAX_ITEMS_PER_SOURCE
          MaxLinks, MaxPages, MaxCycles, MaxRequests, \* bounds: saved links, versions of the
                       \* watched page, cycles begun, requests served
          Contents, Actions, \* feedback: contents, actions, the bound on
          MaxEvents    \* events (10000)

VARIABLES sources,     \* sources.json
          items,       \* items.json
          state,       \* discovery-state.json
          watched,     \* watchers.json: the page version known, None without a watcher
          digest,      \* last_digest.json
          hidden,      \* items the owner's profile hides
          page,        \* the watched page's version
          cycle,       \* cycle[c]: the discovery cycle of thread c
          busy,        \* the thread that holds _refresh_lock
          owner,       \* the owner's request in progress
          owed,        \* history: items stored for the owner and taken by nobody since
          noticed,     \* history: page versions an item was stored for
          gone,        \* history: built-ins removed, and not forgotten by an overlap
          removals,    \* history: built-ins removed
          spent,
          events,      \* the profile's feedback events, in order
          before       \* history: what was in force when each was told

digestVars == <<sources, items, state, watched, digest, hidden, page, cycle, busy, owner,
                owed, noticed, gone, removals, spent>>
profileVars == <<events, before>>
discoveryVars == <<digestVars, profileVars>>

None == 0
Nobody == "nobody"
Item(s, n) == [source |-> s, number |-> n]
Local == {"readlater", "watchers"}
NoCycle == [at |-> "idle", state |-> [disabled |-> {}, unread |-> {}], watched |-> None,
            queue |-> {}, before |-> {}, slate |-> {}, stored |-> {}, missed |-> {}, late |-> {}]

Init ==
    /\ sources = Builtins /\ items = {} /\ state = [disabled |-> {}, unread |-> {}]
    /\ watched = None /\ digest = {} /\ hidden = {} /\ page = 1
    /\ cycle = [c \in Cycles |-> NoCycle] /\ busy = Nobody /\ owner = [at |-> "idle", source |-> Nobody]
    /\ owed = {} /\ noticed = {} /\ gone = {} /\ removals = {} /\ spent = [cycles |-> 0, requests |-> 0, links |-> 0]
    /\ events = <<>> /\ before = <<>>

-----------------------------------------------------------------------------
(* ensure_default_sources: every built-in not listed and not disabled.           *)
AllDefaults(listed, disabled) == listed \cup Builtins   \* mutant: disabled ids ignored
WithDefaults(listed, disabled) == listed \cup (Builtins \ disabled)

(* _merge_items: entries of one source, the newest kept; _rank: what the slate   *)
(* may show.                                                                     *)
Newest(s, stored) ==
    {i \in stored : i.source = s => Cardinality({j \in stored : j.source = s /\ j.number > i.number}) < MaxItems}
Merged(s, entries) == Newest(s, items \cup entries)
Slate == {i \in items : i.source \in sources /\ i \notin hidden}

(* Items stored: what every overlapping enrichment has not loaded, and what the  *)
(* source's bound pushed out.                                                    *)
Missed(new) == [c \in Cycles |-> IF cycle[c].at = "model" THEN [cycle[c] EXCEPT !.missed = @ \cup new] ELSE cycle[c]]
Stored(s, entries) ==
    /\ items' = Merged(s, entries)
    /\ owed' = (owed \cup (IF s \in Local THEN entries ELSE {})) \cap items'

-----------------------------------------------------------------------------
(* proactive_refresh in thread c.                                                *)
At(c, stage) == cycle[c].at = stage
To(c, stage) == cycle' = [cycle EXCEPT ![c] = IF stage = "idle" THEN NoCycle ELSE [@ EXCEPT !.at = stage]]
OwnerAside == UNCHANGED <<watched, hidden, page, owner, removals>>
Begin(c) ==
    /\ At(c, "idle") /\ spent.cycles < MaxCycles /\ spent' = [spent EXCEPT !.cycles = @ + 1]
    /\ sources' = WithDefaults(sources, state.disabled)
    /\ cycle' = [cycle EXCEPT ![c] = [NoCycle EXCEPT !.at = "watch", !.state = state, !.before = digest]]
    /\ OwnerAside /\ UNCHANGED <<items, state, digest, busy, owed, noticed, gone>>

(* check_watchers: the list loaded, the page fetched, a change stored as an item *)
(* of its own, the whole list saved.                                             *)
LoadWatchers(c) ==
    /\ At(c, "watch")
    /\ cycle' = [cycle EXCEPT ![c].watched = watched, ![c].at = IF watched = None THEN "refresh" ELSE "look"]
    /\ OwnerAside /\ UNCHANGED <<sources, items, state, digest, busy, owed, noticed, gone, spent>>
SamePage(c) ==
    /\ At(c, "look") /\ To(c, "refresh")   \* unchanged, or unreachable
    /\ OwnerAside /\ UNCHANGED <<sources, items, state, digest, busy, owed, noticed, gone, spent>>
PageChanged(c) ==
    /\ At(c, "look") /\ page # cycle[c].watched
    /\ sources' = sources \cup {"watchers"}
    /\ Stored("watchers", {Item("watchers", page)}) /\ noticed' = noticed \cup {page}
    /\ cycle' = [Missed({Item("watchers", page)}) EXCEPT ![c].watched = page, ![c].at = "noted"]
    /\ OwnerAside /\ UNCHANGED <<state, digest, busy, gone, spent>>
SaveWatchers(c) ==
    /\ At(c, "noted") /\ To(c, "refresh") /\ watched' = cycle[c].watched
    /\ UNCHANGED <<sources, items, state, digest, hidden, page, busy, owner, owed, noticed, gone, removals, spent>>

(* refresh: one at a time; it asks the sources listed when it began.             *)
SaveState(c, saved) == state' = saved /\ gone' = gone \ cycle[c].late
Refused(c) ==
    /\ At(c, "refresh") /\ busy # Nobody /\ To(c, "idle") /\ SaveState(c, cycle[c].state)
    /\ OwnerAside /\ UNCHANGED <<sources, items, digest, busy, owed, noticed, spent>>
TakeLock(c) ==
    /\ At(c, "refresh") /\ busy = Nobody /\ busy' = c
    /\ sources' = WithDefaults(sources, state.disabled)
    /\ cycle' = [cycle EXCEPT ![c].queue = sources' \ Local, ![c].at = "fetch"]
    /\ OwnerAside /\ UNCHANGED <<items, state, digest, owed, noticed, gone, spent>>
Fetch(c) ==
    /\ At(c, "fetch")
    /\ \E s \in cycle[c].queue, entries \in SUBSET {1} :   \* {}: failed, the cached items stay
        LET new == {Item(s, n) : n \in entries} IN
        /\ Stored(s, new)
        /\ cycle' = [Missed(new) EXCEPT ![c].queue = @ \ {s}]
    /\ OwnerAside /\ UNCHANGED <<sources, state, digest, busy, noticed, gone, spent>>
Build(c) ==
    /\ At(c, "fetch") /\ cycle[c].queue = {} /\ busy' = Nobody /\ digest' = Slate
    /\ cycle' = [cycle EXCEPT ![c].slate = Slate, ![c].watched = None, ![c].at = "publish"]
    /\ OwnerAside /\ UNCHANGED <<sources, items, state, owed, noticed, gone, spent>>
Publish(c) ==
    /\ At(c, "publish")
    /\ LET new == cycle[c].slate \ cycle[c].before IN
       SaveState(c, [cycle[c].state EXCEPT !.unread = (@ \cap cycle[c].slate) \cup new])
    /\ \E model \in BOOLEAN : To(c, IF model THEN "enrich" ELSE "idle")
    /\ OwnerAside /\ UNCHANGED <<sources, items, digest, busy, owed, noticed, spent>>

(* enrich_latest: the items loaded before the model summarises, saved whole      *)
(* after it, and then the slate.                                                 *)
LoadItems(c) ==
    /\ At(c, "enrich")
    /\ cycle' = [cycle EXCEPT ![c] = [NoCycle EXCEPT !.slate = Slate, !.stored = items,
                              !.at = IF Slate = {} THEN "slate" ELSE "model"]]
    /\ OwnerAside /\ UNCHANGED <<sources, items, state, digest, busy, owed, noticed, gone, spent>>
Summarised(c) == cycle' = [cycle EXCEPT ![c] = [NoCycle EXCEPT !.slate = cycle[c].slate, !.at = "slate"]]
NoSummary(c) ==
    /\ At(c, "model") /\ Summarised(c)
    /\ OwnerAside /\ UNCHANGED <<sources, items, state, digest, busy, owed, noticed, gone, spent>>
SaveItems(c) ==
    /\ At(c, "model") /\ Summarised(c) /\ items' = cycle[c].stored /\ owed' = owed \ cycle[c].missed
    /\ OwnerAside /\ UNCHANGED <<sources, state, digest, busy, noticed, gone, spent>>
SaveSlate(c) ==
    /\ At(c, "slate") /\ To(c, "idle") /\ digest' = cycle[c].slate
    /\ OwnerAside /\ UNCHANGED <<sources, items, state, busy, owed, noticed, gone, spent>>
CycleStep(c) ==
    \/ Begin(c) \/ LoadWatchers(c) \/ SamePage(c) \/ PageChanged(c) \/ SaveWatchers(c) \/ Refused(c)
    \/ TakeLock(c) \/ Fetch(c) \/ Build(c) \/ Publish(c)
    \/ LoadItems(c) \/ NoSummary(c) \/ SaveItems(c) \/ SaveSlate(c)

-----------------------------------------------------------------------------
(* The owner's requests.                                                         *)
Request == owner.at = "idle" /\ spent.requests < MaxRequests
           /\ spent' = [spent EXCEPT !.requests = @ + 1]
Stage(at, s) == owner' = [at |-> at, source |-> s]
CycleAside == UNCHANGED <<state, digest, hidden, page, busy, noticed, gone, removals>>

(* add_source: listed, then the entries of its first fetch.                      *)
AddSource(f) ==
    /\ Request /\ f \notin sources /\ sources' = sources \cup {f} /\ Stage("seed", f)
    /\ CycleAside /\ UNCHANGED <<items, watched, cycle, owed>>
SeedSource ==
    /\ owner.at = "seed" /\ Stored(owner.source, {Item(owner.source, 1)})
    /\ cycle' = Missed({Item(owner.source, 1)}) /\ Stage("idle", Nobody)
    /\ CycleAside /\ UNCHANGED <<sources, watched, spent>>

(* remove_source: the list, its items, and a built-in's id.                      *)
RemoveSource(s) ==
    /\ Request /\ s \in sources /\ sources' = sources \ {s} /\ Stage("drop", s)
    /\ CycleAside /\ UNCHANGED <<items, watched, cycle, owed>>
DropItems ==
    /\ owner.at = "drop" /\ Stage(IF owner.source \in Builtins THEN "disable" ELSE "idle", owner.source)
    /\ items' = {i \in items : i.source # owner.source} /\ owed' = owed \cap items'
    /\ CycleAside /\ UNCHANGED <<sources, watched, cycle, spent>>
Disable ==
    /\ owner.at = "disable" /\ Stage("idle", Nobody)
    /\ state' = [state EXCEPT !.disabled = @ \cup {owner.source}]
    /\ gone' = (gone \cup {owner.source}) \ sources /\ removals' = (removals \cup {owner.source}) \ sources
    /\ cycle' = [c \in Cycles |-> IF At(c, "idle") THEN NoCycle ELSE [cycle[c] EXCEPT !.late = @ \cup {owner.source}]]
    /\ UNCHANGED <<sources, items, watched, digest, hidden, page, busy, owed, noticed, spent>>

(* save_link: the page was fetched; a source of its own, then the item.          *)
SaveLink ==
    /\ spent.links < MaxLinks /\ Request /\ sources' = sources \cup {"readlater"} /\ Stage("link", "readlater")
    /\ CycleAside /\ UNCHANGED <<items, watched, cycle, owed>>
StoreLink ==
    LET new == {Item("readlater", spent.links + 1)} IN
    /\ owner.at = "link" /\ Stored("readlater", new) /\ cycle' = Missed(new) /\ Stage("idle", Nobody)
    /\ spent' = [spent EXCEPT !.links = @ + 1] /\ CycleAside /\ UNCHANGED <<sources, watched>>

AddWatcher ==
    /\ Request /\ watched = None /\ watched' = page /\ noticed' = noticed \cup {page}
    /\ UNCHANGED <<sources, items, state, digest, hidden, page, cycle, busy, owner, owed, gone, removals>>
RemoveWatcher ==
    /\ Request /\ watched # None /\ watched' = None
    /\ CycleAside /\ UNCHANGED <<sources, items, cycle, owner, owed>>

MarkSeen ==
    /\ Request /\ state' = [state EXCEPT !.unread = {}]
    /\ UNCHANGED <<sources, items, watched, digest, hidden, page, cycle, busy, owner, owed, noticed, gone, removals>>
(* feedback and steering: the profile, then build.                               *)
Feedback(i) ==
    /\ Request /\ i \in digest \ hidden /\ hidden' = hidden \cup {i} /\ digest' = Slate \ {i}
    /\ UNCHANGED <<sources, items, state, watched, page, cycle, busy, owner, owed, noticed, gone, removals>>
(* clear_cached_content.                                                         *)
ClearItems ==
    /\ Request /\ items' = {} /\ owed' = {} /\ digest' = {} /\ Stage("clear", Nobody)
    /\ UNCHANGED <<sources, state, watched, hidden, page, cycle, busy, noticed, gone, removals>>
ClearState ==
    /\ owner.at = "clear" /\ state' = [disabled |-> {}, unread |-> {}] /\ gone' = {} /\ Stage("idle", Nobody)
    /\ UNCHANGED <<sources, items, watched, digest, hidden, page, cycle, busy, owed, noticed, removals, spent>>
OwnerStep ==
    \/ \E f \in Feeds : AddSource(f)
    \/ \E s \in sources : RemoveSource(s)
    \/ \E i \in items : Feedback(i)
    \/ SeedSource \/ DropItems \/ Disable \/ SaveLink \/ StoreLink \/ AddWatcher \/ RemoveWatcher
    \/ MarkSeen \/ ClearItems \/ ClearState

PageEdited ==
    /\ page < MaxPages /\ page' = page + 1
    /\ UNCHANGED <<sources, items, state, watched, digest, hidden, cycle, busy, owner, owed, noticed, gone, removals, spent>>
(* The process stops and starts again: the files are what was saved.             *)
Restart ==
    /\ \/ owner.at # "idle"
       \/ \E c \in Cycles : ~At(c, "idle")
    /\ cycle' = [c \in Cycles |-> NoCycle] /\ busy' = Nobody /\ Stage("idle", Nobody)
    /\ sources' = WithDefaults(sources, state.disabled)
    /\ UNCHANGED <<items, state, watched, digest, hidden, page, owed, noticed, gone, removals, spent>>

DigestNext ==
    /\ \/ \E c \in Cycles : CycleStep(c)
       \/ OwnerStep \/ PageEdited \/ Restart
    /\ UNCHANGED profileVars

-----------------------------------------------------------------------------
(* RecommendationProfileStore: what the owner said, in order; before marks one  *)
(* event and leaves the rest.                                                    *)
Event(content, action) == [content |-> content, action |-> action, undone |-> FALSE]
Active(told) ==
    LET after[n \in 0..Len(told)] ==
            IF n = 0 THEN [c \in Contents |-> "neutral"]
            ELSE IF told[n].undone THEN after[n - 1]
            ELSE [after[n - 1] EXCEPT ![told[n].content] = told[n].action]
    IN after[Len(told)]
Tell(content, action) ==
    /\ Active(events)[content] # action          \* a repeated answer is the same answer
    /\ Len(events) < MaxEvents
    /\ events' = Append(events, Event(content, action))
    /\ before' = Append(before, Active(events)[content])
Undo(n) ==
    /\ ~events[n].undone /\ events' = [events EXCEPT ![n].undone = TRUE] /\ UNCHANGED before
Forget == events # <<>> /\ events' = <<>> /\ before' = <<>>
ProfileNext ==
    /\ \/ \E content \in Contents, action \in Actions : Tell(content, action)
       \/ \E n \in DOMAIN events : Undo(n)
       \/ Forget
    /\ UNCHANGED digestVars


-----------------------------------------------------------------------------
(* What the owner stored stays (saved links, noticed changes, up to a source's   *)
(* bound) unless an enrichment that loaded the items earlier was saved over it;  *)
(* a page version is only marked known once its item was stored; a built-in the  *)
(* owner removed stays removed unless a cycle that began before the removal      *)
(* saved its copy of the state or the cache was cleared; a feedback event undone *)
(* restores what was in force before it.                                         *)
OwedIsStored == owed \subseteq items

\* A page version is marked known only once its item was stored (check_watchers of digest.py).
KnownIsNoticed == watched # None => watched \in noticed

\* A source the owner removed stays removed, built-in ones too (remove_source, list_sources).
RemovedStays == gone \cap sources = {}

\* Undoing a feedback event restores what was in force before it (recommendation_profile.py).
UndoRestores == \A n \in DOMAIN events :
    LET c == events[n].content
        later == {m \in DOMAIN events : m > n /\ events[m].content = c}
        earlier == {m \in DOMAIN events : m < n /\ events[m].content = c} IN
    /\ (\A m \in later : events[m].undone) /\ ~events[n].undone => Active(events)[c] = events[n].action
    /\ (\A m \in later \cup {n} : events[m].undone) /\ (\A m \in earlier : ~events[m].undone)
          => Active(events)[c] = before[n]

\* What holds of the digest's files under any overlap of cycles and requests.
DigestSound == OwedIsStored /\ KnownIsNoticed /\ RemovedStays /\ UndoRestores

(* digest.py, clear_cached_content: "Erase public discovery results while        *)
(* retaining the source catalog." A built-in the owner removed comes back with   *)
(* the next cycle: the state that was erased held its id.                        *)
RemovedIsRetained == removals \cap sources = {}
=============================================================================
