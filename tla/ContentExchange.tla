--------------------------- MODULE ContentExchange ---------------------------
(* Published content on its way between nodes (store.py, credits.py, the content *)
(* routes of peer_http.py). Two nodes may publish the same bytes, so one content *)
(* id can have a manifest and a preview of each. A node's fetch blocks the event *)
(* loop that would answer the other node; publication runs in a thread of its    *)
(* own, the shared directory is read by another process. Also here: the capacity *)
(* record the services of one node merge into (DirectoryNext).                   *)
EXTENDS FiniteSets, Naturals

CONSTANTS Nodes,      \* nodes, numbered from 1; a manifest is named by its publisher
          Services,   \* services of one node that advertise a capability each
          MaxPublish, \* bound: publications
          MaxStarts,  \* bound: fetches
          MaxCrashes  \* bound: crashes

VARIABLES disk,      \* disk[n]: clips/<id>: whose manifest, whose preview, media files
          bus,       \* bus[n]: n's files and announcement in the shared directory
          confirm,   \* confirm[n]: the publishing thread
          fetch,     \* fetch[n]: the fetch its event loop is blocked in
          copier,    \* copier[n]: a fetch from the shared directory, another process
          credits,   \* credits[n]: how often an event is in n's ledger
          verified,  \* history: <<kind, consumer, provider>> whose bytes were checked
          raced,     \* history: a published file was rewritten under a copier
          budget,
          merged, publication, capacity, advertised, overlapped

contentVars == <<disk, bus, confirm, fetch, copier, credits, verified, raced, budget>>
directoryVars == <<merged, publication, capacity, advertised, overlapped>>
exchangeVars == <<contentVars, directoryVars>>

None == 0
Silent == {}
Kinds == {"preview", "full"}
Idle == [stage |-> "idle", kind |-> "full", from |-> None, manifest |-> None]
Events == {<<"published", n, n>> : n \in Nodes} \cup Kinds \X Nodes \X Nodes

Init ==
    /\ disk = [n \in Nodes |-> [manifest |-> None, preview |-> None, own |-> "none", fetched |-> "none"]]
    /\ bus = [n \in Nodes |-> [announced |-> FALSE, media |-> "none"]]
    /\ confirm = [n \in Nodes |-> "idle"] /\ fetch = [n \in Nodes |-> Idle] /\ copier = [n \in Nodes |-> Idle]
    /\ credits = [n \in Nodes |-> [e \in Events |-> 0]] /\ verified = {} /\ raced = FALSE
    /\ budget = [published |-> 0, started |-> 0, crashes |-> 0]
    /\ merged = {} /\ publication = [s \in Services |-> Silent] /\ capacity = {} /\ advertised = {} /\ overlapped = FALSE

-----------------------------------------------------------------------------
(* FileCreditLedger.append: an event whose dedupe key is recorded is not written *)
(* again.                                                                        *)
FindByDedupe(n, e) == credits[n][e] > 0
Append(n, e) == credits' = IF FindByDedupe(n, e) THEN credits ELSE [credits EXCEPT ![n][e] = @ + 1]

(* publish_content, from a confirmed draft: the local copy, the copy in the      *)
(* shared directory, the announcement, the credit.                               *)
PublishStep(n, from, to) == confirm[n] = from /\ confirm' = [confirm EXCEPT ![n] = to]
Others == UNCHANGED <<fetch, copier, verified>>
Prepare(n) ==
    /\ budget.published < MaxPublish /\ PublishStep(n, "idle", "draft")
    /\ budget' = [budget EXCEPT !.published = @ + 1] /\ Others /\ UNCHANGED <<disk, bus, credits, raced>>
Blocked(n) ==
    /\ PublishStep(n, "draft", "idle") /\ Others /\ UNCHANGED <<disk, bus, credits, raced, budget>>
OpenLocal(n) ==
    /\ PublishStep(n, "draft", "copy") /\ disk' = [disk EXCEPT ![n].preview = n, ![n].own = "torn"]
    /\ Others /\ UNCHANGED <<bus, credits, raced, budget>>
CopyLocal(n) ==
    /\ PublishStep(n, "copy", "manifest") /\ disk' = [disk EXCEPT ![n].own = "right"]
    /\ Others /\ UNCHANGED <<bus, credits, raced, budget>>
SaveManifest(n) ==
    /\ PublishStep(n, "manifest", "bus") /\ disk' = [disk EXCEPT ![n].manifest = n]
    /\ Others /\ UNCHANGED <<bus, credits, raced, budget>>
OpenBus(n) ==
    /\ PublishStep(n, "bus", "fill") /\ bus' = [bus EXCEPT ![n].media = "torn"]
    /\ raced' = (raced \/ \E c \in Nodes : copier[c].from = n /\ copier[c].stage = "copy")
    /\ Others /\ UNCHANGED <<disk, credits, budget>>
FillBus(n) ==
    /\ PublishStep(n, "fill", "announce") /\ bus' = [bus EXCEPT ![n].media = "right"]
    /\ Others /\ UNCHANGED <<disk, credits, raced, budget>>
Announce(n) ==
    /\ PublishStep(n, "announce", "credit") /\ bus' = [bus EXCEPT ![n].announced = TRUE]
    /\ Others /\ UNCHANGED <<disk, credits, raced, budget>>
CreditPublished(n) ==
    /\ PublishStep(n, "credit", "idle") /\ Append(n, <<"published", n, n>>)
    /\ Others /\ UNCHANGED <<disk, bus, raced, budget>>
PublishNext(n) ==
    \/ Prepare(n) \/ Blocked(n) \/ OpenLocal(n) \/ CopyLocal(n) \/ SaveManifest(n)
    \/ OpenBus(n) \/ FillBus(n) \/ Announce(n) \/ CreditPublished(n)

-----------------------------------------------------------------------------
(* The provider's side of the content API: it answers while its loop is free,    *)
(* and only with what agrees with the manifest it holds.                         *)
Answers(p) == fetch[p].stage = "idle"
ServesManifest(p) == Answers(p) /\ disk[p].manifest # None
ServesPreview(p) == ServesManifest(p) /\ disk[p].preview = disk[p].manifest
ServesMedia(p) == ServesManifest(p) /\ "right" \in {disk[p].own, disk[p].fetched}

(* fetch_peer_content_preview and fetch_peer_content_full, on the event loop.    *)
Goto(n, stage) == fetch' = [fetch EXCEPT ![n].stage = stage]
Drops(n) == fetch' = [fetch EXCEPT ![n] = Idle]
Outside == UNCHANGED <<bus, confirm, copier, raced>>
FetchStart(n, p, kind) ==
    /\ Answers(n) /\ p # n /\ budget.started < MaxStarts
    /\ fetch' = [fetch EXCEPT ![n] = [Idle EXCEPT !.stage = "manifest", !.kind = kind, !.from = p]]
    /\ budget' = [budget EXCEPT !.started = @ + 1] /\ Outside /\ UNCHANGED <<disk, credits, verified>>
GetManifest(n) ==
    /\ fetch[n].stage = "manifest" /\ ServesManifest(fetch[n].from)
    /\ fetch' = [fetch EXCEPT ![n].manifest = disk[fetch[n].from].manifest,
                              ![n].stage = IF fetch[n].kind = "full" THEN "save" ELSE "preview"]
    /\ Outside /\ UNCHANGED <<disk, credits, verified, budget>>
KeepManifest(n) ==
    /\ fetch[n].stage \in {"save", "keep"}
    /\ disk' = [disk EXCEPT ![n].manifest = fetch[n].manifest]
    /\ Goto(n, IF fetch[n].stage = "save" THEN "open" ELSE "write")
    /\ Outside /\ UNCHANGED <<credits, verified, budget>>
Verifies(n) == verified' = verified \cup {<<fetch[n].kind, n, fetch[n].from>>}
GetPreview(n) ==
    /\ fetch[n].stage = "preview" /\ ServesPreview(fetch[n].from)
    /\ IF disk[fetch[n].from].preview = fetch[n].manifest THEN Goto(n, "keep") /\ Verifies(n)
       ELSE Drops(n) /\ UNCHANGED verified   \* preview_hash_mismatch
    /\ Outside /\ UNCHANGED <<disk, credits, budget>>
KeepPreview(n) ==
    /\ fetch[n].stage = "write" /\ Goto(n, "credit") /\ disk' = [disk EXCEPT ![n].preview = fetch[n].manifest]
    /\ Outside /\ UNCHANGED <<credits, verified, budget>>
(* The download truncates the file it will replace; a failure removes it.        *)
OpenMedia(n) ==
    /\ fetch[n].stage = "open" /\ ServesMedia(fetch[n].from) /\ Goto(n, "stream")
    /\ disk' = [disk EXCEPT ![n].fetched = "torn"] /\ Outside /\ UNCHANGED <<credits, verified, budget>>
Streamed(n, bytes) ==
    /\ fetch[n].stage = "stream" /\ Goto(n, "check") /\ disk' = [disk EXCEPT ![n].fetched = bytes]
    /\ Outside /\ UNCHANGED <<credits, verified, budget>>
CheckNone(n) == TRUE   \* mutant
HashMatches(n) == disk[n].fetched = "right"
CheckMedia(n) ==
    /\ fetch[n].stage = "check"
    /\ IF HashMatches(n)
       THEN Goto(n, "credit") /\ UNCHANGED disk
            /\ verified' = IF disk[n].fetched = "right" THEN verified \cup {<<"full", n, fetch[n].from>>} ELSE verified
       ELSE Drops(n) /\ disk' = [disk EXCEPT ![n].fetched = "none"] /\ UNCHANGED verified
    /\ Outside /\ UNCHANGED <<credits, budget>>
(* The consumer's attestation is recorded, then posted to the provider when new. *)
CreditServed(n) ==
    LET e == <<fetch[n].kind, n, fetch[n].from>> IN
    /\ fetch[n].stage = "credit" /\ Append(n, e)
    /\ IF FindByDedupe(n, e) THEN Drops(n) ELSE Goto(n, "receipt")
    /\ Outside /\ UNCHANGED <<disk, verified, budget>>
PostReceipt(n) ==
    /\ fetch[n].stage = "receipt" /\ Answers(fetch[n].from)
    /\ Append(fetch[n].from, <<fetch[n].kind, n, fetch[n].from>>) /\ Drops(n)
    /\ Outside /\ UNCHANGED <<disk, verified, budget>>
TimesOut(n) ==
    /\ fetch[n].stage \in {"manifest", "preview", "open", "stream", "receipt"} /\ Drops(n)
    /\ disk' = IF fetch[n].stage = "stream" THEN [disk EXCEPT ![n].fetched = "none"] ELSE disk
    /\ Outside /\ UNCHANGED <<credits, verified, budget>>
FetchNext(n) ==
    \/ \E p \in Nodes, kind \in Kinds : FetchStart(n, p, kind)
    \/ GetManifest(n) \/ KeepManifest(n) \/ GetPreview(n) \/ KeepPreview(n) \/ OpenMedia(n)
    \/ \E bytes \in {"right", "wrong"} : Streamed(n, bytes)
    \/ CheckMedia(n) \/ CreditServed(n) \/ PostReceipt(n) \/ TimesOut(n)

-----------------------------------------------------------------------------
(* fetch_full on an announcement: the published file is checked, then copied.    *)
Around == UNCHANGED <<bus, confirm, fetch, raced>>
FindRecord(n, p) ==
    /\ copier[n].stage = "idle" /\ p # n /\ bus[p].announced /\ budget.started < MaxStarts
    /\ bus[p].media = "right"
    /\ copier' = [copier EXCEPT ![n] = [Idle EXCEPT !.stage = "copy", !.from = p]]
    /\ budget' = [budget EXCEPT !.started = @ + 1] /\ Around /\ UNCHANGED <<disk, credits, verified>>
CopyShared(n) ==
    /\ copier[n].stage = "copy" /\ copier' = [copier EXCEPT ![n].stage = "credit"]
    /\ disk' = [disk EXCEPT ![n].own = bus[copier[n].from].media]
    /\ verified' = IF bus[copier[n].from].media = "right" THEN verified \cup {<<"full", n, copier[n].from>>} ELSE verified
    /\ Around /\ UNCHANGED <<credits, budget>>
CreditShared(n) ==
    /\ copier[n].stage = "credit" /\ copier' = [copier EXCEPT ![n] = Idle]
    /\ Append(n, <<"full", n, copier[n].from>>) /\ Around /\ UNCHANGED <<disk, verified, budget>>
Crash(n) ==
    /\ budget.crashes < MaxCrashes /\ budget' = [budget EXCEPT !.crashes = @ + 1]
    /\ confirm' = [confirm EXCEPT ![n] = "idle"] /\ fetch' = [fetch EXCEPT ![n] = Idle]
    /\ copier' = [copier EXCEPT ![n] = Idle]
    /\ disk' = IF copier[n].stage = "copy" THEN [disk EXCEPT ![n].own = "torn"] ELSE disk
    /\ UNCHANGED <<bus, credits, verified, raced>>

ContentNext ==
    /\ \E n \in Nodes :
          \/ PublishNext(n) \/ FetchNext(n) \/ CopyShared(n) \/ CreditShared(n) \/ Crash(n)
          \/ \E p \in Nodes : FindRecord(n, p)
    /\ UNCHANGED directoryVars

-----------------------------------------------------------------------------
(* register_job_capacity: one record per node, replaced as a whole, so a service *)
(* publishes what every service of the process has advertised.                   *)
MergeOwn(s) == {s}   \* mutant
Merged(s) == merged \cup {s}
Advertise(s) ==
    /\ publication[s] = Silent /\ merged' = Merged(s)
    /\ overlapped' = \E t \in Services : publication[t] # Silent
    /\ publication' = [publication EXCEPT ![s] = Merged(s)] /\ UNCHANGED <<capacity, advertised>>
Published(s) ==
    /\ publication[s] # Silent /\ capacity' = publication[s] /\ advertised' = advertised \cup {s}
    /\ publication' = [publication EXCEPT ![s] = Silent] /\ UNCHANGED <<merged, overlapped>>
NodeRestarts ==
    /\ merged' = {} /\ advertised' = {} /\ publication' = [s \in Services |-> Silent] /\ overlapped' = FALSE
    /\ UNCHANGED capacity
DirectoryNext == (NodeRestarts \/ \E s \in Services : Advertise(s) \/ Published(s)) /\ UNCHANGED contentVars

-----------------------------------------------------------------------------
(* A consumer attests a delivery it checked, once, and a provider holds no       *)
(* attestation its consumer did not make; a rewritten published file excepted.   *)
CreditIsEarned ==
    \A n, c, p \in Nodes : \A k \in Kinds :
       /\ credits[n][<<k, c, p>>] <= 1
       /\ credits[n][<<k, c, p>>] > 0 => /\ n \in {c, p} /\ credits[c][<<k, c, p>>] > 0
                                         /\ <<k, c, p>> \in verified \/ raced

(* The publication of one service does not wipe out what the others advertise,   *)
(* as long as no two publications overlap (their order at the registry is open). *)
NothingIsWiped ==
    (~ overlapped /\ \A s \in Services : publication[s] = Silent) => advertised \subseteq capacity

(* What a node at rest calls fetched in full is held in full: not what is known   *)
(* by its preview alone.                                                         *)
FetchStatus(n) ==
    IF disk[n].manifest = None THEN "discovered" ELSE IF disk[n].manifest = n THEN "local" ELSE "fetched_full"

\* A node that advertises an item it fetched holds the bytes of that item (fetch of store.py).
FetchedIsHeld ==
    \A n \in Nodes : Answers(n) /\ FetchStatus(n) = "fetched_full" => {disk[n].own, disk[n].fetched} # {"none"}
=============================================================================
