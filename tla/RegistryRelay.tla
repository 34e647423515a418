----------------------------- MODULE RegistryRelay -----------------------------
(* What a node keeps with the servers of its network, in two halves that share no  *)
(* state.                                                                          *)
(*                                                                                 *)
(* The board: a chain of registries (registry.py, registry_http.py,                *)
(* registry_resilience.py, jobs.py) carrying one work order, its result and one    *)
(* letter.  Each registry keeps the order in a file, its results in others, and an *)
(* index of markers that the listing of open orders starts from; handlers of       *)
(* repeated submissions run side by side, a registry may stop between two writes,  *)
(* and a client that gets no answer turns to the next registry of the chain.       *)
(*                                                                                 *)
(* The relay: content-addressed blobs (relay.py, its routes in registry_http.py,   *)
(* its callers in store.py).  A file larger than one request goes up in chunks     *)
(* that the relay joins, or, where the relay cannot join, with a manifest that     *)
(* names them.  Requests are cut off, their answers are lost, the relay crashes    *)
(* between a blob and its metadata, and a file may be edited while it is being     *)
(* uploaded.  A hash stands for the bytes it is of: a blob's key is its content,   *)
(* and a content is a sequence of pieces.                                          *)
EXTENDS Naturals, Sequences, FiniteSets

CONSTANTS
    NumMirrors, Tries,
    MaxDeposits,     \* bound: how often the sender deposits the letter
    Uploaders, Downloaders,
    Source,          \* the file each uploader begins with, a sequence of pieces
    Edited,          \* what an edit makes of it
    DirectLimit,     \* pieces one request carries (relay_direct_upload_max_bytes)
    MaxPieces,       \* the largest blob the relay keeps (max_blob_bytes)
    MaxFailures,     \* bound: requests cut off, answers lost and crashes
    Nothing

Mirrors == 1 .. NumMirrors

VARIABLES board,     \* board[r]: the files of registry r about the order
          handler,   \* handler[t]: the handler of one attempt to submit it
          client,    \* the requester's walk along the chain
          acked,     \* the registries that acknowledged the order
          result,    \* the provider's publication of the result
          listing,   \* a listing of open orders
          unread,    \* registries whose last failed reading dropped the marker
          expired,   \* the order's expiry has passed
          peer,      \* peer[r]: the provider's record, as kept by r
          copies,    \* registries holding the letter
          deposit,   \* the sender's walk along the chain with the letter
          excused    \* history: the letter went on for want of a verdict

VARIABLES
    joins,       \* whether this relay has the assemble route
    blobs,       \* blob files of the relay
    metas,       \* metadata records: key -> media type
    file,        \* the uploader's file now
    upload,      \* the upload under way or its result
    download,    \* the download under way or its result
    dest,        \* the content at the downloader's destination
    failures

boardVars == <<board, handler, client, acked, result, listing, unread, expired, peer, copies, deposit, excused>>
mailVars == <<copies, deposit, excused>>
orderVars == <<board, handler, client, acked, result, listing, unread, expired>>
peerVars == <<peer, mailVars>>

NoHandler == [stage |-> "new", mirror |-> 0, fresh |-> FALSE, open |-> FALSE]
NoWalk == [at |-> 0, try |-> {}]

\* A registry starts empty, or is a legacy one: orders in files and no index yet.
BoardInit ==
    /\ board \in [Mirrors -> {[file |-> f, marker |-> FALSE, result |-> FALSE, ready |-> FALSE] :
                                 f \in {"none", "whole"}}]
    /\ handler = [t \in Tries |-> NoHandler] /\ client = NoWalk /\ acked = {}
    /\ result = [stage |-> "idle", mirror |-> 0] /\ listing = [stage |-> "idle", mirror |-> 0]
    /\ unread = {} /\ expired = FALSE /\ peer = [r \in Mirrors |-> "none"]
    /\ copies = {} /\ deposit = [at |-> 0, count |-> 0] /\ excused = FALSE

----------------------------------------------------------------------------
(* The requester: _try_all, with one HTTP call per registry.                     *)

serverVars == <<board, result, listing, unread, expired, peerVars>>

Call(r, t) ==
    /\ handler[t].stage = "new" /\ \A s \in Tries : handler[s].stage = "new" => t <= s
    /\ handler' = [handler EXCEPT ![t] = [NoHandler EXCEPT !.stage = "create", !.mirror = r]]
    /\ client' = [at |-> r, try |-> {t}]
Submit(t) ==
    /\ client.at = 0 /\ Call(1, t) /\ UNCHANGED <<acked, serverVars>>
\* Refused or no answer in time: the next registry, if there is one; the handler of
\* the attempt goes on by itself.
TryNext(t) ==
    /\ client.at \in 1 .. NumMirrors - 1
    /\ Call(client.at + 1, t) /\ UNCHANGED <<acked, serverVars>>
AllFailed ==
    /\ client.at = NumMirrors /\ client' = NoWalk /\ UNCHANGED <<handler, acked, serverVars>>
Acknowledged ==
    /\ \E t \in client.try : handler[t].stage = "done"
    /\ acked' = acked \cup {client.at} /\ client' = NoWalk
    /\ UNCHANGED <<handler, serverVars>>

----------------------------------------------------------------------------
(* FilePeerRegistry.submit_work_order, one file operation at a time.             *)

handlerVars == <<client, acked, result, listing, expired, peerVars>>
Stage(t, from, to) ==
    /\ handler[t].stage = from /\ handler' = [handler EXCEPT ![t].stage = to]
    /\ UNCHANGED handlerVars
FileOf(t) == board[handler[t].mirror].file

\* open("x"): whoever creates the file writes it; nobody overwrites.
Create(t) ==
    /\ handler[t].stage = "create" /\ FileOf(t) = "none"
    /\ board' = [board EXCEPT ![handler[t].mirror].file = "partial"]
    /\ handler' = [handler EXCEPT ![t].stage = "write", ![t].fresh = TRUE]
    /\ UNCHANGED <<unread, handlerVars>>
Write(t) ==
    /\ Stage(t, "write", "status") /\ UNCHANGED unread
    /\ board' = [board EXCEPT ![handler[t].mirror].file = "whole"]
Existing(t) ==
    /\ Stage(t, "create", "status") /\ FileOf(t) = "whole" /\ UNCHANGED <<board, unread>>
Conflict(t) ==     \* half a file is not the same order
    /\ Stage(t, "create", "refused") /\ FileOf(t) = "partial" /\ UNCHANGED <<board, unread>>
ReadStatus(t) ==
    /\ handler[t].stage = "status"
    /\ handler' = [handler EXCEPT ![t].stage = "mark",
                                  ![t].open = ~ expired /\ ~ board[handler[t].mirror].result]
    /\ UNCHANGED <<board, unread, handlerVars>>
\* The marker is written for an open order and removed for any other, whoever
\* created the file.
MarkedIfFresh(t) ==     \* mutant: an order that was there already is not indexed again
    IF handler[t].fresh THEN handler[t].open ELSE board[handler[t].mirror].marker
Marked(t) == handler[t].open
Mark(t) ==
    /\ Stage(t, "mark", "done") /\ unread' = unread \ {handler[t].mirror}
    /\ board' = [board EXCEPT ![handler[t].mirror].marker = Marked(t)]

(* publish_work_result: the result first, then the marker.                       *)
PublishResult(r) ==
    /\ result.stage = "idle" /\ board[r].file = "whole"
    /\ board' = [board EXCEPT ![r].result = TRUE] /\ result' = [stage |-> "written", mirror |-> r]
    /\ UNCHANGED <<handler, client, acked, listing, unread, expired, peerVars>>
Unmark ==
    /\ result.stage = "written"
    /\ board' = [board EXCEPT ![result.mirror].marker = FALSE]
    /\ result' = [stage |-> "idle", mirror |-> 0]
    /\ UNCHANGED <<handler, client, acked, listing, unread, expired, peerVars>>

(* _initialize_open_work_order_index, when a registry without an index starts.   *)
Migrate(r) ==
    /\ ~ board[r].ready
    /\ board' = [board EXCEPT ![r].ready = TRUE,
                     ![r].marker = @ \/ (board[r].file = "whole" /\ ~ expired /\ ~ board[r].result)]
    /\ UNCHANGED <<handler, client, acked, result, listing, unread, expired, peerVars>>

(* _list_open_work_orders: from the marker to the order's file and its results.  *)
Glob(r) ==
    /\ listing.stage = "idle" /\ board[r].ready /\ board[r].marker
    /\ listing' = [stage |-> "order", mirror |-> r]
    /\ UNCHANGED <<board, handler, client, acked, result, unread, expired, peerVars>>
Discarded == ~ (board[listing.mirror].file = "whole") \/ expired \/ board[listing.mirror].result
Judge ==
    /\ listing.stage = "order"
    /\ board' = [board EXCEPT ![listing.mirror].marker = @ /\ ~ Discarded]
    /\ listing' = [stage |-> "idle", mirror |-> 0]
    /\ UNCHANGED <<handler, client, acked, result, unread, expired, peerVars>>
\* A file that cannot be read for the moment loses its marker as well.
ReadFails ==
    /\ listing.stage = "order"
    /\ board' = [board EXCEPT ![listing.mirror].marker = FALSE]
    /\ unread' = unread \cup {listing.mirror} /\ listing' = [stage |-> "idle", mirror |-> 0]
    /\ UNCHANGED <<handler, client, acked, result, expired, peerVars>>

Expire ==
    /\ ~ expired /\ expired' = TRUE
    /\ UNCHANGED <<board, handler, client, acked, result, listing, unread, peerVars>>
\* A registry stops between any two file operations; its handlers are gone.
StopRegistry(r) ==
    /\ handler' = [t \in Tries |-> IF handler[t].mirror = r /\ handler[t].stage \notin {"done", "refused"}
                                   THEN [handler[t] EXCEPT !.stage = "dead"] ELSE handler[t]]
    /\ result' = IF result.mirror = r THEN [stage |-> "idle", mirror |-> 0] ELSE result
    /\ listing' = IF listing.mirror = r THEN [stage |-> "idle", mirror |-> 0] ELSE listing
    /\ UNCHANGED <<board, client, acked, unread, expired, peerVars>>

----------------------------------------------------------------------------
(* The provider's peer record: publish writes in place, list_peers skips what it    *)
(* cannot verify or finds too old.                                                 *)
RegisterPeer(r) ==
    /\ peer' = [peer EXCEPT ![r] = IF @ = "torn" THEN "current" ELSE "torn"]
    /\ UNCHANGED <<orderVars, mailVars>>
Age(r) == peer[r] = "current" /\ peer' = [peer EXCEPT ![r] = "old"] /\ UNCHANGED <<orderVars, mailVars>>
ListedPeers(r) == peer[r] = "current"

(* _try_mailbox: a verdict about the letter ends the walk, everything else does not. *)
Deposit ==
    /\ deposit.at = 0 /\ deposit.count < MaxDeposits
    /\ deposit' = [at |-> 1, count |-> deposit.count + 1]
    /\ UNCHANGED <<orderVars, peer, copies, excused>>
EndsWhenStored(verdict) == verdict = "stored"    \* mutant: a refusal is tried elsewhere
Ends(verdict) == verdict \in {"stored", "refused"}
Verdict ==
    /\ deposit.at \in Mirrors
    /\ LET verdict == IF deposit.at \in copies THEN "refused" ELSE "stored"
       IN  deposit' = [deposit EXCEPT !.at = IF Ends(verdict) THEN 0 ELSE (@ + 1) % (NumMirrors + 1)]
    /\ copies' = copies \cup {deposit.at}
    /\ UNCHANGED <<orderVars, peer, excused>>
NoVerdict(stored) ==
    /\ deposit.at \in Mirrors
    /\ deposit' = [deposit EXCEPT !.at = (@ + 1) % (NumMirrors + 1)] /\ excused' = TRUE
    /\ copies' = IF stored THEN copies \cup {deposit.at} ELSE copies
    /\ UNCHANGED <<orderVars, peer>>

OrderNext ==
    \/ AllFailed \/ Acknowledged \/ Unmark \/ Judge \/ ReadFails \/ Expire
    \/ \E t \in Tries : \/ Submit(t) \/ TryNext(t) \/ Create(t) \/ Write(t) \/ Existing(t)
                        \/ Conflict(t) \/ ReadStatus(t) \/ Mark(t)
    \/ \E r \in Mirrors : PublishResult(r) \/ Migrate(r) \/ Glob(r) \/ StopRegistry(r)
LetterNext ==
    \/ Deposit \/ Verdict
    \/ \E stored \in BOOLEAN : NoVerdict(stored)
    \/ \E r \in Mirrors : RegisterPeer(r) \/ Age(r)
BoardNext == OrderNext \/ LetterNext

----------------------------------------------------------------------------
(* An order a registry acknowledged stays in its index while it is open and has no   *)
(* result, whatever attempts, results, listings and restarts cross, unless a listing  *)
(* failed to read it; and its file is whole.                                         *)
AcceptedIsListed ==
    \A r \in acked : /\ board[r].file = "whole"
                     /\ expired \/ board[r].result \/ board[r].marker \/ r \in unread
(* A letter is kept by more than one registry only if a registry gave no verdict.    *)
OneCopyPerVerdict == Cardinality(copies) > 1 => excused

\* What the registry and its mirrors promise (registry.py, registry_resilience.py).
BoardSound == AcceptedIsListed /\ OneCopyPerVerdict

-----------------------------------------------------------------------------
(* The relay's blobs.                                                          *)

relayVars == <<joins, blobs, metas, file, upload, download, dest, failures>>

Bytes(s) == [kind |-> "bytes", parts |-> s, of |-> <<>>]
Manifest(chunks, whole) == [kind |-> "manifest", parts |-> chunks, of |-> whole]
Torn == Bytes(<<>>)     \* a file cut short
Media(k) == IF k.kind = "manifest" THEN "manifest" ELSE "blob"

RelayInit ==
    /\ joins \in BOOLEAN
    /\ blobs = {} /\ metas = [k \in {} |-> {}]
    /\ file = Source
    /\ upload = [u \in Uploaders |-> [at |-> "idle", expected |-> <<>>, chunks |-> <<>>, key |-> Nothing, edited |-> FALSE]]
    /\ download = [d \in Downloaders |-> [at |-> "idle", key |-> Nothing, done |-> 0, told |-> Nothing]]
    /\ dest = [d \in Downloaders |-> Nothing]
    /\ failures = 0

-----------------------------------------------------------------------------
(* The relay: put_chunks, put_async_chunks and _commit_tmp.                    *)

WithMeta(k) == [j \in DOMAIN metas \cup {k} |-> IF j = k THEN Media(k) ELSE metas[j]]
Whole(k) == k \in blobs /\ k \in DOMAIN metas     \* info and path_for both find it

\* A fault: content that is not what was announced is kept.
AcceptsAny(k, expected) == Len(k.parts) <= MaxPieces
Accepts(k, expected) == Len(k.parts) <= MaxPieces /\ k = expected

\* A fault: the metadata of a blob that is there already is not written.
MetaOnce(k) == IF k \in blobs THEN metas ELSE WithMeta(k)
CommittedMeta(k) == WithMeta(k)

Stored(k) == blobs' = blobs \cup {k} /\ metas' = CommittedMeta(k)

\* One request with the bytes of k: stored and answered, or one of the ways it goes wrong.
Post(u, k, expected, then) ==
    \/ /\ Accepts(k, expected)
       /\ Stored(k)
       /\ upload' = [upload EXCEPT ![u] = then]
       /\ UNCHANGED failures
    \/ /\ ~Accepts(k, expected)                          \* relay_hash_mismatch, relay_blob_too_large
       /\ upload' = [upload EXCEPT ![u].at = "failed"]
       /\ UNCHANGED <<blobs, metas, failures>>
    \/ /\ failures < MaxFailures
       /\ failures' = failures + 1
       /\ upload' = [upload EXCEPT ![u].at = "failed"]
       /\ \/ UNCHANGED <<blobs, metas>>                                            \* cut off
          \/ Accepts(k, expected) /\ Stored(k)                                     \* answer lost
          \/ Accepts(k, expected) /\ blobs' = blobs \cup {k} /\ UNCHANGED metas    \* crash in _commit_tmp

-----------------------------------------------------------------------------
(* The uploader: upload_file, _upload_streaming, _upload_chunked.              *)

Edit(u) ==
    /\ file[u] = Source[u] /\ Edited[u] # Source[u]
    /\ file' = [file EXCEPT ![u] = Edited[u]]
    /\ upload' = [upload EXCEPT ![u].edited = @ \/ upload[u].at \in {"whole", "chunks"}]
    /\ UNCHANGED <<joins, blobs, metas, download, dest, failures>>

\* The hash is taken first, and the bytes are read again for each request.
StartUpload(u) ==
    /\ upload[u].at \in {"idle", "failed"}
    /\ upload' = [upload EXCEPT ![u] = [at |-> IF Len(file[u]) > DirectLimit THEN "chunks" ELSE "whole",
            expected |-> file[u], chunks |-> <<>>, key |-> Nothing, edited |-> FALSE]]
    /\ UNCHANGED <<joins, blobs, metas, file, download, dest, failures>>

Finished(u, k) == [upload[u] EXCEPT !.at = "done", !.key = k]

SendWhole(u) ==
    /\ upload[u].at = "whole"
    /\ LET k == Bytes(file[u]) IN Post(u, k, Bytes(upload[u].expected), Finished(u, k))
    /\ UNCHANGED <<joins, file, download, dest>>

Sent(u) == Len(upload[u].chunks)

\* A chunk is read once into a temporary file, so what is sent is what was hashed.
SendChunk(u) ==
    /\ upload[u].at = "chunks" /\ Sent(u) < Len(file[u])
    /\ LET c == file[u][Sent(u) + 1]
           k == Bytes(<<c>>) IN Post(u, k, k, [upload[u] EXCEPT !.chunks = Append(@, c)])
    /\ UNCHANGED <<joins, file, download, dest>>

AllSent(u) == upload[u].at = "chunks" /\ Sent(u) >= Len(file[u])

\* The assemble route is missing, or answers 404 for a chunk it lacks.
CannotJoin(u) == ~joins \/ \E i \in 1..Sent(u) : ~Whole(Bytes(<<upload[u].chunks[i]>>))

\* _assemble_chunks and put_chunk_refs: the relay joins the chunks it has.
Assemble(u) ==
    /\ AllSent(u) /\ ~CannotJoin(u)
    /\ LET k == Bytes(upload[u].chunks) IN Post(u, k, Bytes(upload[u].expected), Finished(u, k))
    /\ UNCHANGED <<joins, file, download, dest>>

\* _upload_chunk_manifest, where the relay does not join the chunks.
SendManifest(u) ==
    /\ AllSent(u) /\ CannotJoin(u)
    /\ LET k == Manifest(upload[u].chunks, upload[u].expected) IN Post(u, k, k, Finished(u, k))
    /\ UNCHANGED <<joins, file, download, dest>>

-----------------------------------------------------------------------------
(* The downloader: download_blob, _download_raw_blob, _download_chunked_manifest. *)

Way(k) == IF Whole(k) /\ metas[k] = "manifest" THEN "parts" ELSE "raw"

\* blob_info chooses the way; when it fails, the blob is fetched as it is.
StartDownload(d) ==
    /\ download[d].at \in {"idle", "done", "failed"}
    /\ \E u \in Uploaders :
        /\ upload[u].at = "done"
        /\ LET k == upload[u].key IN
           \/ /\ download' = [download EXCEPT ![d] = [at |-> Way(k), key |-> k, done |-> 0, told |-> Nothing]]
              /\ UNCHANGED failures
           \/ /\ failures < MaxFailures /\ failures' = failures + 1
              /\ download' = [download EXCEPT ![d] = [at |-> "raw", key |-> k, done |-> 0, told |-> Nothing]]
    /\ UNCHANGED <<joins, blobs, metas, file, upload, dest>>

DownloadFails(d) ==
    /\ download[d].at \in {"raw", "parts"}
    /\ failures < MaxFailures /\ failures' = failures + 1
    /\ download' = [download EXCEPT ![d].at = "failed"]
    /\ \/ dest' = [dest EXCEPT ![d] = Nothing]
       \/ download[d].at = "raw" /\ dest' = [dest EXCEPT ![d] = Torn]   \* an error it does not catch
    /\ UNCHANGED <<joins, blobs, metas, file, upload>>

\* The raw bytes go straight to the destination; the hash decides at the end.
FetchRaw(d) ==
    /\ download[d].at = "raw"
    /\ LET k == download[d].key IN
       IF Whole(k)
       THEN /\ dest' = [dest EXCEPT ![d] = k]
            /\ download' = [download EXCEPT ![d].at = "done", ![d].told = k]
       ELSE /\ dest' = [dest EXCEPT ![d] = Nothing]
            /\ download' = [download EXCEPT ![d].at = "failed"]
    /\ UNCHANGED <<joins, blobs, metas, file, upload, failures>>

FetchPart(d) ==
    /\ download[d].at = "parts" /\ download[d].done < Len(download[d].key.parts)
    /\ IF Whole(Bytes(<<download[d].key.parts[download[d].done + 1]>>))
       THEN download' = [download EXCEPT ![d].done = @ + 1] /\ UNCHANGED dest
       ELSE /\ download' = [download EXCEPT ![d].at = "failed"]
            /\ dest' = [dest EXCEPT ![d] = Nothing]
    /\ UNCHANGED <<joins, blobs, metas, file, upload, failures>>

\* A fault: what the parts make is not compared with what the manifest promises.
JoinedAny(k) == TRUE
Joined(k) == k.parts = k.of

JoinParts(d) ==
    /\ download[d].at = "parts" /\ download[d].done = Len(download[d].key.parts)
    /\ LET k == download[d].key IN
       IF Joined(k)
       THEN /\ dest' = [dest EXCEPT ![d] = Bytes(k.parts)]
            /\ download' = [download EXCEPT ![d].at = "done", ![d].told = Bytes(k.of)]
       ELSE /\ dest' = [dest EXCEPT ![d] = Nothing]
            /\ download' = [download EXCEPT ![d].at = "failed"]
    /\ UNCHANGED <<joins, blobs, metas, file, upload, failures>>

Upload(u) == Edit(u) \/ StartUpload(u) \/ SendWhole(u) \/ SendChunk(u) \/ Assemble(u) \/ SendManifest(u)
Download(d) == StartDownload(d) \/ DownloadFails(d) \/ FetchRaw(d) \/ FetchPart(d) \/ JoinParts(d)
RelayNext == (\E u \in Uploaders : Upload(u)) \/ (\E d \in Downloaders : Download(d))


-----------------------------------------------------------------------------
\* What a download of k can make of the relay's blobs.
Yields(k) == IF k.kind = "manifest" THEN k.of ELSE k.parts
Fetchable(k) == Whole(k) /\ (k.kind = "manifest" => k.parts = k.of /\ \A i \in 1..Len(k.parts) : Whole(Bytes(<<k.parts[i]>>)))

(* An uploader that was told its file is stored has stored the file it hashed,  *)
(* whole, with its metadata, whatever crashed before; only a manifest of a file *)
(* that was edited during the upload is not checked by anyone.                  *)
ToldIsStored ==
    \A u \in Uploaders : LET up == upload[u] IN
        up.at = "done" => /\ Yields(up.key) = up.expected
                          /\ Whole(up.key)
                          /\ Fetchable(up.key) \/ (up.edited /\ up.key.kind = "manifest")

(* A download that reports success leaves the content whose hash it reports.    *)
ToldIsThere == \A d \in Downloaders : download[d].at = "done" => dest[d] = download[d].told

(* Metadata never names a blob that is not there.                               *)
MetaHasBlob == DOMAIN metas \subseteq blobs

\* What the relay's answers promise of its files (relay.py).
RelaySound == ToldIsStored /\ ToldIsThere /\ MetaHasBlob
==============================================================================
