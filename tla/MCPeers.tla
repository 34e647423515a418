---------------------------------- MODULE MCPeers ----------------------------------
(* What peers exchange, on small instances: relationships and messages, cards of *)
(* shared files, the shared reading list and the friend feed; transfers and      *)
(* streams between them, beside their routes (TransitRoute); work orders and     *)
(* letters on the registry, blobs on the relay, items and receipts between       *)
(* nodes; the judge's and the witness's work for the Exchange. They share no     *)
(* state, so a behaviour is of one of them and the others stand still.           *)
EXTENDS TransitRoute, Integers, Sequences, TLC

CONSTANTS
    \* model values
    NoToken, NoList, NoPage, NoTicket, NoFrame, Nothing, one, two,
    \* the instance of Friends, its cards
    Cards, Fetches, Capacity, MaxGeneration, MaxTrouble,
    \* the instance of PeerTransit
    NumSegments, MaxAttempts, MaxConcurrent, MaxCrashes, MaxStale,
    \* the instance of Streams
    NumFrames, RecentIds, Deltas, QueueSize, RingSize, MaxEvicted,
    \* the instance of IceExchange
    NumEvents,
    \* the instance of RegistryRelay
    NumMirrors, Tries, MaxDeposits, Uploaders, Downloaders, Source, Edited, DirectLimit, MaxPieces,
    MaxFailures,
    \* the instance of ContentExchange
    Homes, Services, MaxPublish, MaxStarts, ContentCrashes,
    \* the instance of ExchangeWork
    Threads, Cases, Shares, Providers, Jobs, AttemptLimit, Expiry, MaxClock

VARIABLES
    component,   \* the component this behaviour is of
    invite, bond, call, msg, attempt, copies, mail, late,
    shared, intact, card, legacy, deleted, pending, review, eraser, copy, generation, removal, removedAt,
    fetch, trouble,
    owner, member, listCall, friendly, issued, applied, pub, asked, made, sub, inbox, refresh, bodyFetch,
    friends,
    source, session, claims, part, checkpoint, stored, crashes,
    streamsSource, transit, target, queue, recent, worker, pipe, response, reading, broker, reader, evicted,
    consumer, provider, iceInbox,
    board, handler, client, acked, result, listing, unread, expired, peer, boardCopies, deposit, excused,
    joins, blobs, metas, file, upload, download, dest, failures,
    disk, bus, confirm, contentFetch, copier, credits, verified, raced, budget, merged, publication,
    capacity, advertised, overlapped,
    phase, rewarded, workClock, ruling, receipt, cachedAt, attempts, triedAt, judging, witness, task,
    sentRulings, sentReceipts, generated, probes

ASSUME FramesAssumption ==
    /\ NumFrames \in Nat \ {0} /\ RecentIds \in Nat \ {0}
    /\ NoFrame \notin [direction : {"request", "response"}, sequence : Nat, final : BOOLEAN]
ASSUME MirrorsAssumption == NumMirrors \in Nat \ {0}
ASSUME FilesAssumption == Source \in [Uploaders -> Seq(Nat)] /\ Edited \in [Uploaders -> Seq(Nat)]
ASSUME SegmentsAssumption == NumSegments \in Nat \ {0} /\ MaxAttempts \in Nat
ASSUME EventsAssumption == NumEvents \in Nat
ASSUME AnswersAssumption == Deltas \in Nat /\ RingSize \in Nat \ {0}
ASSUME WorkAssumption ==
    /\ AttemptLimit \in Nat /\ Expiry \in Nat
    /\ Cases \cap Providers = {} /\ "none" \notin Threads /\ "none" \notin Jobs /\ -1 \notin Shares

Few == {"one"}

\* The two calls, fetches, requests or threads of an instance are alike.
Two == {one, two}
Alike == Permutations(Two)

SourceFiles == [u \in {"u1", "u2"} |-> IF u = "u1" THEN <<1, 2>> ELSE <<1>>]
EditedFiles == [u \in {"u1", "u2"} |-> IF u = "u1" THEN <<1, 3>> ELSE <<2>>]

Relations == INSTANCE Friends WITH Invites <- Few, Messages <- Few, Calls <- Two, MaxIds <- 2, MaxQueued <- 1
Reading == INSTANCE FriendReading WITH Items <- Few, Calls <- Two, MaxItems <- 1, MaxEdits <- 2, MaxPending <- 2, Requests <- Two,
        Refreshes <- Two, MaxRevision <- 3, call <- listCall, fetch <- bodyFetch
Transfer == INSTANCE PeerTransit WITH Segments <- 1..NumSegments
Stream == INSTANCE Streams WITH Frames <- [n \in 1..NumFrames |-> n], source <- streamsSource
Ice == INSTANCE IceExchange WITH Events <- NumEvents, inbox <- iceInbox
Board == INSTANCE RegistryRelay WITH copies <- boardCopies
Content == INSTANCE ContentExchange WITH MaxCrashes <- ContentCrashes, Nodes <- Homes, fetch <- contentFetch
Work == INSTANCE ExchangeWork WITH clock <- workClock

\* A component that is not the one looked at stands still in one state; for that of
\* TransitRoute it is the state it starts in.
Off == "off"
routeState == <<route, clock, healthy, troubled, switched>>
friendsState == <<invite, bond, call, msg, attempt, copies, mail, late>>
cardsState == <<shared, intact, card, legacy, deleted, pending, review, eraser, copy, generation, removal,
        removedAt, fetch, trouble>>
readingState == <<owner, member, listCall, friendly, issued, applied, pub, asked, made, sub, inbox, refresh,
        bodyFetch, friends>>
transferState == <<source, session, claims, part, checkpoint, stored, crashes>>
streamsState == <<streamsSource, transit, target, queue, recent, worker, pipe, response, reading, broker, reader,
        evicted>>
iceState == <<consumer, provider, iceInbox>>
boardState == <<board, handler, client, acked, result, listing, unread, expired, peer, boardCopies, deposit, excused>>
relayState == <<joins, blobs, metas, file, upload, download, dest, failures>>
contentState == <<disk, bus, confirm, contentFetch, copier, credits, verified, raced, budget, merged, publication,
        capacity, advertised, overlapped>>
workState == <<phase, rewarded, workClock, ruling, receipt, cachedAt, attempts, triedAt, judging, witness, task,
        sentRulings, sentReceipts, generated, probes>>
routeOff == Init
friendsOff == invite = Off /\ bond = Off /\ call = Off /\ msg = Off /\ attempt = Off /\ copies = Off /\ mail = Off /\
    late = Off
cardsOff == shared = Off /\ intact = Off /\ card = Off /\ legacy = Off /\ deleted = Off /\ pending = Off /\ review =
    Off /\ eraser = Off /\ copy = Off /\ generation = Off /\ removal = Off /\ removedAt = Off /\ fetch = Off
    /\ trouble = Off
readingOff == owner = Off /\ member = Off /\ listCall = Off /\ friendly = Off /\ issued = Off /\ applied = Off /\ pub
    = Off /\ asked = Off /\ made = Off /\ sub = Off /\ inbox = Off /\ refresh = Off /\ bodyFetch = Off /\
    friends = Off
transferOff == source = Off /\ session = Off /\ claims = Off /\ part = Off /\ checkpoint = Off /\ stored = Off /\
    crashes = Off
streamsOff == streamsSource = Off /\ transit = Off /\ target = Off /\ queue = Off /\ recent = Off /\ worker = Off /\
    pipe = Off /\ response = Off /\ reading = Off /\ broker = Off /\ reader = Off /\ evicted = Off
iceOff == consumer = Off /\ provider = Off /\ iceInbox = Off
boardOff == board = Off /\ handler = Off /\ client = Off /\ acked = Off /\ result = Off /\ listing = Off /\ unread =
    Off /\ expired = Off /\ peer = Off /\ boardCopies = Off /\ deposit = Off /\ excused = Off
relayOff == joins = Off /\ blobs = Off /\ metas = Off /\ file = Off /\ upload = Off /\ download = Off /\ dest = Off
    /\ failures = Off
contentOff == disk = Off /\ bus = Off /\ confirm = Off /\ contentFetch = Off /\ copier = Off /\ credits = Off /\
    verified = Off /\ raced = Off /\ budget = Off /\ merged = Off /\ publication = Off /\ capacity = Off /\
    advertised = Off /\ overlapped = Off
workOff == phase = Off /\ rewarded = Off /\ workClock = Off /\ ruling = Off /\ receipt = Off /\ cachedAt = Off /\
    attempts = Off /\ triedAt = Off /\ judging = Off /\ witness = Off /\ task = Off /\ sentRulings = Off /\
    sentReceipts = Off /\ generated = Off /\ probes = Off
allVars == <<component, routeState, friendsState, cardsState, readingState, transferState, streamsState, iceState,
    boardState, relayState, contentState, workState>>

MCInit ==
    \/ component = "route" /\ Init /\ friendsOff /\ cardsOff /\ readingOff /\ transferOff /\ streamsOff /\ iceOff /\ boardOff /\ relayOff
        /\ contentOff /\ workOff
    \/ component = "friends" /\ Relations!FriendsInit /\ routeOff /\ cardsOff /\ readingOff /\ transferOff /\ streamsOff /\ iceOff /\ boardOff /\ relayOff /\
        contentOff /\ workOff
    \/ component = "cards" /\ Relations!CardsInit /\ routeOff /\ friendsOff /\ readingOff /\ transferOff /\ streamsOff /\ iceOff /\ boardOff /\ relayOff
        /\ contentOff /\ workOff
    \/ component = "list" /\ Reading!Init /\ routeOff /\ friendsOff /\ cardsOff /\ transferOff /\ streamsOff /\ iceOff /\ boardOff /\ relayOff /\
        contentOff /\ workOff
    \/ component = "feed" /\ Reading!Init /\ routeOff /\ friendsOff /\ cardsOff /\ transferOff /\ streamsOff /\ iceOff /\ boardOff /\ relayOff /\
        contentOff /\ workOff
    \/ component = "transfer" /\ Transfer!Init /\ routeOff /\ friendsOff /\ cardsOff /\ readingOff /\ streamsOff /\ iceOff /\ boardOff /\ relayOff /\
        contentOff /\ workOff
    \/ component = "frames" /\ Stream!Init /\ routeOff /\ friendsOff /\ cardsOff /\ readingOff /\ transferOff /\ iceOff /\ boardOff /\ relayOff /\
        contentOff /\ workOff
    \/ component = "stream" /\ Stream!Init /\ routeOff /\ friendsOff /\ cardsOff /\ readingOff /\ transferOff /\ iceOff /\ boardOff /\ relayOff /\
        contentOff /\ workOff
    \/ component = "ice" /\ Ice!Init /\ routeOff /\ friendsOff /\ cardsOff /\ readingOff /\ transferOff /\ streamsOff /\ boardOff /\
        relayOff /\ contentOff /\ workOff
    \/ component = "orders" /\ Board!BoardInit /\ routeOff /\ friendsOff /\ cardsOff /\ readingOff /\ transferOff /\ streamsOff /\ iceOff /\ relayOff
        /\ contentOff /\ workOff
    \/ component = "letters" /\ Board!BoardInit /\ routeOff /\ friendsOff /\ cardsOff /\ readingOff /\ transferOff /\ streamsOff /\ iceOff /\ relayOff
        /\ contentOff /\ workOff
    \/ component = "relay" /\ Board!RelayInit /\ routeOff /\ friendsOff /\ cardsOff /\ readingOff /\ transferOff /\ streamsOff /\ iceOff /\ boardOff
        /\ contentOff /\ workOff
    \/ component = "content" /\ Content!Init /\ routeOff /\ friendsOff /\ cardsOff /\ readingOff /\ transferOff /\ streamsOff /\ iceOff /\ boardOff
        /\ relayOff /\ workOff
    \/ component = "directory" /\ Content!Init /\ routeOff /\ friendsOff /\ cardsOff /\ readingOff /\ transferOff /\ streamsOff /\ iceOff /\ boardOff
        /\ relayOff /\ workOff
    \/ component = "work" /\ Work!Init /\ routeOff /\ friendsOff /\ cardsOff /\ readingOff /\ transferOff /\ streamsOff /\ iceOff /\ boardOff
        /\ relayOff /\ contentOff

RouteStep == component = "route" /\ Next
    /\ UNCHANGED <<component, friendsState, cardsState, readingState, transferState, streamsState, iceState,
        boardState, relayState, contentState, workState>>
FriendsStep == component = "friends" /\ Relations!FriendsNext
    /\ UNCHANGED <<component, routeState, cardsState, readingState, transferState, streamsState, iceState, boardState,
        relayState, contentState, workState>>
CardsStep == component = "cards" /\ Relations!CardsNext
    /\ UNCHANGED <<component, routeState, friendsState, readingState, transferState, streamsState, iceState,
        boardState, relayState, contentState, workState>>
ListStep == component = "list" /\ Reading!ListNext
    /\ UNCHANGED <<component, routeState, friendsState, cardsState, transferState, streamsState, iceState, boardState,
        relayState, contentState, workState>>
FeedStep == component = "feed" /\ Reading!FeedNext
    /\ UNCHANGED <<component, routeState, friendsState, cardsState, transferState, streamsState, iceState, boardState,
        relayState, contentState, workState>>
TransferStep == component = "transfer" /\ Transfer!Next
    /\ UNCHANGED <<component, routeState, friendsState, cardsState, readingState, streamsState, iceState, boardState,
        relayState, contentState, workState>>
FramesStep == component = "frames" /\ Stream!FramesNext
    /\ UNCHANGED <<component, routeState, friendsState, cardsState, readingState, transferState, iceState, boardState,
        relayState, contentState, workState>>
StreamStep == component = "stream" /\ Stream!AnswerNext
    /\ UNCHANGED <<component, routeState, friendsState, cardsState, readingState, transferState, iceState, boardState,
        relayState, contentState, workState>>
IceStep == component = "ice" /\ Ice!Next
    /\ UNCHANGED <<component, routeState, friendsState, cardsState, readingState, transferState, streamsState,
        boardState, relayState, contentState, workState>>
OrdersStep == component = "orders" /\ Board!OrderNext
    /\ UNCHANGED <<component, routeState, friendsState, cardsState, readingState, transferState, streamsState,
        iceState, relayState, contentState, workState>>
LettersStep == component = "letters" /\ Board!LetterNext
    /\ UNCHANGED <<component, routeState, friendsState, cardsState, readingState, transferState, streamsState,
        iceState, relayState, contentState, workState>>
RelayStep == component = "relay" /\ Board!RelayNext
    /\ UNCHANGED <<component, routeState, friendsState, cardsState, readingState, transferState, streamsState,
        iceState, boardState, contentState, workState>>
ContentStep == component = "content" /\ Content!ContentNext
    /\ UNCHANGED <<component, routeState, friendsState, cardsState, readingState, transferState, streamsState,
        iceState, boardState, relayState, workState>>
DirectoryStep == component = "directory" /\ Content!DirectoryNext
    /\ UNCHANGED <<component, routeState, friendsState, cardsState, readingState, transferState, streamsState,
        iceState, boardState, relayState, workState>>
WorkStep == component = "work" /\ Work!Next
    /\ UNCHANGED <<component, routeState, friendsState, cardsState, readingState, transferState, streamsState,
        iceState, boardState, relayState, contentState>>

MCNext == RouteStep \/ FriendsStep \/ CardsStep \/ ListStep \/ FeedStep \/ TransferStep \/ FramesStep \/
    StreamStep \/ IceStep \/ OrdersStep \/ LettersStep \/ RelayStep \/ ContentStep \/ DirectoryStep \/
    WorkStep

MCSpec == MCInit /\ [][MCNext]_allVars

-----------------------------------------------------------------------------
(* An invitation makes one relationship, a removal holds, a message is stored     *)
(* once and its state never goes back (friends/service.py, friends/store.py).     *)
FriendsSound ==
    [][component = "friends" => Relations!FriendsInv' /\ Relations!NothingReturns]_friendsState

(* Erased cards and removed copies do not come back, whatever arrives or ends     *)
(* late (friend_documents.py, library_imports.py, erasure of friend cards).       *)
CardsSound == component = "cards" => Relations!CardsSound

(* The owner of a list applies each member's edit once and in order and no edit   *)
(* is forgotten; a publication changes once per request and the subscriber's copy *)
(* never goes back to an older one (shared_reading, friend_feed).                 *)
ListsAdvance ==
    [][/\ component = "list" => Reading!SharedInv' /\ Reading!OnlyForward
       /\ component = "feed" => Reading!OncePerRequest' /\ Reading!NoCopyLeft' /\ Reading!FeedForward]_readingState

(* What a transfer or a relay calls stored is whole: an interrupted transfer is   *)
(* resumable and has one writer; a blob the relay confirmed is there and is what  *)
(* was sent (peer_transit_service.py, relay.py).                                  *)
MovedWhole ==
    /\ component = "transfer" => Transfer!TransferSound
    /\ component = "relay" => Board!RelaySound

(* Frames, ICE events and answer deltas arrive in order, once each and without a  *)
(* gap, and an end that was reported was reached by the other side                *)
(* (peer_transit_service.py, p2p.py, llm_package/streaming.py).                   *)
StreamsIntact ==
    /\ component = "frames" => Stream!StreamIntact
    /\ component = "ice" => Ice!ExchangeSound
    /\ component = "stream" => Stream!LlmStreamSound

(* A work order the registry accepted stays listed until it is dealt with, and a  *)
(* letter is kept by several registries only if one gave no verdict; a delivery   *)
(* is credited once and when checked, and a publication wipes out nothing another *)
(* service advertises (registry_resilience.py, store.py, peer_http.py).           *)
RegistrySound ==
    /\ component \in {"orders", "letters"} => Board!BoardSound
    /\ component = "content" => Content!CreditIsEarned
    /\ component = "directory" => Content!NothingIsWiped

(* A judge answers a case with one ruling, a witness signs for one job of a       *)
(* provider at a time, and model runs and probes stay bounded, across threads,    *)
(* restarts and prunings (exchange/work.py, exchange/judge.py).                   *)
WorkBounded ==
    component = "work" =>
        Work!OneRulingPerCase /\ Work!OneJobAtATime /\ Work!BoundedModelRuns /\ Work!BoundedProbing

==============================================================================
