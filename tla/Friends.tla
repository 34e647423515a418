-------------------------------- MODULE Friends --------------------------------
(* What friends exchange, in two halves that share no state.                        *)
(*                                                                                  *)
(* Messages: two friends (friends/service.py, store.py, mailbox.py, routes.py).     *)
(* "host" creates invitations, "guest" joins; either removes the other; the host    *)
(* sends messages.  Requests go directly, and when that fails through the mailbox.  *)
(* The network loses requests and answers, and several join calls run at once.      *)
(*                                                                                  *)
(* Cards: shared content cards at the friend who receives them: the card rows and   *)
(* their reviewed erasure (friends/store.py, card_cleanup.py), the fetch of a       *)
(* card's document (service.py fetch_content_card, serve_content_card) and its      *)
(* managed copy (services/library_imports.py, library_cleanup.py).  The same wire   *)
(* may arrive again at any time; fetches, erasures and cleanups overlap; the        *)
(* process may stop between two files.                                              *)
EXTENDS Naturals, FiniteSets

CONSTANTS Invites, Messages, Calls, \* Calls: concurrent join requests of the guest
          MaxIds,     \* bound: relationships ever made
          MaxQueued,  \* 100 queued messages
          Cards, Fetches, NoToken,
          Capacity,        \* 500 cards
          MaxGeneration,   \* bound: cleanups of the managed copies
          MaxTrouble       \* bound: stops of the process and damaged files

VARIABLES invite,     \* the host's invitations
          bond,       \* bond[node][id], the relationships each side has recorded
          call,       \* the guest's join calls
          msg,        \* the newest row of each of the host's messages
          attempt,    \* the delivery attempt that holds the message's lock stripe
          copies,     \* how often the guest has stored each message
          mail,       \* operations and receipts in the mailbox
          late        \* invitations and messages whose time is over

VARIABLES shared,     \* the friend's own rows: "none" ... "delivered"
          intact,     \* cards whose snapshot the friend still has
          card,       \* card[c]: "none", "available", "fetched", "unavailable"
          legacy,     \* cards that a file of the old format still lists
          deleted,    \* the replay barriers
          pending,    \* the erasure in progress: the ids it was reviewed for
          review,     \* the newest preview's plan
          eraser,     \* the erasing request: "idle" or "files"
          copy,       \* copy[c]: the managed document's files and when it was fetched
          generation, \* of the managed copies
          removal,    \* targets of the cleanup in progress
          removedAt,  \* history: the generation that last removed each copy
          fetch,      \* fetch[f]: a request to fetch a card
          trouble

friendsVars == <<invite, bond, call, msg, attempt, copies, mail, late>>

Nodes == {"host", "guest"}
Other(n) == IF n = "host" THEN "guest" ELSE "host"
Ids == 1..MaxIds
NoBond == [status |-> "none", invite |-> "none", notice |-> "none", mailed |-> FALSE]
Bond(i) == [NoBond EXCEPT !.status = "active", !.invite = i]
Idle == [stage |-> "idle", invite |-> "none", id |-> 0]
NoAttempt == [stage |-> "none", state |-> "none", by |-> 0]

FriendsInit ==
    /\ invite = [i \in Invites |-> [status |-> "none", id |-> 0]]
    /\ bond = [n \in Nodes |-> [r \in Ids |-> NoBond]]
    /\ call = [k \in Calls |-> Idle]
    /\ msg = [m \in Messages |-> [state |-> "none", id |-> 0]]
    /\ attempt = [m \in Messages |-> NoAttempt]
    /\ copies = [m \in Messages |-> 0]
    /\ mail = {} /\ late = {}

Active(n) == {r \in Ids : bond[n][r].status = "active"}
\* relationship_for_peer: the first one recorded that is active.
First(S) == CHOOSE r \in S : \A s \in S : r <= s
Fresh == {r \in Ids : \A n \in Nodes : bond[n][r] = NoBond /\ \A k \in Calls : call[k].id # r}

----------------------------------------------------------------------------
(* Invitation and pairing.                                                       *)

pairVars == <<msg, attempt, copies, mail>>

CreateInvite(i) ==
    /\ invite[i].status = "none" /\ invite' = [invite EXCEPT ![i].status = "active"]
    /\ UNCHANGED <<bond, call, pairVars, late>>
CancelInvite(i) ==
    /\ invite[i].status = "active" /\ invite' = [invite EXCEPT ![i].status = "cancelled"]
    /\ UNCHANGED <<bond, call, pairVars, late>>
Expires(x) ==
    /\ late' = late \cup {x}
    /\ UNCHANGED <<invite, bond, call, pairVars>>

\* join: an invitation that already gave a relationship asks for nothing.
Join(k, i) ==
    /\ call[k] = Idle /\ invite[i].status # "none"
    /\ \A r \in Ids : bond["guest"][r].invite # i
    /\ call' = [call EXCEPT ![k] = [Idle EXCEPT !.stage = "posted", !.invite = i]]
    /\ UNCHANGED <<invite, bond, pairVars, late>>

\* accept and accept_invite, one locked transaction: a used invitation answers
\* with the relationship it made.
AcceptedAs(i, r) ==
    \/ invite[i].status = "used" /\ r = invite[i].id /\ bond["host"][r].status = "active"
    \/ invite[i].status = "active" /\ i \notin late /\ r \in Fresh /\ r = First(Fresh)
Accept(k, r) ==
    /\ call[k].stage = "posted" /\ AcceptedAs(call[k].invite, r)
    /\ invite' = [invite EXCEPT ![call[k].invite] = [status |-> "used", id |-> r]]
    /\ bond' = IF bond["host"][r] = NoBond THEN [bond EXCEPT !["host"][r] = Bond(call[k].invite)] ELSE bond
    /\ call' = [call EXCEPT ![k].stage = "answered", ![k].id = r]
    /\ UNCHANGED <<pairVars, late>>
\* A refusal, or no answer.
JoinFails(k) ==
    /\ call[k] # Idle /\ call' = [call EXCEPT ![k] = Idle]
    /\ UNCHANGED <<invite, bond, pairVars, late>>

\* put_relationship: a removed relationship does not come back.
Recorded(old, new) == IF old.status = "revoked" THEN old ELSE new
PutRelationship(k) ==
    /\ call[k].stage = "answered"
    /\ bond' = [bond EXCEPT !["guest"][call[k].id] = Recorded(@, Bond(call[k].invite))]
    /\ call' = [call EXCEPT ![k] = Idle]
    /\ UNCHANGED <<invite, pairVars, late>>

----------------------------------------------------------------------------
(* Removing a friend.                                                            *)

revokeVars == <<invite, call, msg, attempt, copies, late>>
Notice(n, r) == [kind |-> "revoke", to |-> Other(n), id |-> r]
Receipt(n, x) == [kind |-> "receipt", to |-> n, of |-> x]

\* revoke: access ends and the signed notice is durable in the same write.
Revoke(n, r) ==
    /\ bond[n][r].status = "active"
    /\ bond' = [bond EXCEPT ![n][r].status = "revoked", ![n][r].notice = "pending"]
    /\ UNCHANGED <<revokeVars, mail>>

Knows(n, r) == bond[n][r].status # "none"
\* retry_revocation over the direct link; heard: the other side got it, ok: its
\* signed receipt came back.
NoticeSent(n, r, heard, ok) ==
    /\ bond[n][r].notice = "pending"
    /\ ok => heard
    /\ heard => Knows(Other(n), r)
    /\ bond' = [bond EXCEPT ![n][r].notice = IF ok THEN "delivered" ELSE @,
                            ![Other(n)][r].status = IF heard THEN "revoked" ELSE @]
    /\ UNCHANGED <<revokeVars, mail>>
\* ... and through the mailbox, once.
NoticeMailed(n, r) ==
    /\ bond[n][r].notice = "pending" /\ ~ bond[n][r].mailed
    /\ bond' = [bond EXCEPT ![n][r].mailed = TRUE]
    /\ mail' = mail \cup {Notice(n, r)}
    /\ UNCHANGED revokeVars
ReceiveRevoke(e) ==
    /\ e \in mail /\ e.kind = "revoke" /\ Knows(e.to, e.id)
    /\ bond' = [bond EXCEPT ![e.to][e.id].status = "revoked"]
    /\ mail' = (mail \ {e}) \cup {Receipt(Other(e.to), e)}
    /\ UNCHANGED revokeVars
ReceiveNoticeReceipt(e) ==
    /\ e \in mail /\ e.kind = "receipt" /\ e.of.kind = "revoke"
    /\ mail' = mail \ {e}
    /\ bond' = IF bond[e.to][e.of.id].notice = "pending"
               THEN [bond EXCEPT ![e.to][e.of.id].notice = "delivered"] ELSE bond
    /\ UNCHANGED revokeVars

\* The mailbox drops what expired, and what its handler refused too often.
MailDropped(e) ==
    /\ e \in mail /\ mail' = mail \ {e}
    /\ UNCHANGED <<revokeVars, bond>>

----------------------------------------------------------------------------
(* Messages.                                                                     *)

msgVars == <<invite, bond, call, late>>
Waiting == {m \in Messages : msg[m].state = "queued"}
Operation(m) == [kind |-> "message", to |-> "guest", msg |-> m]

\* _send_message: the row and its wire are stored before anything is sent.
Send(m) ==
    /\ msg[m].state = "none" /\ Active("host") # {} /\ Cardinality(Waiting) < MaxQueued
    /\ msg' = [msg EXCEPT ![m] = [state |-> "queued", id |-> First(Active("host"))]]
    /\ UNCHANGED <<msgVars, attempt, copies, mail>>

\* _attempt_delivery under the stripe's lock, with the relationship of now; an
\* explicit retry may use the mailbox again.
Attempt(m, explicit) ==
    /\ attempt[m] = NoAttempt /\ Active("host") # {}
    /\ msg[m].state \in {"queued", "mailbox"} \cup (IF explicit THEN {"failed"} ELSE {})
    /\ attempt' = [attempt EXCEPT ![m] =
           [stage |-> "direct", by |-> First(Active("host")),
            state |-> IF explicit THEN "queued" ELSE msg[m].state]]
    /\ UNCHANGED <<msgVars, msg, copies, mail>>

\* _receive_message: stored unless the history has it; both its own relationship
\* and the one that signed the request must be active.
Stored(m) == [copies EXCEPT ![m] = IF @ = 0 THEN 1 ELSE @]
Admits(m, by) == by \in Active("guest") /\ msg[m].id \in Active("guest")
Settled(m, state) == [attempt EXCEPT ![m].stage = "commit", ![m].state = state]
DirectArrives(m, ok) ==
    /\ attempt[m].stage = "direct" /\ m \notin late
    /\ Admits(m, attempt[m].by)
    /\ copies' = Stored(m)
    /\ attempt' = IF ok /\ attempt[m].by = msg[m].id THEN Settled(m, "delivered")
                  ELSE [attempt EXCEPT ![m].stage = "fallback"]
    /\ UNCHANGED <<msgVars, msg, mail>>
DirectFails(m) ==
    /\ attempt[m].stage = "direct"
    /\ attempt' = IF m \in late THEN Settled(m, "expired") ELSE [attempt EXCEPT ![m].stage = "fallback"]
    /\ UNCHANGED <<msgVars, msg, copies, mail>>
\* _deliver_message's fallback: a mailed message stays with the mailbox; a refused
\* one waits, fails or has expired.
Fallback(m, state) ==
    /\ attempt[m].stage = "fallback"
    /\ attempt[m].state = "mailbox" => state = "mailbox"
    /\ mail' = IF state = "mailbox" /\ attempt[m].state # "mailbox" THEN mail \cup {Operation(m)} ELSE mail
    /\ attempt' = Settled(m, state)
    /\ UNCHANGED <<msgVars, msg, copies>>

\* _commit_delivery: a receipt that was faster than the attempt is kept.
RegressesNever(m) == FALSE      \* mutant: the attempt's own row is appended
Regresses(m) == msg[m].state = "delivered" /\ attempt[m].state # "delivered"
Commit(m) ==
    /\ attempt[m].stage = "commit"
    /\ msg' = IF Regresses(m) THEN msg ELSE [msg EXCEPT ![m].state = attempt[m].state]
    /\ attempt' = [attempt EXCEPT ![m] = NoAttempt]
    /\ UNCHANGED <<msgVars, copies, mail>>

\* The mailbox's operation and receipt handlers.
ReceiveMessage(e) ==
    /\ e \in mail /\ e.kind = "message" /\ Admits(e.msg, msg[e.msg].id)
    /\ copies' = Stored(e.msg)
    /\ mail' = (mail \ {e}) \cup {Receipt("host", e)}
    /\ UNCHANGED <<msgVars, msg, attempt>>
ReceiveReceipt(e) ==
    /\ e \in mail /\ e.kind = "receipt" /\ e.of.kind = "message"
    /\ msg' = [msg EXCEPT ![e.of.msg].state = "delivered"]
    /\ mail' = mail \ {e}
    /\ UNCHANGED <<msgVars, attempt, copies>>

----------------------------------------------------------------------------
Pair ==
    \/ \E i \in Invites : CreateInvite(i) \/ CancelInvite(i) \/ \E k \in Calls : Join(k, i)
    \/ \E x \in Invites \cup Messages : Expires(x)
    \/ \E k \in Calls : JoinFails(k) \/ PutRelationship(k) \/ \E r \in Ids : Accept(k, r)
Part ==
    \/ \E n \in Nodes, r \in Ids : Revoke(n, r) \/ NoticeMailed(n, r) \/ \E h, o \in BOOLEAN : NoticeSent(n, r, h, o)
    \/ \E e \in mail : ReceiveRevoke(e) \/ ReceiveNoticeReceipt(e) \/ MailDropped(e)
Talk ==
    \/ \E m \in Messages :
         \/ Send(m) \/ DirectFails(m) \/ Commit(m)
         \/ \E b \in BOOLEAN : Attempt(m, b) \/ DirectArrives(m, b)
         \/ \E s \in {"mailbox", "queued", "failed", "expired"} : Fallback(m, s)
    \/ \E e \in mail : ReceiveMessage(e) \/ ReceiveReceipt(e)
FriendsNext == Pair \/ Part \/ Talk

----------------------------------------------------------------------------
(* One invitation makes one relationship, also when its answer was lost and the    *)
(* guest asked again, and the guest records no other than the host's.              *)
OneBondPerInvite ==
    /\ \A r, s \in Ids : r # s /\ Knows("host", r) /\ Knows("host", s) =>
           bond["host"][r].invite # bond["host"][s].invite
    /\ \A r \in Ids : Knows("guest", r) => bond["guest"][r].invite = bond["host"][r].invite

(* A removal that counts as delivered has ended the other side's access for good.  *)
RemovalHolds ==
    \A n \in Nodes, r \in Ids : bond[n][r].notice = "delivered" => bond[Other(n)][r].status = "revoked"

(* A message shown as delivered is in the friend's history, which has it once,     *)
(* however often it was sent, mailed and received.                                 *)
DeliveredIsStored ==
    \A m \in Messages : copies[m] <= 1 /\ (msg[m].state = "delivered" => copies[m] = 1)

(* ... and stays delivered: no slower attempt takes the receipt back; and a removed *)
(* relationship stays removed.                                                     *)
NothingReturns ==
    /\ \A m \in Messages : msg[m].state = "delivered" => msg'[m].state = "delivered"
    /\ \A n \in Nodes, r \in Ids : bond[n][r].status = "revoked" => bond'[n][r].status = "revoked"

\* What holds of relationships and messages in every state (friends/store.py).
FriendsInv == OneBondPerInvite /\ RemovalHolds /\ DeliveredIsStored

----------------------------------------------------------------------------
(* Cards of shared files.                                                          *)

cardVars == <<shared, intact, card, legacy, deleted, pending, review, eraser, copy, generation, removal,
              removedAt, fetch, trouble>>

NoCopy == [blob |-> "none", meta |-> FALSE, began |-> 0]
NoFetch == [stage |-> "idle", card |-> NoToken, began |-> 0, repair |-> FALSE]
Known == {c \in Cards : card[c] # "none"}

\* content_cards: the rows, and what the old file still lists.
Listed == Known \cup (legacy \ deleted)

CardsInit ==
    /\ shared = [c \in Cards |-> "none"] /\ intact = Cards
    /\ card = [c \in Cards |-> "none"] /\ legacy \in SUBSET Cards /\ deleted = {}
    /\ pending = NoToken /\ review = NoToken /\ eraser = "idle"
    /\ copy = [c \in Cards |-> NoCopy] /\ generation = 0 /\ removal = {}
    /\ removedAt = [c \in Cards |-> 0]
    /\ fetch = [f \in Fetches |-> NoFetch] /\ trouble = 0

----------------------------------------------------------------------------
(* Card rows.                                                                    *)

sender == <<shared, intact>>
eraseVars == <<legacy, deleted, pending, review, eraser>>
copyVars == <<copy, generation, removal, removedAt>>

\* FriendContent.prepare: the friend freezes bytes it has as a managed snapshot.
Prepare(c) ==
    /\ shared[c] = "none" /\ shared' = [shared EXCEPT ![c] = "prepared"]
    /\ UNCHANGED <<intact, card, eraseVars, copyVars, fetch, trouble>>
\* send_content_card: the row is stored before anything is sent; a second request
\* with its id is a retry.
SendCard(c) ==
    /\ shared[c] = "prepared" /\ shared' = [shared EXCEPT ![c] = "queued"]
    /\ UNCHANGED <<intact, card, eraseVars, copyVars, fetch, trouble>>
SnapshotGone(c) ==
    /\ c \in intact /\ shared[c] # "none" /\ intact' = intact \ {c}
    /\ UNCHANGED <<shared, card, eraseVars, copyVars, fetch, trouble>>

\* receive_content_card, put_card: a duplicate changes nothing, an erased card is
\* acknowledged and not restored.
Barred(c) == c \in deleted
ReceiveCard(c, ok) ==
    /\ shared[c] \in {"queued", "delivered"}
    /\ card[c] # "none" \/ Barred(c) \/ Cardinality(Known) < Capacity
    /\ card' = IF card[c] # "none" \/ Barred(c) THEN card ELSE [card EXCEPT ![c] = "available"]
    /\ shared' = IF ok THEN [shared EXCEPT ![c] = "delivered"] ELSE shared
    /\ UNCHANGED <<intact, eraseVars, copyVars, fetch, trouble>>

\* CardCleanup.preview: what would be erased now, or what is left of a review.
Plan == [ids |-> IF pending = NoToken THEN Known \cup legacy ELSE pending.ids,
         files |-> legacy \cap (IF pending = NoToken THEN Known \cup legacy ELSE pending.ids),
         source |-> IF pending = NoToken THEN card ELSE <<>>, again |-> pending # NoToken]
Preview ==
    /\ review' = Plan
    /\ UNCHANGED <<sender, card, legacy, deleted, pending, eraser, copyVars, fetch, trouble>>

\* begin: the rows go and the barriers stand in one write; a review of unfinished
\* files never takes new cards.
Begin ==
    /\ eraser = "idle" /\ review # NoToken
    /\ \/ pending # NoToken /\ pending.token = review
       \/ review = Plan
    /\ IF pending # NoToken /\ pending.token = review
       THEN UNCHANGED <<card, deleted, pending>>
       ELSE /\ card' = IF pending = NoToken THEN [c \in Cards |-> IF c \in review.ids THEN "none" ELSE card[c]] ELSE card
            /\ deleted' = IF pending = NoToken THEN deleted \cup review.ids ELSE deleted
            /\ pending' = [token |-> review, ids |-> review.ids, files |-> review.files]
    /\ eraser' = "files"
    /\ UNCHANGED <<sender, legacy, review, copyVars, fetch, trouble>>
\* The files are rewritten; one that changed since its review needs a new one.
RewriteFiles ==
    /\ eraser = "files" /\ legacy # legacy \ pending.ids
    /\ IF legacy \cap pending.ids = pending.files
       THEN legacy' = legacy \ pending.ids /\ UNCHANGED eraser
       ELSE eraser' = "idle" /\ UNCHANGED legacy
    /\ UNCHANGED <<sender, card, deleted, pending, review, copyVars, fetch, trouble>>
FilesErased == legacy \cap pending.ids = {}
Erased ==
    /\ eraser = "files" /\ FilesErased
    /\ pending' = NoToken /\ eraser' = "idle"
    /\ UNCHANGED <<sender, card, legacy, deleted, review, copyVars, fetch, trouble>>

----------------------------------------------------------------------------
(* Fetching a card's document into a managed copy.                               *)

Readable(c) == copy[c].meta /\ copy[c].blob = "good"
At(f, stage) == fetch[f].stage = stage
Goto(f, stage) == fetch' = [fetch EXCEPT ![f].stage = stage]
Done(f) == fetch' = [fetch EXCEPT ![f] = NoFetch]

\* A fetched card is checked, not fetched; a bad copy makes it unavailable.
Verify(c) ==
    /\ card[c] = "fetched" /\ ~ (Readable(c) /\ c \notin removal)
    /\ card' = [card EXCEPT ![c] = "unavailable"]
    /\ UNCHANGED <<sender, eraseVars, copyVars, fetch, trouble>>
\* The generation is read before the friend is asked.
FetchCard(f, c, repair) ==
    /\ At(f, "idle") /\ card[c] # "none" /\ (card[c] = "fetched" => repair)
    /\ fetch' = [fetch EXCEPT ![f] = [stage |-> "asked", card |-> c, began |-> generation, repair |-> repair]]
    /\ UNCHANGED <<sender, card, eraseVars, copyVars, trouble>>
\* serve_content_card gives the bytes of the card's hash, or nothing.
Answer(f, ok) ==
    /\ At(f, "asked") /\ (ok => fetch[f].card \in intact)
    /\ IF ok THEN Goto(f, "import") ELSE Done(f)
    /\ UNCHANGED <<sender, card, eraseVars, copyVars, trouble>>

\* LibraryImportStore.save, under the imports lock: refused after a cleanup; a good
\* copy is returned; else the blob is written, and the metadata last.
CancelledNever(f) == FALSE      \* mutant: the generation is not compared
Cancelled(f) == fetch[f].began # generation
Writing == \E f \in Fetches : At(f, "blob")
SaveBegins(f) ==
    /\ At(f, "import") /\ ~ Writing
    /\ LET c == fetch[f].card
       IN  IF Cancelled(f) \/ c \in removal \/ (copy[c].meta /\ ~ Readable(c) /\ ~ fetch[f].repair)
           THEN Done(f) /\ UNCHANGED copy
           ELSE IF Readable(c) THEN Goto(f, "patch") /\ UNCHANGED copy
           ELSE Goto(f, "blob") /\ copy' = [copy EXCEPT ![c].blob = "good"]
    /\ UNCHANGED <<sender, card, eraseVars, generation, removal, removedAt, trouble>>
SaveEnds(f) ==
    /\ At(f, "blob")
    /\ copy' = [copy EXCEPT ![fetch[f].card].meta = TRUE, ![fetch[f].card].began = fetch[f].began]
    /\ Goto(f, "patch")
    /\ UNCHANGED <<sender, card, eraseVars, generation, removal, removedAt, trouble>>
\* patch_card: a card erased meanwhile stays erased.
PatchCard(f) ==
    /\ At(f, "patch")
    /\ card' = IF card[fetch[f].card] = "none" THEN card ELSE [card EXCEPT ![fetch[f].card] = "fetched"]
    /\ Done(f)
    /\ UNCHANGED <<sender, eraseVars, copyVars, trouble>>

----------------------------------------------------------------------------
(* Removing managed copies.                                                      *)

BeginRemoval(S) ==
    /\ removal = {} /\ ~ Writing /\ generation < MaxGeneration /\ S # {}
    /\ generation' = generation + 1 /\ removal' = S
    /\ removedAt' = [c \in Cards |-> IF c \in S THEN generation' ELSE removedAt[c]]
    /\ UNCHANGED <<sender, card, eraseVars, copy, fetch, trouble>>
Unlink ==
    /\ removal # {} /\ ~ Writing
    /\ copy' = [c \in Cards |-> IF c \in removal THEN NoCopy ELSE copy[c]]
    /\ removal' = {}
    /\ UNCHANGED <<sender, card, eraseVars, generation, removedAt, fetch, trouble>>

----------------------------------------------------------------------------
\* A stop of the process: the requests are gone, what was written stays.
Stop ==
    /\ trouble < MaxTrouble /\ trouble' = trouble + 1
    /\ eraser' = "idle" /\ fetch' = [f \in Fetches |-> NoFetch]
    /\ UNCHANGED <<sender, card, legacy, deleted, pending, review, copyVars>>
Damage(c) ==
    /\ trouble < MaxTrouble /\ trouble' = trouble + 1
    /\ copy[c].blob = "good" /\ ~ Writing /\ copy' = [copy EXCEPT ![c].blob = "bad"]
    /\ UNCHANGED <<sender, card, eraseVars, generation, removal, removedAt, fetch>>

CardsNext ==
    \/ Preview \/ Begin \/ RewriteFiles \/ Erased \/ Unlink \/ Stop
    \/ \E c \in Cards :
         \/ Prepare(c) \/ SendCard(c) \/ SnapshotGone(c) \/ Verify(c) \/ Damage(c)
         \/ \E ok \in BOOLEAN : ReceiveCard(c, ok)
    \/ \E S \in SUBSET Cards : BeginRemoval(S)
    \/ \E f \in Fetches :
         \/ SaveBegins(f) \/ SaveEnds(f) \/ PatchCard(f)
         \/ \E b \in BOOLEAN : Answer(f, b) \/ \E c \in Cards : FetchCard(f, c, b)

----------------------------------------------------------------------------
(* A card the user erased is never listed again, whichever duplicate arrives and   *)
(* whichever fetch ends late; when no erasure is unfinished, the old files do not   *)
(* name it either.  A card shown as delivered was stored, and is stored or erased.  *)
ErasedStaysErased ==
    /\ Listed \cap deleted = {}
    /\ pending = NoToken => legacy \cap deleted = {}
    /\ \A c \in Cards : shared[c] = "delivered" => c \in Known \cup deleted

(* Removing a copy removes it: no fetch that began before the removal brings its    *)
(* bytes back, and a file without metadata is not a copy.                           *)
RemovedStaysRemoved ==
    \A c \in Cards \ removal :
        copy[c].meta => copy[c].blob # "none" /\ copy[c].began >= removedAt[c]

\* Nothing erased or removed comes back (card_cleanup.py, library_cleanup.py).
CardsSound == ErasedStaysErased /\ RemovedStaysRemoved
==============================================================================
