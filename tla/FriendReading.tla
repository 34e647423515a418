----------------------------- MODULE FriendReading -----------------------------
(* What two friends read together, in two halves that share no state.              *)
(*                                                                                 *)
(* A reading list two friends share (shared_reading/service.py): the node that     *)
(* created it applies every edit; the other member queues its edits and sends the  *)
(* first one until a receipt answers it.  Several calls sync the list at once, and *)
(* each may lose its request or its answer.                                        *)
(*                                                                                 *)
(* A publication in a friend's feed (friend_feed/service.py, store.py, cleanup.py):*)
(* the publisher drafts, publishes to an audience, stops and erases; a subscriber  *)
(* refreshes its copy of the catalogue and fetches the body.  Requests of the user *)
(* interface repeat after a lost answer; refreshes overlap; the friendship may end.*)
EXTENDS Naturals, Sequences, SequencesExt, FiniteSets

CONSTANTS Items, Calls, NoList,
          MaxItems,     \* 256 items
          MaxEdits,     \* bound: edits of each member
          MaxPending,   \* 128 queued edits
          Requests, Refreshes, NoPage, NoTicket,
          MaxRevision   \* bound: changes of the publication and of the subscription

VARIABLES owner,      \* the owner's list
          member,     \* the member's copy and its queue
          call,       \* the member's requests
          friendly,   \* the friendship is active
          issued,     \* history: the member's edits
          applied     \* history: those the owner applied

VARIABLES pub,        \* the publisher's row
          asked,      \* asked[q]: the change a request asks for and the revision it expects
          made,       \* history: how often each request changed the row
          sub,        \* the subscriber's row
          inbox,      \* its copy of the catalogue
          refresh,    \* refresh[k]: a refresh and its ticket
          fetch,      \* the publisher's work on a fetch of the body
          friends     \* the friendship is active

sharedVars == <<owner, member, call, friendly, issued, applied>>
feedVars == <<pub, asked, made, sub, inbox, refresh, fetch, friends>>

NoReceipt == [sequence |-> 0, operation |-> [action |-> "none", item |-> "none"]]
NoCall == [stage |-> "idle", operation |-> NoReceipt, answer |-> NoList]
Edits == [action : {"add", "read", "remove"}, item : Items] \cup {[action |-> "close", item |-> "none"]}

ListInit ==
    /\ owner = [status |-> "invited", revision |-> 1, items |-> [i \in Items |-> "none"],
                ours |-> 0, receipt |-> NoReceipt]
    /\ member = NoList /\ call = [k \in Calls |-> NoCall] /\ friendly = TRUE
    /\ issued = <<>> /\ applied = <<>>

Room == Cardinality({i \in Items : owner.items[i] # "none"}) < MaxItems

\* apply: what an edit does; a removed item stays, so that no later edit revives it.
Valid(list, e) ==
    /\ list.status = "active"
    /\ e.action = "add" => list.items[e.item] = "none" /\ Room
    /\ e.action \in {"read", "remove"} => list.items[e.item] # "none"
After(list, e) ==
    CASE e.action = "add" -> [list EXCEPT !.items[e.item] = "added", !.revision = @ + 1]
      [] e.action = "read" -> [list EXCEPT !.items[e.item] = IF @ = "removed" THEN @ ELSE "read", !.revision = @ + 1]
      [] e.action = "remove" -> [list EXCEPT !.items[e.item] = "removed", !.revision = @ + 1]
      [] e.action = "close" -> [list EXCEPT !.status = "closed", !.revision = @ + 1]

\* edit at the owner.
OwnerEdits(e) ==
    /\ friendly /\ owner.ours < MaxEdits /\ Valid(owner, e)
    /\ owner' = [After(owner, e) EXCEPT !.ours = @ + 1]
    /\ UNCHANGED <<member, call, friendly, issued, applied>>

\* edit at the member: a numbered operation at the end of the queue.
MemberEdits(e) ==
    /\ friendly /\ member # NoList /\ Len(issued) < MaxEdits
    /\ member.list.status = "active" /\ Len(member.pending) < MaxPending
    /\ \A i \in 1..Len(member.pending) : member.pending[i].operation.action # "close"
    /\ LET op == [sequence |-> member.list.receipt.sequence + Len(member.pending) + 1, operation |-> e]
       IN  member' = [member EXCEPT !.pending = Append(@, op)] /\ issued' = Append(issued, op)
    /\ UNCHANGED <<owner, call, friendly, applied>>

----------------------------------------------------------------------------
(* The member's calls: accept, and sync with the first queued edit, or without.    *)

Ask(k) ==
    /\ call[k] = NoCall /\ friendly
    /\ call' = [call EXCEPT ![k] = [NoCall EXCEPT
           !.stage = IF member = NoList THEN "accept" ELSE "sync",
           !.operation = IF member # NoList /\ member.pending # <<>> THEN Head(member.pending) ELSE NoReceipt]]
    /\ UNCHANGED <<owner, member, friendly, issued, applied>>

\* respond: one transaction of the owner's store.  A repeated edit is answered
\* with the list as it is; an edit out of order is refused.
Answered(k, list) == call' = [call EXCEPT ![k].stage = "answered", ![k].answer = list]
NextOrAgain(op) == op.sequence \in {owner.receipt.sequence, owner.receipt.sequence + 1}   \* mutant
NextInLine(op) == op.sequence = owner.receipt.sequence + 1
RespondAccept(k) ==
    /\ call[k].stage = "accept" /\ friendly /\ owner.status # "closed"
    /\ owner' = IF owner.status = "invited" THEN [owner EXCEPT !.status = "active", !.revision = @ + 1] ELSE owner
    /\ Answered(k, owner')
    /\ UNCHANGED <<member, friendly, issued, applied>>
RespondSnapshot(k) ==
    /\ call[k].stage = "sync" /\ friendly
    /\ \/ call[k].operation = NoReceipt
       \/ call[k].operation = owner.receipt
       \/ owner.status = "closed" /\ NextInLine(call[k].operation)
    /\ Answered(k, owner)
    /\ UNCHANGED <<owner, member, friendly, issued, applied>>
RespondEdit(k) ==
    /\ call[k].stage = "sync" /\ friendly /\ call[k].operation # NoReceipt
    /\ NextInLine(call[k].operation)
    /\ Valid(owner, call[k].operation.operation)
    /\ owner' = [After(owner, call[k].operation.operation) EXCEPT !.receipt = call[k].operation]
    /\ applied' = Append(applied, call[k].operation)
    /\ Answered(k, owner')
    /\ UNCHANGED <<member, friendly, issued>>

\* The request or its answer is lost, or the owner refuses.
CallFails(k) ==
    /\ call[k] # NoCall /\ call' = [call EXCEPT ![k] = NoCall]
    /\ UNCHANGED <<owner, member, friendly, issued, applied>>

\* receive: an older list is ignored; a receipt confirms every edit up to its own,
\* and a closed list keeps the rest without sending it.
Older(list) == member # NoList /\ member.list.revision > list.revision
Unconfirmed(list) ==
    IF member = NoList THEN <<>> ELSE SelectSeq(member.pending, LAMBDA op : op.sequence > list.receipt.sequence)
Receive(k) ==
    /\ call[k].stage = "answered" /\ friendly
    /\ LET list == call[k].answer
           rest == Unconfirmed(list)
           kept == IF member = NoList THEN <<>> ELSE member.cancelled
       IN  member' = IF Older(list) THEN member
                     ELSE IF list.status = "closed"
                     THEN [list |-> list, pending |-> <<>>, cancelled |-> kept \o rest]
                     ELSE [list |-> list, pending |-> rest, cancelled |-> kept]
    /\ call' = [call EXCEPT ![k] = NoCall]
    /\ UNCHANGED <<owner, friendly, issued, applied>>

ListUnfriend ==
    /\ friendly /\ friendly' = FALSE
    /\ UNCHANGED <<owner, member, call, issued, applied>>

ListNext ==
    /\ UNCHANGED feedVars
    /\ \/ ListUnfriend
       \/ \E e \in Edits : OwnerEdits(e) \/ MemberEdits(e)
       \/ \E k \in Calls :
            Ask(k) \/ RespondAccept(k) \/ RespondSnapshot(k) \/ RespondEdit(k) \/ CallFails(k) \/ Receive(k)

----------------------------------------------------------------------------
(* The owner applies the member's edits once each and in the order they were made, *)
(* however often they were sent.                                                   *)
AppliedInOrder == IsPrefix(applied, issued)

(* No edit of the member is forgotten: each was applied, waits in its queue, or is  *)
(* kept as cancelled when the list closed; and what was confirmed was applied.      *)
NothingForgotten ==
    member # NoList =>
        LET n == member.list.receipt.sequence
        IN  /\ n <= Len(applied)
            /\ issued = SubSeq(issued, 1, n) \o member.cancelled \o member.pending

(* A removed item stays removed and a closed list closed, and the member's copy is  *)
(* never newer than the list.                                                      *)
OnlyForward ==
    /\ \A i \in Items : owner.items[i] = "removed" => owner'.items[i] = "removed"
    /\ owner.status = "closed" => owner' = owner
    /\ member # NoList => member'.list.revision >= member.list.revision

\* What holds of the owner's list and a member's copy in every state (apply, receive).
SharedInv == AppliedInOrder /\ NothingForgotten /\ (member # NoList => member.list.revision <= owner.revision)

----------------------------------------------------------------------------
(* The feed.                                                                     *)

NoRow == [revision |-> 0, draft |-> FALSE, live |-> 0, audience |-> FALSE, stopped |-> FALSE,
          operation |-> "none", erased |-> FALSE]
NoRefresh == [stage |-> "idle", ticket |-> NoTicket, page |-> NoPage]
NoFetch == [stage |-> "idle", revision |-> 0]
Changes == {"draft", "publish", "hide", "stop"}      \* hide: publish to others only

FeedInit ==
    /\ pub = NoRow /\ asked = [q \in Requests |-> NoTicket] /\ made = [q \in Requests |-> 0]
    /\ sub = [enabled |-> FALSE, revision |-> 0, sequence |-> 0] /\ inbox = NoPage
    /\ refresh = [k \in Refreshes |-> NoRefresh] /\ fetch = NoFetch /\ friends = TRUE

Permitted == friends /\ pub.live > 0 /\ ~ pub.stopped /\ pub.audience

----------------------------------------------------------------------------
(* The publisher.                                                                *)

readerVars == <<sub, inbox, refresh, fetch, friends>>

\* save_draft, publish, stop.
Applicable(c) == (c \in {"publish", "hide"} => pub.draft) /\ (c = "stop" => pub.live > 0)
Applied(c) ==
    CASE c = "draft" -> [pub EXCEPT !.revision = @ + 1, !.draft = TRUE]
      [] c \in {"publish", "hide"} -> [pub EXCEPT !.revision = @ + 1, !.live = pub.revision + 1,
                                                  !.audience = c = "publish", !.stopped = FALSE]
      [] c = "stop" -> [pub EXCEPT !.revision = @ + 1, !.stopped = TRUE]
Submit(q, c) ==
    /\ asked[q] = NoTicket /\ asked' = [asked EXCEPT ![q] = [change |-> c, expected |-> pub.revision]]
    /\ UNCHANGED <<pub, made, readerVars>>
\* _change: a repeated operation returns the row it made; one that expected an
\* older revision, or meets an erased publication, is refused.
Change(q) == ~ pub.erased /\ pub.operation # q /\ pub.revision = asked[q].expected
Handle(q) ==
    /\ asked[q] # NoTicket /\ Change(q) /\ Applicable(asked[q].change)
    /\ pub.revision < MaxRevision
    /\ pub' = [Applied(asked[q].change) EXCEPT !.operation = q]
    /\ made' = [made EXCEPT ![q] = @ + 1]
    /\ UNCHANGED <<asked, readerVars>>
\* FeedCleanup.begin on the publisher's own node.
Erase ==
    /\ pub.revision > 0 /\ ~ pub.erased
    /\ pub' = [NoRow EXCEPT !.revision = pub.revision + 1, !.erased = TRUE]
    /\ UNCHANGED <<asked, made, readerVars>>
FeedUnfriend ==
    /\ friends /\ friends' = FALSE
    /\ UNCHANGED <<pub, asked, made, sub, inbox, refresh, fetch>>

----------------------------------------------------------------------------
(* The subscriber.                                                               *)

ownerVars == <<pub, asked, made, friends>>

Subscribe(on) ==
    /\ sub.enabled # on /\ sub.revision < MaxRevision /\ (on => friends)
    /\ sub' = [sub EXCEPT !.enabled = on, !.revision = @ + 1]
    /\ inbox' = IF on THEN inbox ELSE NoPage
    /\ UNCHANGED <<ownerVars, refresh, fetch>>
\* FeedCleanup.begin at the subscriber: only identity and revision remain.
Forget ==
    /\ sub.revision > 0 /\ sub.revision < MaxRevision
    /\ sub' = [enabled |-> FALSE, revision |-> sub.revision + 1, sequence |-> 0]
    /\ inbox' = NoPage
    /\ UNCHANGED <<ownerVars, refresh, fetch>>

\* refresh: a ticket first, then the friend's page, and only the newest ticket
\* replaces the copy.
BeginRefresh(k) ==
    /\ refresh[k].stage = "idle" /\ sub.enabled /\ friends /\ sub.sequence < MaxRevision
    /\ sub' = [sub EXCEPT !.sequence = @ + 1]
    /\ refresh' = [refresh EXCEPT ![k] = [NoRefresh EXCEPT !.stage = "asked",
                       !.ticket = [revision |-> sub.revision, sequence |-> sub.sequence + 1]]]
    /\ UNCHANGED <<ownerVars, inbox, fetch>>
Page(k) ==
    /\ refresh[k].stage = "asked" /\ friends
    /\ refresh' = [refresh EXCEPT ![k].stage = "page",
                       ![k].page = [at |-> pub.revision, live |-> IF Permitted THEN pub.live ELSE 0]]
    /\ UNCHANGED <<ownerVars, sub, inbox, fetch>>
AnyTicket(k) == sub.enabled     \* mutant: an older refresh may still finish
CurrentTicket(k) ==
    sub.enabled /\ refresh[k].ticket = [revision |-> sub.revision, sequence |-> sub.sequence]
FinishRefresh(k) ==
    /\ refresh[k].stage = "page"
    /\ inbox' = IF CurrentTicket(k) /\ friends THEN refresh[k].page ELSE inbox
    /\ refresh' = [refresh EXCEPT ![k] = NoRefresh]
    /\ UNCHANGED <<ownerVars, sub, fetch>>
RefreshFails(k) ==
    /\ refresh[k].stage # "idle" /\ refresh' = [refresh EXCEPT ![k] = NoRefresh]
    /\ UNCHANGED <<ownerVars, sub, inbox, fetch>>

\* timeline: what the subscriber sees.
Timeline == IF sub.enabled /\ friends /\ inbox # NoPage THEN inbox.live ELSE 0

\* fetch and respond: access is checked before the body is read and after it.
FetchBody ==
    /\ fetch.stage = "idle" /\ Timeline > 0 /\ Permitted /\ pub.live = Timeline
    /\ fetch' = [stage |-> "body", revision |-> pub.live]
    /\ UNCHANGED <<ownerVars, sub, inbox, refresh>>
ServeBody ==
    /\ fetch.stage = "body"
    /\ fetch' = IF Permitted /\ pub.live = fetch.revision THEN [fetch EXCEPT !.stage = "served"] ELSE NoFetch
    /\ UNCHANGED <<ownerVars, sub, inbox, refresh>>
ImportBody ==
    /\ fetch.stage = "served" /\ fetch' = NoFetch
    /\ UNCHANGED <<ownerVars, sub, inbox, refresh>>

FeedNext ==
    /\ UNCHANGED sharedVars
    /\ \/ Erase \/ FeedUnfriend \/ Forget \/ FetchBody \/ ServeBody \/ ImportBody
       \/ \E q \in Requests : Handle(q) \/ \E c \in Changes : Submit(q, c)
       \/ \E on \in BOOLEAN : Subscribe(on)
       \/ \E k \in Refreshes : BeginRefresh(k) \/ Page(k) \/ FinishRefresh(k) \/ RefreshFails(k)

----------------------------------------------------------------------------
(* A request changes the publication at most once, however often it is repeated,   *)
(* and an unsubscribed friend keeps no copy of the catalogue.                      *)
OncePerRequest == \A q \in Requests : made[q] <= 1

\* A subscription that was switched off keeps no copy (subscribe, refresh, cleanup).
NoCopyLeft == ~ sub.enabled => inbox = NoPage

(* The subscriber's copy follows the publisher's and never goes back to an older    *)
(* state, whichever refresh answers last; erased content and an ended friendship    *)
(* do not return; and no body leaves after access to it ended.                      *)
FeedForward ==
    /\ inbox # NoPage /\ inbox' # NoPage => inbox'.at >= inbox.at
    /\ pub.erased => pub' = pub
    /\ fetch'.stage = "served" /\ fetch.stage # "served" => Permitted

Init == ListInit /\ FeedInit
Next == ListNext \/ FeedNext
==============================================================================
