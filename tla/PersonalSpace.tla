---------------------------- MODULE PersonalSpace ----------------------------
(* Personal spaces (personal_space.py, personal_space_routes.py). One           *)
(* coordinator keeps the member list and signs numbered copies of it that are   *)
(* valid for a day; other devices send it requests over the registry or         *)
(* directly and keep the last copy they were sent. Requests are repeated until  *)
(* they are answered, answers may be lost, read late or read twice, a device    *)
(* may leave meanwhile, and the coordinator may be recovered from a backup.     *)
(* Signatures, encryption and device names are left out. Time passes in steps   *)
(* of half a day.                                                               *)
EXTENDS Naturals, FiniteSets

CONSTANTS
    Devices,       \* devices other than the coordinator
    Coordinator,
    Providers,     \* the nodes that have models to share
    Before,        \* the roles of the devices that joined earlier, "none" for the others
    Tokens,        \* invitation secrets that can be drawn
    Lease,         \* how long a signed copy is valid (LEASE_SECONDS)
    JoinLife,      \* how long a join request is worth answering
    ActLife,       \* and any other request
    InviteLife,    \* how long an invitation can be used
    ReplyLife,     \* how long the coordinator keeps an answer
    MaxMembers,    \* the device limit of a space
    MaxInvites,    \* the limit of invitations kept
    NoRecord, NoRequest, NoReply, NoToken,
    MaxTime, MaxRequests, MaxRevision    \* bounds of the model

VARIABLES
    clock,
    space,         \* the coordinator's signed snapshot, with its revision and time of issue
    invites,       \* data["invites"]: issuer, expiry, used_by, revoked
    replies,       \* data["replies"]: the answers kept for repeated requests
    backup,        \* the snapshot inside the downloaded recovery file
    held,          \* the snapshot each device keeps
    waiting,       \* data["pending"]: the request each device waits for
    reading,       \* the answer a device's tick has fetched and not yet applied
    policy,        \* data["ai_access"]
    posted, results,    \* the registry: submitted requests and published answers
    sent,          \* requests made so far
    issued,        \* tokens drawn so far
    activeAt,      \* when the coordinator last counted the device as active
    joined,        \* which request used which token
    verdict,       \* what the coordinator decided on each request, and what was told
    lost           \* the requests up to this one were made before a recovery

spaceVars == <<clock, space, invites, replies, backup, held, waiting, reading, policy,
               posted, results, sent, issued, activeAt, joined, verdict, lost>>

First == [rev |-> 1, at |-> 0, members |-> Before]

Init ==
    /\ clock = 0 /\ sent = 0 /\ lost = 0
    /\ space = First
    /\ invites = [t \in {} |-> {}] /\ replies = [i \in {} |-> {}]
    /\ backup = NoRecord
    /\ held = [d \in Devices |-> IF Before[d] = "none" THEN NoRecord ELSE First]
    /\ waiting = [d \in Devices |-> NoRequest]
    /\ reading = [d \in Devices |-> NoReply]
    /\ policy = [n \in Providers |-> "local"]
    /\ posted = {} /\ results = {} /\ issued = {} /\ joined = {}
    /\ activeAt = [d \in Devices |-> 0]
    /\ verdict = [i \in 1..MaxRequests |-> {}]

-----------------------------------------------------------------------------
(* The coordinator's decisions.                                               *)

Active(p, n) == n \in Devices => p.members[n] \in {"device", "manager"}
Manages(p, n) == n \in Devices => p.members[n] = "manager"
Fresh(p) == p.at + Lease > clock
Known(p) == {d \in Devices : p.members[d] # "none"}

Signed(p) == [p EXCEPT !.rev = @ + 1, !.at = clock]
With(d, role) == Signed([space EXCEPT !.members[d] = role])

\* A fault: invitations outlive the authority of their issuer.
RevokedNone(d) == invites

RevokedOf(d) == [t \in DOMAIN invites |->
    IF invites[t].issuer = d THEN [invites[t] EXCEPT !.revoked = TRUE] ELSE invites[t]]
Kept == [t \in {u \in DOMAIN invites : invites[u].expires > clock} |-> invites[t]]
Invited(t, issuer) == [u \in DOMAIN Kept \cup {t} |->
    IF u = t THEN [issuer |-> issuer, expires |-> clock + InviteLife, used |-> FALSE, revoked |-> FALSE]
    ELSE Kept[u]]

\* A fault: an invitation that was used before is accepted again.
UsableTwice(t) == t \in DOMAIN invites /\ ~invites[t].revoked /\ invites[t].expires > clock

Usable(t) == /\ t \in DOMAIN invites
             /\ ~invites[t].revoked /\ ~invites[t].used
             /\ invites[t].expires > clock

\* What _apply makes of a request: refused, or the new snapshot and invitations.
Outcome(s, i, t) == [ok |-> TRUE, space |-> s, invites |-> i, token |-> t]
Refused == [ok |-> FALSE, space |-> space, invites |-> invites, token |-> NoToken]

Join(d, t) ==
    IF /\ Usable(t)
       /\ Cardinality(Known(space)) + 1 < MaxMembers \/ d \in Known(space)
       /\ ~Active(space, d)
    THEN Outcome(With(d, "device"), [invites EXCEPT ![t].used = TRUE], NoToken)
    ELSE Refused
Sync(d, renamed) ==
    IF d \notin Known(space) THEN Refused
    ELSE IF (renamed /\ Active(space, d)) \/ clock > space.at
         THEN Outcome(Signed(space), invites, NoToken)
         ELSE Outcome(space, invites, NoToken)
Invite(n, t) ==
    IF Manages(space, n) /\ Cardinality(DOMAIN Kept) < MaxInvites
    THEN Outcome(space, Invited(t, n), t)
    ELSE Refused
CancelInvite(n, t) ==
    IF Manages(space, n) /\ t \in DOMAIN invites
    THEN Outcome(space, [invites EXCEPT ![t].revoked = TRUE], NoToken)
    ELSE Refused
Remove(n, d) ==
    IF Manages(space, n) /\ Active(space, d)
    THEN Outcome(With(d, "removed"), RevokedOf(d), NoToken)
    ELSE Refused
Role(n, d, role) ==
    IF Manages(space, n) /\ Active(space, d)
    THEN Outcome(With(d, role), IF role = "device" THEN RevokedOf(d) ELSE invites, NoToken)
    ELSE Refused

Actions == [act : {"join", "cancel"}, on : Tokens] \cup [act : {"remove", "manager", "device"}, on : Devices]
           \cup [act : {"sync"}, on : BOOLEAN] \cup {[act |-> "invite", on |-> NoToken]}
Manager == {a \in Actions : a.act \notin {"join", "sync"}}

\* _apply; an invitation draws a token that was never drawn before.
Apply(n, a, fresh) ==
    CASE a.act = "join"   -> Join(n, a.on)
      [] a.act = "sync"   -> Sync(n, a.on)
      [] a.act = "invite" -> Invite(n, fresh)
      [] a.act = "cancel" -> CancelInvite(n, a.on)
      [] a.act = "remove" -> Remove(n, a.on)
      [] OTHER            -> Role(n, a.on, a.act)
Draws(a) == IF a.act = "invite" THEN Tokens \ issued ELSE {NoToken}

Seen(p) == activeAt' = [d \in Devices |-> IF Active(p, d) THEN clock ELSE activeAt[d]]

Commit(o) ==
    /\ o.space.rev <= MaxRevision
    /\ space' = o.space /\ invites' = o.invites
    /\ issued' = issued \cup ({o.token} \ {NoToken})
    /\ Seen(o.space)

\* PersonalSpace.act on the coordinator itself.
ActLocally ==
    /\ \E a \in Manager : \E t \in Draws(a) :
        LET o == Apply(Coordinator, a, t) IN o.ok /\ Commit(o)
    /\ UNCHANGED <<clock, replies, backup, held, waiting, reading, policy, posted, results, sent, joined, verdict, lost>>

\* A fault: a repeated request is decided again.
CachedNever(i) == FALSE

\* PersonalSpace._process: a request that was answered gets the same answer, any other is decided once.
\* The answer that is given is the one now on file.
Cached(i) == i \in DOMAIN replies

Process(q) ==
    \/ /\ Cached(q.id)
       /\ UNCHANGED <<space, invites, replies, issued, activeAt, joined, verdict, lost>>
    \/ /\ ~Cached(q.id)
       /\ q.deadline > clock
       /\ \E t \in Draws(q.do) :
           LET o == Apply(q.from, q.do, t)
               reply == [id |-> q.id, ok |-> o.ok, space |-> IF o.ok THEN o.space ELSE NoRecord] IN
           /\ Commit(o)
           /\ joined' = IF q.do.act = "join" /\ o.ok THEN joined \cup {<<q.do.on, q.id>>} ELSE joined
           /\ verdict' = [verdict EXCEPT ![q.id] = @ \cup {o.ok}]
           /\ replies' = [i \in {j \in DOMAIN replies : replies[j].expires > clock} \cup {q.id} |->
                  IF i = q.id THEN [reply |-> reply, expires |-> clock + ReplyLife] ELSE replies[i]]

\* The coordinator's tick: one open request of the registry, its answer published.
Serve ==
    /\ \E q \in posted : /\ ~\E r \in results : r.id = q.id
                         /\ Process(q) /\ results' = results \cup {replies'[q.id].reply}
    /\ UNCHANGED <<clock, backup, held, waiting, reading, policy, posted, sent, lost>>

\* The coordinator's tick: a snapshot older than an hour is signed again.
Renew ==
    /\ clock > space.at
    /\ Commit(Outcome(Signed(space), invites, NoToken))
    /\ UNCHANGED <<clock, replies, backup, held, waiting, reading, policy, posted, results, sent, joined, verdict, lost>>

-----------------------------------------------------------------------------
(* A device.                                                                   *)

\* PersonalSpace._queue: one request at a time, but a request of the user replaces a waiting sync.
Queue(d, a) ==
    /\ waiting[d] # NoRequest => (a.act # "sync" /\ waiting[d].do.act = "sync")
    /\ sent < MaxRequests
    /\ sent' = sent + 1
    /\ waiting' = [waiting EXCEPT ![d] = [id |-> sent + 1, from |-> d, do |-> a,
            deadline |-> clock + IF a.act = "join" THEN JoinLife ELSE ActLife]]

Ask(d) ==
    /\ \/ /\ held[d] = NoRecord /\ waiting[d] = NoRequest
          /\ \E t \in issued : Queue(d, [act |-> "join", on |-> t])
       \/ /\ held[d] # NoRecord
          /\ Manages(held[d], d)
          /\ \E a \in Manager : (a.act = "cancel" => a.on \in issued) /\ Queue(d, a)
       \/ /\ held[d] # NoRecord /\ waiting[d] = NoRequest
          /\ \E renamed \in BOOLEAN : Queue(d, [act |-> "sync", on |-> renamed])
    /\ UNCHANGED <<clock, space, invites, replies, backup, held, reading, policy,
                   posted, results, issued, activeAt, joined, verdict, lost>>

\* tick: an expired request is dropped; one that is not is tried directly, or else over the registry.
GiveUp(d) ==
    /\ waiting[d] # NoRequest /\ waiting[d].deadline <= clock
    /\ waiting' = [waiting EXCEPT ![d] = NoRequest]
    /\ UNCHANGED <<clock, space, invites, replies, backup, held, reading, policy, posted,
                   results, sent, issued, activeAt, joined, verdict, lost>>

Live(d) == waiting[d] # NoRequest /\ waiting[d].deadline > clock /\ reading[d] = NoReply

\* _direct_exchange: the coordinator answers and the answer may be lost on its way.
DirectExchange(d) ==
    /\ Live(d)
    /\ Process(waiting[d])
    /\ \E got \in {replies'[waiting[d].id].reply, NoReply} : reading' = [reading EXCEPT ![d] = got]
    /\ UNCHANGED <<clock, backup, held, waiting, policy, posted, results, sent, lost>>

Submit(d) ==
    /\ Live(d)
    /\ posted' = posted \cup {waiting[d]}
    /\ \E got \in {r \in results : r.id = waiting[d].id} \cup {NoReply} :
        reading' = [reading EXCEPT ![d] = got]
    /\ UNCHANGED <<clock, space, invites, replies, backup, held, waiting, policy, results,
                   sent, issued, activeAt, joined, verdict, lost>>

\* _accept_snapshot: valid still, and not older than nor in conflict with the one held.
Acceptable(d, p) == Fresh(p) /\ (held[d] # NoRecord =>
    p.rev > held[d].rev \/ p = held[d])

\* tick applies the answer it fetched, unless the request was superseded meanwhile.
Collect(d) ==
    /\ reading[d] # NoReply
    /\ reading' = [reading EXCEPT ![d] = NoReply]
    /\ LET r == reading[d]
           current == waiting[d] # NoRequest /\ waiting[d].id = r.id
           taken == current /\ (r.ok => Acceptable(d, r.space)) IN
       /\ held' = IF taken /\ r.ok THEN [held EXCEPT ![d] = r.space] ELSE held
       /\ waiting' = IF taken THEN [waiting EXCEPT ![d] = NoRequest] ELSE waiting
       /\ verdict' = IF taken THEN [verdict EXCEPT ![r.id] = @ \cup {r.ok}] ELSE verdict
    /\ UNCHANGED <<clock, space, invites, replies, backup, policy, posted, results, sent,
                   issued, activeAt, joined, lost>>

Leave(d) ==
    /\ held' = [held EXCEPT ![d] = NoRecord]
    /\ waiting' = [waiting EXCEPT ![d] = NoRequest]
    /\ policy' = [n \in Providers |-> IF n = d THEN "local" ELSE policy[n]]
    /\ UNCHANGED <<clock, space, invites, replies, backup, reading, posted, results, sent,
                   issued, activeAt, joined, verdict, lost>>

Copy(n) == IF n = Coordinator THEN space ELSE held[n]

\* status()["membership"] = "active"
Member(n) == Copy(n) # NoRecord /\ Active(Copy(n), n) /\ Fresh(Copy(n))

SetPolicy(n) ==
    /\ \/ policy[n] = "space" /\ policy' = [policy EXCEPT ![n] = "local"]
       \/ policy[n] = "local" /\ Member(n) /\ policy' = [policy EXCEPT ![n] = "space"]
    /\ UNCHANGED <<clock, space, invites, replies, backup, held, waiting, reading, posted,
                   results, sent, issued, activeAt, joined, verdict, lost>>

\* A fault: the copy is used after the day it is valid for.
AllowsAiLong(n, peer) ==
    policy[n] = "space" /\ Copy(n) # NoRecord /\ Active(Copy(n), n) /\ Active(Copy(n), peer)

\* allows_ai: whether node n lets another one use its models.
AllowsAi(n, peer) ==
    /\ policy[n] = "space"
    /\ Copy(n) # NoRecord /\ Fresh(Copy(n))
    /\ Active(Copy(n), n) /\ Active(Copy(n), peer)

-----------------------------------------------------------------------------
(* Recovery of the coordinator, and time.                                      *)

\* The recovery file; bounded to one, which may grow old.
Backup ==
    /\ backup = NoRecord
    /\ backup' = space
    /\ UNCHANGED <<clock, space, invites, replies, held, waiting, reading, policy, posted,
                   results, sent, issued, activeAt, joined, verdict, lost>>

\* restore_backup: the members as of the backup, and neither invitations nor answers.
Restore ==
    /\ backup # NoRecord
    /\ space' = backup /\ Seen(backup)
    /\ invites' = [t \in {} |-> {}] /\ replies' = [i \in {} |-> {}]
    /\ policy' = [n \in Providers |-> IF n = Coordinator THEN "local" ELSE policy[n]]
    /\ lost' = sent
    /\ UNCHANGED <<clock, held, waiting, reading, posted, results, sent, issued, joined, verdict, backup>>

Wait ==
    /\ clock < MaxTime
    /\ clock' = clock + 1
    /\ activeAt' = [d \in Devices |-> IF Active(space, d) THEN clock + 1 ELSE activeAt[d]]
    /\ UNCHANGED <<space, invites, replies, backup, held, waiting, reading, policy, posted,
                   results, sent, issued, joined, verdict, lost>>

Device(d) ==
    \/ Ask(d) \/ GiveUp(d) \/ DirectExchange(d) \/ Submit(d) \/ Collect(d) \/ Leave(d)

Next ==
    \/ ActLocally \/ Serve \/ Renew \/ Backup \/ Restore \/ Wait
    \/ \E d \in Devices : Device(d)
    \/ \E n \in Providers : SetPolicy(n)

Spec == Init /\ [][Next]_spaceVars

-----------------------------------------------------------------------------
(* A device that was removed neither serves members nor is served by them for  *)
(* longer than the day a signed copy is valid, however late its copy of the    *)
(* member list was read.                                                       *)
RemovalBounded ==
    \A n \in Providers, peer \in Devices \cup {Coordinator} : AllowsAi(n, peer) =>
        \A d \in {n, peer} \cap Devices : activeAt[d] + Lease > clock

(* An invitation lets in one device once, however often its request is repeated. *)
JoinsOnce == \A j, k \in joined : j[1] = k[1] => j = k

(* No usable invitation outlives the authority of the manager who issued it.   *)
InvitesHaveIssuer == \A t \in Tokens : Usable(t) => Manages(space, invites[t].issuer)

(* A request is decided once, and its device is told what was decided, unless  *)
(* the coordinator that decided it was replaced by its backup.                 *)
ToldAsDecided == \A i \in lost + 1..MaxRequests : \A told, again \in verdict[i] : told = again

\* What members may rely on, over lost replies, repeated requests and removals (personal_space.py).
SpaceSound == RemovalBounded /\ JoinsOnce /\ InvitesHaveIssuer /\ ToldAsDecided
==============================================================================
