------------------------------- MODULE Mailbox -------------------------------
(* The store-and-forward mailbox: one recipient's box in the registry         *)
(* (mailbox_store.py) and the recipient's client that polls it                 *)
(* (mailbox_client.py, mailbox_routes.py).  Senders deposit sealed envelopes;  *)
(* the client polls, opens each envelope, runs the handler of its kind and     *)
(* acknowledges it with the NEXT poll.  Delivery is at least once: the replay  *)
(* cache, the retry counters and the registry's tombstones are what keeps a    *)
(* message from being handled again.  Both processes may crash.                *)
EXTENDS Naturals, Sequences, FiniteSets, SequencesExt

CONSTANTS
    Msgs,              \* the envelopes, named by their message_id
    Sender,            \* from_peer_id of each envelope
    MaxPending,        \* max_pending_per_recipient
    MaxPendingSender,  \* max_pending_per_sender
    MaxTombstones,     \* MAX_TOMBSTONES_PER_BOX
    PollLimit,         \* MAX_POLL_LIMIT
    MaxAttempts,       \* max_attempts
    SeenCapacity,      \* seen_capacity
    MaxCrashes,        \* bound: crashes of either process explored
    MaxHandled         \* bound: completions of one envelope explored

VARIABLES
    box,         \* the envelopes on disk, oldest first
    tombs,       \* the tombstones on disk, oldest first
    expired,     \* the envelopes whose TTL has passed
    nonceKnown,  \* _seen_nonces still holds the nonce of the last poll request
    request,     \* the ids acknowledged by the last poll request
    phase,       \* the client: "idle", or "dispatch" while it handles a batch
    batch,       \* the envelopes of the batch that are still to be handled
    pendingAcks, \* _pending_acks
    seen,        \* _seen, oldest first
    attempts,    \* _attempts
    disk,        \* what seen.json holds of seen and attempts
    changed,     \* this batch changed seen or attempts
    deposited,   \* history: envelopes a box has ever accepted
    handled,     \* history: how often a handler completed each envelope
    given,       \* history: envelopes dropped as rejected or out of attempts
    forgot,      \* history: how often the record that an envelope was handled was lost
    crashes

boxVars == <<box, tombs, expired, nonceKnown, request, deposited>>
clientVars == <<phase, batch, pendingAcks, seen, attempts, disk, changed>>
history == <<handled, given, forgot>>
mailboxVars == <<boxVars, clientVars, history, crashes>>

Init ==
    /\ box = <<>> /\ tombs = <<>> /\ expired = {}
    /\ nonceKnown = FALSE /\ request = {}
    /\ phase = "idle" /\ batch = <<>> /\ pendingAcks = {}
    /\ seen = <<>> /\ attempts = [m \in Msgs |-> 0] /\ changed = FALSE
    /\ disk = [seen |-> <<>>, attempts |-> [m \in Msgs |-> 0]]
    /\ deposited = {} /\ handled = [m \in Msgs |-> 0]
    /\ given = {} /\ forgot = [m \in Msgs |-> 0]
    /\ crashes = 0

----------------------------------------------------------------------------
(* The registry's box.                                                         *)

Without(s, S) == SelectSeq(s, LAMBDA m : m \notin S)
Newest(s, n) == IF Len(s) > n THEN SubSeq(s, Len(s) - n + 1, Len(s)) ELSE s
Oldest(s, n) == SubSeq(s, 1, IF Len(s) < n THEN Len(s) ELSE n)

\* A sweep drops what has expired and keeps the newest tombstones.
SweptBox(b) == Without(b, expired)
SweptTombs(t) == Newest(Without(t, expired), MaxTombstones)

\* Acknowledging deletes the envelopes that are in the box and leaves a
\* tombstone for each of them.
Acked(b, acks) == Without(b, acks)
Entombed(b, t, acks) ==
    LET gone == SelectSeq(b, LAMBDA m : m \in acks)
    IN  Without(t, acks) \o gone

\* verify_mailbox_envelope: a well-formed, signed shell that has not expired.
Verified(m) == m \notin expired

\* _pending_counts: what the box holds of one sender.
PendingOf(b, s) == SelectSeq(b, LAMBDA x : Sender[x] = s)

\* An envelope that is neither expired nor known is stored, when the box and the
\* sender's share of it have room; every other deposit is refused and only sweeps.
Deposit(m) ==
    /\ Verified(m)
    /\ ~ (Contains(box, m) \/ Contains(tombs, m))
    /\ tombs' = SweptTombs(tombs)
    /\ LET b == SweptBox(box)
       IN  IF Len(b) < MaxPending /\ Len(PendingOf(b, Sender[m])) < MaxPendingSender
           THEN box' = Append(b, m) /\ deposited' = deposited \cup {m}
           ELSE box' = b /\ UNCHANGED deposited
    /\ UNCHANGED <<expired, nonceKnown, request, clientVars, history, crashes>>

\* Time passes the envelope's expires_at.
Expire(m) ==
    /\ m \notin expired
    /\ expired' = expired \cup {m}
    /\ UNCHANGED <<box, tombs, nonceKnown, request, deposited, clientVars, history, crashes>>

\* The registry's own sweep of every box.
Sweep ==
    /\ box' = SweptBox(box) /\ tombs' = SweptTombs(tombs)
    /\ UNCHANGED <<expired, nonceKnown, request, deposited, clientVars, history, crashes>>

\* verify_poll_request and _remember_nonce: a request is served once.
PollAccepted == ~ nonceKnown

\* What one poll request with these acks does to the box.
ServePoll(acks) ==
    /\ box' = SweptBox(Acked(box, acks))
    /\ tombs' = SweptTombs(Entombed(box, tombs, acks))
    /\ nonceKnown' = TRUE
    /\ request' = acks
    /\ UNCHANGED <<expired, deposited>>

----------------------------------------------------------------------------
(* The client.                                                                 *)

AckedEarly == {batch'[i] : i \in DOMAIN batch'}   \* mutant: what was fetched is acknowledged
QueuedAcks == {}

\* The request is served and its answer arrives: the acks leave the queue and
\* the oldest envelopes form the batch.
PollAnswered ==
    /\ phase = "idle"
    /\ ServePoll(pendingAcks)
    /\ batch' = Oldest(box', PollLimit)
    /\ pendingAcks' = QueuedAcks
    /\ phase' = "dispatch" /\ changed' = FALSE
    /\ UNCHANGED <<seen, attempts, disk, history, crashes>>

\* The request is served and its answer is lost: the client raises, the acks stay
\* queued and ride on the next poll.
PollLost ==
    /\ phase = "idle"
    /\ ServePoll(pendingAcks)
    /\ UNCHANGED <<clientVars, history, crashes>>

\* The signed request arrives once more: its nonce is refused, unless the
\* registry lost it.
PollReplayed ==
    /\ PollAccepted
    /\ ServePoll(request)
    /\ UNCHANGED <<clientVars, history, crashes>>

Current == Head(batch)
Dispatching == phase = "dispatch" /\ batch # <<>>
KnownNever(m) == FALSE   \* mutant: the replay cache is not consulted
Known(m) == Contains(seen, m)

ReAckNone(m) == {}   \* mutant: a replay is dropped without an ack
ReAck(m) == {m}

\* Already completed: the ack never landed.
DropReplay ==
    /\ Dispatching /\ Known(Current)
    /\ pendingAcks' = pendingAcks \cup ReAck(Current)
    /\ batch' = Tail(batch)
    /\ UNCHANGED <<boxVars, phase, seen, attempts, disk, changed, history, crashes>>

\* The envelope's shell is refused (expired, malformed) or its kind is unknown.
Reject ==
    /\ Dispatching /\ ~ Known(Current)
    /\ pendingAcks' = pendingAcks \cup {Current}
    /\ given' = given \cup {Current}
    /\ batch' = Tail(batch)
    /\ UNCHANGED <<boxVars, phase, seen, attempts, disk, changed, handled, forgot, crashes>>

Live(s) == Without(s, expired)
PrunedAttempts == [m \in Msgs |-> IF m \in expired THEN 0 ELSE attempts[m]]

\* open_mailbox_message and the handler see only what verifies and is not known.
Openable(m) == ~ Known(m) /\ Verified(m)

\* The seal would not open or the handler raised: the attempt is counted, and at
\* the limit the envelope is given up.
GiveUpAt(n) == n >= MaxAttempts
Retry ==
    /\ Dispatching /\ Openable(Current)
    /\ LET n == PrunedAttempts[Current] + 1
           up == GiveUpAt(n)
       IN  /\ attempts' = [PrunedAttempts EXCEPT ![Current] = IF up THEN 0 ELSE n]
           /\ pendingAcks' = IF up THEN pendingAcks \cup {Current} ELSE pendingAcks
           /\ given' = IF up THEN given \cup {Current} ELSE given
    /\ batch' = Tail(batch) /\ changed' = TRUE
    /\ UNCHANGED <<boxVars, phase, seen, disk, handled, forgot, crashes>>

\* _remember: the completed envelope is the newest entry of a bounded cache.
Remember(s, m) == Newest(Live(Append(Without(s, {m}), m)), SeenCapacity)

\* The handler completed.
Complete ==
    /\ Dispatching /\ Openable(Current)
    /\ handled[Current] < MaxHandled
    /\ attempts' = [attempts EXCEPT ![Current] = 0]
    /\ seen' = Remember(seen, Current)
    /\ forgot' = [m \in Msgs |->
            IF Contains(seen, m) /\ ~ Contains(seen', m) THEN forgot[m] + 1 ELSE forgot[m]]
    /\ handled' = [handled EXCEPT ![Current] = @ + 1]
    /\ pendingAcks' = pendingAcks \cup {Current}
    /\ batch' = Tail(batch) /\ changed' = TRUE
    /\ UNCHANGED <<boxVars, phase, disk, given, crashes>>

\* The end of the batch saves the cache and the counters, once and only when they changed.
EndBatch ==
    /\ phase = "dispatch" /\ batch = <<>>
    /\ disk' = IF changed THEN [seen |-> seen, attempts |-> attempts] ELSE disk
    /\ phase' = "idle" /\ changed' = FALSE
    /\ UNCHANGED <<boxVars, batch, pendingAcks, seen, attempts, history, crashes>>

\* The node stops at any point and starts again: the queue of acks and whatever
\* was not saved are gone, and loading prunes what has expired.
ClientCrash ==
    /\ crashes < MaxCrashes /\ crashes' = crashes + 1
    /\ phase' = "idle" /\ batch' = <<>> /\ pendingAcks' = {} /\ changed' = FALSE
    /\ seen' = Live(disk.seen)
    /\ attempts' = [m \in Msgs |-> IF m \in expired THEN 0 ELSE disk.attempts[m]]
    /\ forgot' = [m \in Msgs |->
            IF Contains(seen, m) /\ ~ Contains(seen', m) THEN forgot[m] + 1 ELSE forgot[m]]
    /\ UNCHANGED <<boxVars, disk, handled, given>>

\* The registry stops while it serves an acknowledgement, after it deleted the
\* envelope and before it wrote the tombstone; the nonces and the answer are lost.
RegistryCrash ==
    /\ crashes < MaxCrashes /\ crashes' = crashes + 1
    /\ nonceKnown' = FALSE
    /\ \/ phase = "idle" /\ request' = pendingAcks
          /\ \E m \in pendingAcks : box' = Without(box, {m})
       \/ UNCHANGED <<box, request>>
    /\ UNCHANGED <<tombs, expired, deposited, clientVars, history>>

Next ==
    \/ \E m \in Msgs : Deposit(m) \/ Expire(m)
    \/ Sweep \/ PollAnswered \/ PollLost \/ PollReplayed
    \/ DropReplay \/ Reject \/ Retry \/ Complete \/ EndBatch
    \/ ClientCrash \/ RegistryCrash

\* The supervised poll worker keeps polling, and a poll is answered when it is
\* tried often enough.
Fairness ==
    /\ SF_mailboxVars(PollAnswered)
    /\ WF_mailboxVars(DropReplay \/ Reject \/ Retry \/ Complete) /\ WF_mailboxVars(EndBatch)

Spec == Init /\ [][Next]_mailboxVars /\ Fairness

----------------------------------------------------------------------------
(* A handler completes an envelope once, and once more only for each time the  *)
(* client lost the record that it had: lost answers, lost acks, replayed poll  *)
(* requests, a registry that forgot a tombstone and resent envelopes alone do  *)
(* not make it run again (_dispatch, _remember, FileMailboxStore._ack).        *)
HandledOncePerRecord == \A m \in Msgs : handled[m] <= 1 + forgot[m]

(* No envelope the registry accepted leaves the box unless a handler completed  *)
(* it, the client gave it up, or it expired: an ack is never sent for an        *)
(* envelope that was only fetched (poll_once, _ack, _sweep_dir).                *)
NoMailLost ==
    \A m \in deposited :
        Contains(box, m) \/ handled[m] > 0 \/ m \in given \/ m \in expired

\* Both halves of the delivery promise, over any crashes (mailbox_store.py, mailbox_client.py).
Delivery == HandledOncePerRecord /\ NoMailLost

(* Every stored envelope leaves the head of the box: fifty envelopes that never *)
(* open would hide all newer mail (comment in _dispatch).                       *)
InBox(m) == Contains(box, m)

\* What is in the box leaves it: handled, given up or expired (comment in _dispatch).
MailLeaves == \A m \in Msgs : InBox(m) ~> ~InBox(m)
==============================================================================
