------------------------------ MODULE SyncRecords ------------------------------
(* One record that an owner's devices keep in step: a causal register            *)
(* (device_sync/records.py) inside the source's own file (reading.py,            *)
(* conversations.py), sent as whole snapshots and acknowledged by revision       *)
(* (store.py).  A record has a version vector and the values that are still      *)
(* concurrent.  Snapshots may arrive late, twice or in any order; the owner goes *)
(* on writing on every device.  A revision is the record itself.                 *)
EXTENDS Naturals, FiniteSets

CONSTANTS Actors,      \* the devices
          Values,      \* what the owner may write
          Deleted,     \* the causal deletion, a value of its own
          NoReceipt,
          MaxCounter,  \* bound: writes of one device
          MaxWires     \* bound: snapshots and receipts on their way

VARIABLES
    scope,      \* "reading" or "conversations"
    record,     \* the causal record of each device
    projected,  \* the version its local edits are based on
    wires,      \* the snapshots on their way
    replies,    \* the receipts on their way
    receipt,    \* receipts[d][e]: the revision e acknowledged to d
    context     \* history: what each write had observed, by dot

recordVars == <<scope, record, projected, wires, replies, receipt, context>>

Empty == [clock |-> [a \in Actors |-> 0], heads |-> {}, erased |-> FALSE]
Dot(h) == <<h.actor, h.counter>>
Dots(r) == {Dot(h) : h \in r.heads}

Init ==
    /\ scope \in {"reading", "conversations"}
    /\ record = [a \in Actors |-> Empty] /\ projected = record
    /\ wires = {} /\ replies = {} /\ context = {}
    /\ receipt = [d \in Actors |-> [e \in Actors |-> NoReceipt]]

----------------------------------------------------------------------------
(* The causal register.                                                          *)

Larger(m, n) == IF m > n THEN m ELSE n

\* write: the new value replaces everything its base had observed.
Written(base, a, v, erase) ==
    LET n == base.clock[a] + 1
    IN  [clock |-> [base.clock EXCEPT ![a] = n],
         heads |-> IF erase THEN {} ELSE {[actor |-> a, counter |-> n, value |-> v]},
         erased |-> erase]

\* merge: a value stays when both sides hold it, or the other has not observed it.
Unseen(h, other) == other.clock[h.actor] < h.counter
KeepAll(h, other) == TRUE   \* mutant: what the other side dropped comes back
Keeps(h, other) == h \in other.heads \/ Unseen(h, other)
Merged(l, r) ==
    LET clock == [a \in Actors |-> Larger(l.clock[a], r.clock[a])]
        gone == l.erased \/ r.erased
    IN  [clock |-> clock, erased |-> gone,
         heads |-> IF gone THEN {}
                   ELSE {h \in l.heads : Keeps(h, r)} \cup {h \in r.heads : Keeps(h, l)}]

\* The same dot with two values: the merge is refused.
DotConflict(l, r) ==
    \E h \in l.heads, g \in r.heads : Dot(h) = Dot(g) /\ h # g

\* view: the distinct values.
Candidates(r) == {h.value : h \in r.heads}
Conflict(r) == Cardinality(Candidates(r)) > 1
IsDeleted(r) == r.erased \/ Deleted \in Candidates(r)

----------------------------------------------------------------------------
(* The source's local writes.                                                    *)

\* A local edit is based on what its owner saw, brought up to this device's own
\* counter: concurrent values it did not see stay.
Base(d) ==
    LET p == projected[d]
    IN  IF record[d].clock[d] > p.clock[d]
        THEN [p EXCEPT !.clock[d] = record[d].clock[d],
                       !.heads = {h \in @ : h.actor # d}]
        ELSE p

Observed(base, a) == [dot |-> <<a, base.clock[a] + 1>>, clock |-> base.clock]

\* _write: the update is merged into the record.  Reading goes on from the merge
\* unless values conflict; a conversation goes on from its own branch.
Store(d, base, v, erase) ==
    LET updated == Written(base, d, v, erase)
        merged == Merged(record[d], updated)
    IN  /\ updated.clock[d] <= MaxCounter
        /\ ~ DotConflict(record[d], updated)
        /\ record' = [record EXCEPT ![d] = merged]
        /\ projected' = [projected EXCEPT ![d] =
                IF scope = "reading" /\ ~ Conflict(merged) THEN merged ELSE updated]
        /\ context' = context \cup {Observed(base, d)}
        /\ UNCHANGED <<scope, wires, replies, receipt>>

\* ReadingState.capture: a bookmark or a reading position.
CaptureReading(d, v) ==
    /\ scope = "reading" /\ Store(d, Base(d), v, FALSE)

\* ReadingState.resolve and clear: an explicit review replaces every candidate.
ResolveReading(d, v) ==
    /\ scope = "reading" /\ Conflict(record[d]) /\ v \in Candidates(record[d])
    /\ Store(d, record[d], v, FALSE)
ClearReading(d) ==
    /\ scope = "reading" /\ record[d].heads # {}
    /\ Store(d, record[d], Deleted, FALSE)

\* ConversationState.capture: an edited conversation or a tombstone.  A deleted
\* conversation is not written again.
CaptureConversation(d, v) ==
    /\ scope = "conversations"
    /\ ~ Base(d).erased /\ Deleted \notin Candidates(Base(d)) /\ ~ IsDeleted(record[d])
    /\ Store(d, Base(d), v, FALSE)
EraseConversation(d) ==
    /\ scope = "conversations" /\ record[d] # Empty /\ ~ record[d].erased
    /\ Store(d, record[d], Deleted, TRUE)

----------------------------------------------------------------------------
(* The exchange.                                                                 *)

\* pending: the record goes to every device that has not acknowledged it.
Pending(d, e) == record[d] # Empty /\ receipt[d][e] # record[d]
Send(d, e) ==
    /\ d # e /\ Pending(d, e) /\ Cardinality(wires \cup replies) < MaxWires
    /\ wires' = wires \cup {[from |-> d, to |-> e, record |-> record[d]]}
    /\ UNCHANGED <<scope, record, projected, replies, receipt, context>>

\* What the receiving device goes on from.
ProjectReading(d, merged) == IF Conflict(merged) THEN projected[d] ELSE merged
ProjectConversation(d, merged) ==
    IF merged = record[d] \/ (~ IsDeleted(merged) /\ (Conflict(merged) \/ merged.heads = {}))
    THEN projected[d] ELSE merged

\* receive: the snapshot is merged and its own revision acknowledged; a row that
\* cannot be merged is refused, and only named in the receipt.
Receive(w) ==
    LET d == w.to
        merged == Merged(record[d], w.record)
        refused == DotConflict(record[d], w.record)
    IN  /\ IF refused THEN UNCHANGED <<record, projected>>
           ELSE /\ record' = [record EXCEPT ![d] = merged]
                /\ projected' = [projected EXCEPT ![d] =
                     IF scope = "reading" THEN ProjectReading(d, merged)
                     ELSE ProjectConversation(d, merged)]
        /\ \/ replies' = replies \cup {w} /\ wires' = wires \ {w}
           \/ UNCHANGED <<wires, replies>>     \* it will arrive once more
        /\ UNCHANGED <<scope, receipt, context>>

Lose(w) ==
    /\ wires' = wires \ {w} /\ replies' = replies \ {w}
    /\ UNCHANGED <<scope, record, projected, receipt, context>>

\* acknowledge: a late receipt does not mark a newer record as delivered.
Current(d, r) == record[d] = r
Acknowledge(w) ==
    /\ receipt' = IF Current(w.from, w.record)
                  THEN [receipt EXCEPT ![w.from][w.to] = record[w.from]] ELSE receipt
    /\ replies' = replies \ {w}
    /\ UNCHANGED <<scope, record, projected, wires, context>>

\* forget_device: a new pairing or policy discards the old acknowledgements.
ForgetDevice(d, e) ==
    /\ receipt[d][e] # NoReceipt
    /\ receipt' = [receipt EXCEPT ![d][e] = NoReceipt]
    /\ UNCHANGED <<scope, record, projected, wires, replies, context>>

Next ==
    \/ \E d \in Actors :
        \/ \E v \in Values : CaptureReading(d, v) \/ ResolveReading(d, v)
        \/ \E v \in Values \cup {Deleted} : CaptureConversation(d, v)
        \/ ClearReading(d) \/ EraseConversation(d)
        \/ \E e \in Actors : Send(d, e) \/ ForgetDevice(d, e)
    \/ \E w \in wires : Receive(w)
    \/ \E w \in replies : Acknowledge(w)
    \/ \E w \in wires \cup replies : Lose(w)

----------------------------------------------------------------------------
(* Devices that have seen the same writes hold the same record, in whatever      *)
(* order, how often and how late the snapshots came.                             *)
Converged ==
    \A d, e \in Actors : record[d].clock = record[e].clock => record[d] = record[e]

(* A value a device knew of is gone only when a write it knows of had observed   *)
(* it, or the conversation was erased; and such a value never comes back.        *)
Overwrote(c, dot) == c.clock[dot[1]] >= dot[2]
Knows(d, dot) == record[d].clock[dot[1]] >= dot[2]

\* A value is gone only if a later write or deletion saw it, and a deleted one does not return (merge of records.py).
NoLostOrRevivedValue ==
    \A d \in Actors : ~ record[d].erased =>
        \A c \in context : Knows(d, c.dot) =>
            (c.dot \in Dots(record[d]) <=>
                ~ \E b \in context : Knows(d, b.dot) /\ Overwrote(b, c.dot))

(* A revision counted as delivered has been merged by that device: its writes    *)
(* are all known there.                                                          *)
ReceiptIsDelivery ==
    \A d, e \in Actors : receipt[d][e] # NoReceipt =>
        \A a \in Actors : receipt[d][e].clock[a] <= record[e].clock[a]

(* An erased conversation stays erased on every device that learns of it, and    *)
(* two values never share a dot.                                                 *)
NoDotConflict == \A w \in wires : ~ DotConflict(record[w.to], w.record)

\* What replicas promise after any exchange of late and repeated snapshots (records.py, store.py).
SyncSound == Converged /\ NoLostOrRevivedValue /\ ReceiptIsDelivery /\ NoDotConflict
==============================================================================
