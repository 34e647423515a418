----------------------------- MODULE DevicePairing -----------------------------
(* Two of an owner's devices pair and exchange data (device_sync/pairing.py,      *)
(* pair_store.py, transfer.py).  The inviter makes an invitation; the joiner      *)
(* answers it; the inviter's owner approves; the joiner confirms.  Each device    *)
(* then has a policy for the pair, numbered by revisions, and a batch of data is  *)
(* taken only under the revisions both sides agree on.  Every wire is a stored,   *)
(* signed request that its worker repeats until it is answered; requests may      *)
(* arrive late and twice, answers may be lost.  No lock is held during a call.    *)
EXTENDS Naturals, FiniteSets

CONSTANTS Pairs,        \* the invitations, each with the one pair id made from it
          NoAnswer,
          MaxRevision,  \* bound: policy revisions of one device
          MaxBatches    \* bound: batches on their way

VARIABLES
    invite,     \* the inviter's invitations
    expired,    \* the invitations whose lifetime has passed
    row,        \* row[d][p]: what device d keeps of pair p
    wires,      \* requests that may still arrive
    answer,     \* answer[d]: the answer to the call d is making
    batches,    \* sealed batches of data that may still arrive
    received,   \* received[d]: the batches d merged
    confirmed   \* confirmed[d][p]: the epoch whose transfer d has counted as delivered

pairVars == <<invite, expired, row, wires, answer, batches, received, confirmed>>

Devices == {"inviter", "joiner"}
Other(d) == IF d = "inviter" THEN "joiner" ELSE "inviter"
NoPolicy == [revision |-> 0, on |-> FALSE]
FirstPolicy == [revision |-> 1, on |-> TRUE]
NoRow == [status |-> "none", approved |-> FALSE, local |-> NoPolicy, remote |-> NoPolicy, removal |-> FALSE]

Status(d, p) == row[d][p].status
Set(d, p, r) == row' = [row EXCEPT ![d][p] = r]
Move(d, p, s) == Set(d, p, [row[d][p] EXCEPT !.status = s])
ActiveAt(d) == {p \in Pairs : Status(d, p) = "active"}

Init ==
    /\ invite = [p \in Pairs |-> "none"] /\ expired = {}
    /\ row = [d \in Devices |-> [p \in Pairs |-> NoRow]]
    /\ wires = {} /\ answer = [d \in Devices |-> NoAnswer] /\ batches = {}
    /\ received = [d \in Devices |-> {}]
    /\ confirmed = [d \in Devices |-> [p \in Pairs |-> NoAnswer]]

transferVars == <<batches, received, confirmed>>

----------------------------------------------------------------------------
(* Invitations.                                                                  *)

CreateInvite(p) ==
    /\ invite[p] = "none" /\ p \notin expired
    /\ invite' = [invite EXCEPT ![p] = "open"]
    /\ UNCHANGED <<expired, row, wires, answer, transferVars>>

Expire(p) ==
    /\ p \notin expired /\ invite[p] # "none" /\ expired' = expired \cup {p}
    /\ UNCHANGED <<invite, row, wires, answer, transferVars>>

\* An active pair is not cancelled with its invitation.  Any other one is, a
\* revoked one too: the removal it still had to deliver is then never sent.
CancelInvite(p) ==
    /\ invite[p] \in {"open", "claimed"} /\ Status("inviter", p) # "active"
    /\ invite' = [invite EXCEPT ![p] = "cancelled"]
    /\ IF Status("inviter", p) \in {"none", "gone"} THEN UNCHANGED row ELSE Move("inviter", p, "rejected")
    /\ UNCHANGED <<expired, wires, answer, transferVars>>

\* _available: no other pair with the same device is active.
Available(d, p) == ActiveAt(d) \subseteq {p}

\* start_join: the owner's decision is stored before any call.
StartJoin(p) ==
    /\ invite[p] # "none" /\ p \notin expired /\ Status("joiner", p) = "none"
    /\ Available("joiner", p)
    /\ Move("joiner", p, "awaiting_inviter")
    /\ wires' = wires \cup {[kind |-> "join", pair |-> p]}
    /\ UNCHANGED <<invite, expired, answer, transferVars>>

\* approve: the inviter's owner, after comparing the code.
Approve(p) ==
    /\ Status("inviter", p) = "awaiting_owner" /\ p \notin expired /\ Available("inviter", p)
    /\ Set("inviter", p, [row["inviter"][p] EXCEPT !.status = "awaiting_peer", !.approved = TRUE,
                                                    !.local = FirstPolicy, !.remote = FirstPolicy])
    /\ UNCHANGED <<invite, expired, wires, answer, transferVars>>

----------------------------------------------------------------------------
(* The requests, as the other device serves them; the answer reaches the caller  *)
(* or is lost.                                                                   *)

Answered(d, a) == answer' = [answer EXCEPT ![d] = a] \/ UNCHANGED answer
Wire(k, p) == [kind |-> k, pair |-> p]

ReceiveJoin(p) ==
    /\ Wire("join", p) \in wires
    /\ LET r == row["inviter"][p]
           refused == invite[p] = "cancelled" \/ r.status \in {"rejected", "revoked", "gone"}
           late == p \in expired /\ r.status # "active"
           new == r.status = "none"
           state == IF refused THEN "rejected" ELSE IF late THEN "expired"
                    ELSE IF r.approved THEN "offer" ELSE "pending"
       IN  /\ ~ refused /\ ~ late /\ new => Available("inviter", p)
           /\ IF ~ refused /\ ~ late /\ new
              THEN Move("inviter", p, "awaiting_owner") /\ invite' = [invite EXCEPT ![p] = "claimed"]
              ELSE UNCHANGED <<row, invite>>
           /\ Answered("joiner", [kind |-> "join", pair |-> p, state |-> state])
    /\ UNCHANGED <<expired, wires, transferVars>>

\* _accept_offer: a pair that has moved on keeps what it is.
AcceptOffer(p) ==
    /\ answer["joiner"] # NoAnswer /\ answer["joiner"].kind = "join" /\ answer["joiner"].pair = p
    /\ LET s == answer["joiner"].state
           r == row["joiner"][p]
       IN  IF r.status # "awaiting_inviter" \/ s = "pending" THEN UNCHANGED <<row, wires>>
           ELSE IF s \in {"expired", "rejected"} THEN Move("joiner", p, "rejected") /\ UNCHANGED wires
           ELSE /\ Set("joiner", p, [r EXCEPT !.status = "awaiting_ack", !.approved = TRUE,
                                              !.local = FirstPolicy, !.remote = FirstPolicy])
                /\ wires' = wires \cup {Wire("confirm", p)}
    /\ answer' = [answer EXCEPT !["joiner"] = NoAnswer]
    /\ UNCHANGED <<invite, expired, transferVars>>

\* receive_confirm makes the inviter's side active; an active pair answers again
\* after the invitation has expired.
ExpiredConfirm(p, s) == s # "active" /\ p \in expired
ReceiveConfirm(p) ==
    /\ Wire("confirm", p) \in wires
    /\ LET s == Status("inviter", p)
           state == IF s \in {"revoked", "rejected"} THEN "rejected"
                    ELSE IF ExpiredConfirm(p, s) THEN "expired" ELSE "active"
       IN  /\ s \in {"revoked", "rejected", "awaiting_peer", "active"}
           /\ state = "active" => Available("inviter", p)
           /\ IF state = "active" THEN Move("inviter", p, "active") ELSE UNCHANGED row
           /\ Answered("joiner", [kind |-> "confirm", pair |-> p, state |-> state])
    /\ UNCHANGED <<invite, expired, wires, transferVars>>

Acknowledged(p) ==
    /\ answer["joiner"] # NoAnswer /\ answer["joiner"].kind = "confirm" /\ answer["joiner"].pair = p
    /\ IF Status("joiner", p) # "awaiting_ack" THEN UNCHANGED row
       ELSE Move("joiner", p, IF answer["joiner"].state = "active" THEN "active" ELSE "rejected")
    /\ answer' = [answer EXCEPT !["joiner"] = NoAnswer]
    /\ UNCHANGED <<invite, expired, wires, transferVars>>

----------------------------------------------------------------------------
(* Policies and removal.                                                         *)

\* configure: the owner of one device changes what it shares; the revision grows.
Configure(d, p) ==
    /\ Status(d, p) = "active" /\ row[d][p].local.revision < MaxRevision
    /\ Set(d, p, [row[d][p] EXCEPT !.local = [revision |-> @.revision + 1, on |-> ~ @.on]])
    /\ UNCHANGED <<invite, expired, wires, answer, transferVars>>

\* receive_policy and exchange_policy: the newer revision is taken, on both sides.
Newer(mine, theirs) == IF theirs.revision > mine.revision THEN theirs ELSE mine
TakesPolicy(d, p, policy) ==
    row' = [row EXCEPT ![d][p].remote = Newer(row[d][p].remote, policy)]
ExchangePolicy(d, p) ==
    /\ Status(d, p) = "active" /\ Status(Other(d), p) = "active"
    /\ \/ TakesPolicy(Other(d), p, row[d][p].local)      \* the answer is lost
       \/ row' = [row EXCEPT ![d][p].remote = Newer(row[d][p].remote, row[Other(d)][p].local),
                             ![Other(d)][p].remote = Newer(row[Other(d)][p].remote, row[d][p].local)]
    /\ UNCHANGED <<invite, expired, wires, answer, transferVars>>

\* revoke: the pair ends here at once and its wire is kept until it is answered.
Revoke(d, p) ==
    /\ Status(d, p) \notin {"none", "revoked", "gone"}
    /\ Set(d, p, [row[d][p] EXCEPT !.status = "revoked", !.removal = TRUE])
    /\ UNCHANGED <<invite, expired, wires, answer, transferVars>>

\* receive_revoke is idempotent; a pair that is not there is removed already.
KeepsPair(r) == r                          \* mutant: the other side's pair stays as it is
Removed(r) == IF r.status \in {"none", "gone"} THEN r ELSE [r EXCEPT !.status = "revoked"]
RetryRemoval(d, p) ==
    /\ Status(d, p) = "revoked" /\ row[d][p].removal
    /\ \/ row' = [row EXCEPT ![Other(d)][p] = Removed(row[Other(d)][p]), ![d][p].removal = FALSE]
       \/ row' = [row EXCEPT ![Other(d)][p] = Removed(row[Other(d)][p])]     \* the answer is lost
    /\ UNCHANGED <<invite, expired, wires, answer, transferVars>>

\* _compact: a rejected pair goes at a later write of the store; its invitation
\* stays for one more, and then goes when it was cancelled or has expired.
Compact(d, p) ==
    /\ Status(d, p) = "rejected"
    /\ d = "inviter" => invite[p] = "cancelled"
    /\ Set(d, p, [NoRow EXCEPT !.status = "gone"])
    /\ UNCHANGED <<invite, expired, wires, answer, transferVars>>

----------------------------------------------------------------------------
(* The transfer of data.                                                         *)

\* authorize: the pair is active, neither side is paused, and the two revisions
\* named are the current ones.
Authorized(d, p, sender, receiver) ==
    /\ Status(d, p) = "active"
    /\ row[d][p].local.on /\ row[d][p].remote.on
    /\ receiver = row[d][p].local.revision /\ sender = row[d][p].remote.revision

Epoch(d, p) == <<row[d][p].local.revision, row[d][p].remote.revision>>

\* prepare, and send after a second check: the batch names both revisions.
Send(d, p) ==
    /\ Authorized(d, p, row[d][p].remote.revision, row[d][p].local.revision)
    /\ Cardinality(batches) < MaxBatches
    /\ batches' = batches \cup {[from |-> d, pair |-> p, sender |-> row[d][p].local.revision,
                                 receiver |-> row[d][p].remote.revision, merged |-> FALSE]}
    /\ UNCHANGED <<invite, expired, row, wires, answer, received, confirmed>>

\* receive: under the pairing lock, the revisions must still be the agreed ones.
Takes(d, b) == Authorized(d, b.pair, b.sender, b.receiver)
Receive(b) ==
    /\ LET d == Other(b.from)
       IN  /\ Takes(d, b)
           /\ received' = [received EXCEPT ![d] = @ \cup {[b EXCEPT !.merged = TRUE]}]
    /\ batches' = (batches \ {b}) \cup {[b EXCEPT !.merged = TRUE]}
    /\ UNCHANGED <<invite, expired, row, wires, answer, confirmed>>

\* acknowledge: the receipt counts only under the policy it was sent under.
Accept(b) ==
    /\ b.merged /\ Authorized(b.from, b.pair, b.receiver, b.sender)
    /\ confirmed' = [confirmed EXCEPT ![b.from][b.pair] = Epoch(b.from, b.pair)]
    /\ batches' = batches \ {b}
    /\ UNCHANGED <<invite, expired, row, wires, answer, received>>

\* The batch or its receipt is lost.
Drop(b) ==
    /\ batches' = batches \ {b}
    /\ UNCHANGED <<invite, expired, row, wires, answer, received, confirmed>>

Next ==
    \/ \E p \in Pairs :
        \/ CreateInvite(p) \/ Expire(p) \/ CancelInvite(p) \/ StartJoin(p) \/ Approve(p)
        \/ ReceiveJoin(p) \/ AcceptOffer(p) \/ ReceiveConfirm(p) \/ Acknowledged(p)
        \/ \E d \in Devices : Configure(d, p) \/ ExchangePolicy(d, p) \/ Revoke(d, p)
                              \/ RetryRemoval(d, p) \/ Compact(d, p) \/ Send(d, p)
    \/ \E b \in batches : Receive(b) \/ Accept(b) \/ Drop(b)

----------------------------------------------------------------------------
(* A joiner that is active was approved by the inviter's owner, and the inviter   *)
(* is active, or has since removed it or cancelled its invitation; an inviter     *)
(* becomes active only with a joiner that took the offer.                         *)
ApprovedByBoth ==
    \A p \in Pairs :
        /\ Status("joiner", p) = "active" => Status("inviter", p) \in {"active", "revoked"} \/ invite[p] = "cancelled"
        /\ Status("inviter", p) = "active" =>
              row["inviter"][p].approved /\ Status("joiner", p) \in {"awaiting_ack", "active", "revoked"}

(* When the owner is told that a removal reached the other device, that device    *)
(* does not hold the pair any more and will take no batch of it, however late     *)
(* requests and batches arrive.                                                   *)
RemovalHolds ==
    \A d \in Devices, p \in Pairs :
        Status(d, p) = "revoked" /\ ~ row[d][p].removal => Status(Other(d), p) # "active"

(* A batch is merged only when each device had itself agreed to the very          *)
(* revisions it names, and a transfer counted as delivered was merged.            *)
DeliveredIsMerged ==
    \A d \in Devices, p \in Pairs : confirmed[d][p] # NoAnswer =>
        \E b \in received[Other(d)] :
            b.from = d /\ b.pair = p /\ <<b.sender, b.receiver>> = confirmed[d][p]

(* No policy is invented: what a device believes of the other one was in force    *)
(* there, and is not ahead of it.                                                 *)
PolicyNotAhead ==
    \A d \in Devices, p \in Pairs :
        Status(d, p) = "active" /\ Status(Other(d), p) = "active" =>
            /\ row[d][p].remote.revision <= row[Other(d)][p].local.revision
            /\ row[d][p].remote.revision = row[Other(d)][p].local.revision =>
                  row[d][p].remote = row[Other(d)][p].local

\* What holds of a pair on both devices at every step (pairing.py).
PairingSound == ApprovedByBoth /\ RemovalHolds /\ DeliveredIsMerged /\ PolicyNotAhead
==============================================================================
