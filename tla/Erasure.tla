-------------------------------- MODULE Erasure --------------------------------
(* Erasing one category of personal data, reviewed by the owner, and asking       *)
(* another of the owner's devices to do the same (device_erasure/).  A category   *)
(* keeps copies in several places; its cleanup walks them in a fixed order and    *)
(* records each step, so that a stop in the middle is resumed.  The owner         *)
(* approves an exact review: the review token is the fingerprint of everything    *)
(* that will go.  Conversations and reading write the plan first and then erase   *)
(* the source; the other categories commit plan and source in one write.          *)
EXTENDS Naturals, Sequences

CONSTANTS Items,     \* the identities of one category's records
          NoJob,
          NoReview,
          MaxJobs,   \* bound: cleanup jobs explored
          MaxVersion,  \* bound: leftover files explored
          MaxEpoch   \* bound: re-pairings explored

VARIABLES
    category,   \* the category this behaviour erases
    source, replica, files, derived,  \* the copies: the records each place holds
    version,    \* the content of the reviewed files, as a digest
    barrier,    \* identities whose old records can no longer return
    created,    \* history: records that exist or existed
    approved,   \* history: what the reviews the owner acted on showed
    sequence,   \* the number of jobs begun
    review,     \* the review the owner was last shown
    job,        \* the cleanup journal
    incoming,   \* this device's record of the other device's request
    request,    \* the other device's record of this target
    reply,      \* the receipt on its way back
    epoch,      \* the policy both devices agreed on when they last paired
    approver    \* the owner's approval in progress

copyVars == <<source, replica, files, derived, version, barrier, created>>
deviceVars == <<incoming, request, reply, epoch, approver>>
erasureVars == <<category, copyVars, sequence, approved, review, job, deviceVars>>

\* PHASES: the steps of each category after the plan is written.
Phases == [conversations |-> <<"source", "replica", "files", "derived">>,
           reading       |-> <<"source", "replica", "files", "derived">>,
           documents     |-> <<"source", "files">>,
           friend_feed   |-> <<"source", "files">>,
           friend_cards  |-> <<"source", "files">>,
           offline       |-> <<"source", "files">>]
Journalled == {"conversations", "reading"}
Complete(j) == j # NoJob /\ ~ j.cancelled /\ j.done = Len(Phases[category])
Ended(j) == j # NoJob => (j.cancelled \/ j.done = Len(Phases[category]))
NextPhase == Phases[category][job.done + 1]

Init ==
    /\ category \in DOMAIN Phases
    /\ source = {} /\ replica = {} /\ files = {} /\ derived = {} /\ version = 0
    /\ barrier = {} /\ created = {} /\ sequence = 0 /\ approved = {} /\ review = NoReview /\ job = NoJob
    /\ incoming = [state |-> "none", epoch |-> 0, token |-> NoReview]
    /\ request = "none" /\ reply = NoReview /\ epoch = 0 /\ approver = "idle"

----------------------------------------------------------------------------
(* The owner's ordinary use, at any time.                                        *)

Create(i) ==
    /\ i \notin barrier /\ i \notin created
    /\ source' = source \cup {i} /\ derived' = IF category \in Journalled THEN derived \cup {i} ELSE derived
    /\ created' = created \cup {i}
    /\ UNCHANGED <<category, replica, files, version, barrier, sequence, approved, review, job, deviceVars>>

\* A stale message of a paired device carries a record: the barrier ignores it.
ReceiveStale(i) ==
    /\ category \in Journalled /\ i \in created \ barrier
    /\ source' = source \cup {i} /\ replica' = replica \cup {i}
    /\ UNCHANGED <<category, files, derived, version, barrier, created, sequence, approved, review, job, deviceVars>>

\* A migration or an interrupted write leaves a copy of the source behind.
LeaveCopy ==
    /\ source # {} /\ version < MaxVersion
    /\ files' = files \cup source /\ version' = version + 1
    /\ UNCHANGED <<category, source, replica, derived, barrier, created, sequence, approved, review, job, deviceVars>>

----------------------------------------------------------------------------
(* The review and the journal.                                                   *)

Plan == [items |-> source \cup replica \cup files, version |-> version, sequence |-> sequence + 1]

\* Each category's preview shows the plan it would carry out, and its token.
Show(c) ==
    /\ category = c /\ Ended(job) /\ review' = Plan
    /\ UNCHANGED <<category, copyVars, sequence, approved, job, deviceVars>>
AskPreview == Show("conversations")
ReadingPreview == Show("reading")
LibraryPreview == Show("documents")
FeedPreview == Show("friend_feed")
CardsPreview == Show("friend_cards")
OfflinePreview == Show("offline")
Preview == AskPreview \/ ReadingPreview \/ LibraryPreview
           \/ FeedPreview \/ CardsPreview \/ OfflinePreview

AnyPlan(token) == token # NoReview   \* mutant: the plan is not compared with the review
Reviewed(token) == token = Plan
NewJob(done) == [plan |-> Plan, done |-> done, cancelled |-> FALSE, committed |-> done > 0]

Numbered(token) ==
    /\ sequence < MaxJobs /\ sequence' = sequence + 1
    /\ approved' = approved \cup token.items

\* Erasing the source bars every reviewed identity from coming back.
EraseSource ==
    /\ source' = {} /\ barrier' = barrier \cup source \cup replica
    /\ UNCHANGED <<replica, files, derived, version, created>>

\* Journalled categories write the plan, then erase; a stop in between leaves
\* a plan whose source is whole.
AskBegin(token) ==
    /\ category = "conversations" /\ Ended(job) /\ Reviewed(token)
    /\ Numbered(token)
    /\ job' = NewJob(0)
    /\ UNCHANGED <<category, copyVars, review>>
ReadingBegin(token) ==
    /\ category = "reading" /\ Ended(job) /\ Reviewed(token)
    /\ Numbered(token)
    /\ job' = NewJob(0)
    /\ UNCHANGED <<category, copyVars, review>>

\* The other categories record the plan in the very write that clears the source.
CommitPlan(token) ==
    /\ Ended(job) /\ Reviewed(token)
    /\ Numbered(token)
    /\ EraseSource /\ job' = NewJob(1)
    /\ UNCHANGED <<category, review>>
LibraryBegin(token) == category = "documents" /\ CommitPlan(token)
FeedBegin(token) == category = "friend_feed" /\ CommitPlan(token)
CardsBegin(token) == category = "friend_cards" /\ CommitPlan(token)
OfflineClear(token) == category = "offline" /\ CommitPlan(token)
Begin(token) == AskBegin(token) \/ ReadingBegin(token) \/ LibraryBegin(token)
                \/ FeedBegin(token) \/ CardsBegin(token) \/ OfflineClear(token)

----------------------------------------------------------------------------
(* The steps, each one resumed after a stop.                                     *)

Pending(phase) == ~ Ended(job) /\ NextPhase = phase
Done == job' = [job EXCEPT !.done = @ + 1, !.committed = TRUE]
Kept == UNCHANGED <<category, sequence, approved, review, deviceVars>>

SourceUnchanged == source \cup replica \cup files = job.plan.items

\* The source is erased once: when its receipt names this plan the step was done
\* before the stop; otherwise the source must still be what was reviewed.
AskStepSource ==
    /\ category = "conversations" /\ Pending("source") /\ Kept
    /\ \/ job.committed /\ Done /\ UNCHANGED copyVars
       \/ ~ job.committed /\ SourceUnchanged /\ EraseSource
          /\ \/ Done
             \/ job' = [job EXCEPT !.committed = TRUE]   \* stop before the journal is saved
ReadingStepSource ==
    /\ category = "reading" /\ Pending("source") /\ Kept
    /\ \/ job.committed /\ Done /\ UNCHANGED copyVars
       \/ ~ job.committed /\ SourceUnchanged /\ EraseSource
          /\ \/ Done
             \/ job' = [job EXCEPT !.committed = TRUE]

AskStepReplica ==
    /\ category = "conversations" /\ Pending("replica") /\ Kept
    /\ replica' = replica \ job.plan.items /\ barrier' = barrier \cup job.plan.items
    /\ Done /\ UNCHANGED <<source, files, derived, version, created>>
ReadingStepReplica ==
    /\ category = "reading" /\ Pending("replica") /\ Kept
    /\ replica' = replica \ barrier
    /\ Done /\ UNCHANGED <<source, files, derived, version, barrier, created>>

\* The reviewed files go one by one; one that changed since the review stops the step.
Unchanged == version = job.plan.version
FilesGo(c) ==
    /\ category = c /\ Pending("files") /\ Unchanged /\ Kept
    /\ \/ files' = {} /\ Done
       \/ UNCHANGED job /\ \E i \in files : files' = files \ {i}   \* a stop in the middle
    /\ UNCHANGED <<source, replica, derived, version, barrier, created>>
AskStepBackups == FilesGo("conversations")
ReadingStepBackups == FilesGo("reading")
LibraryResume == FilesGo("documents")
FeedResume == FilesGo("friend_feed")
OfflineFinish == FilesGo("offline")
CardsRewrite == FilesGo("friend_cards")
StepFiles == AskStepBackups \/ ReadingStepBackups \/ LibraryResume \/ FeedResume
             \/ OfflineFinish \/ CardsRewrite

\* The owner reviews what is left and approves it: the plan takes the new digests.
ApproveLeft(c) ==
    /\ category = c /\ Pending("files") /\ ~ Unchanged /\ Kept
    /\ job' = [job EXCEPT !.plan.version = version]
    /\ UNCHANGED copyVars
AskApproveBackups == ApproveLeft("conversations")
ReadingApproveBackups == ApproveLeft("reading")
LibraryApproveFiles == ApproveLeft("documents")
FeedApproveBackups == ApproveLeft("friend_feed")
OfflineApproveRemaining == ApproveLeft("offline")
CardsApprove == ApproveLeft("friend_cards")
ApproveFiles == AskApproveBackups \/ ReadingApproveBackups \/ LibraryApproveFiles
                \/ FeedApproveBackups \/ OfflineApproveRemaining \/ CardsApprove

StepDerived ==
    /\ Pending("derived") /\ Kept
    /\ derived' = source /\ Done
    /\ UNCHANGED <<source, replica, files, version, barrier, created>>

\* Only a plan that has not erased the source can be abandoned.
CancelUncommitted ==
    /\ category \in Journalled /\ ~ Ended(job) /\ ~ job.committed /\ job.done = 0
    /\ job' = [job EXCEPT !.cancelled = TRUE]
    /\ UNCHANGED <<category, copyVars, sequence, approved, review, deviceVars>>

LocalBegin == Begin(review) /\ UNCHANGED deviceVars

Cleanup ==
    \/ Preview \/ LocalBegin \/ AskStepSource \/ ReadingStepSource \/ AskStepReplica
    \/ ReadingStepReplica \/ StepFiles \/ ApproveFiles \/ StepDerived \/ CancelUncommitted

----------------------------------------------------------------------------
(* The request of the other device.                                              *)

LocalVars == <<category, copyVars, sequence, approved, review, job>>
Final == {"confirmed", "rejected"}

\* The other device asks, and keeps asking until it has a final answer.
BeginRequest ==
    /\ request = "none" /\ request' = "queued"
    /\ UNCHANGED <<LocalVars, incoming, reply, epoch, approver>>

\* receive: the request is recorded once and never erases anything; the answer
\* is the durable state, sealed for the current policy.
Receive ==
    /\ request \notin Final \cup {"none"}
    /\ incoming.state = "none" \/ incoming.epoch = epoch
    /\ incoming' = IF incoming.state = "none"
                   THEN [state |-> "awaiting_owner", epoch |-> epoch, token |-> NoReview] ELSE incoming
    /\ reply' = [state |-> incoming'.state, epoch |-> epoch]
    /\ UNCHANGED <<LocalVars, request, epoch, approver>>

\* exchange: the answer counts only under the policy of the request, and never
\* replaces a final answer.
Exchange ==
    /\ reply # NoReview /\ reply' = NoReview
    /\ request' = IF request \in Final THEN request
                  ELSE IF reply.epoch = epoch THEN reply.state ELSE "policy_changed"
    /\ UNCHANGED <<LocalVars, incoming, epoch, approver>>
ExchangeLost ==
    /\ reply # NoReview /\ reply' = NoReview
    /\ request' = IF request \in Final THEN request ELSE "unconfirmed"
    /\ UNCHANGED <<LocalVars, incoming, epoch, approver>>

\* The two devices pair again or change what they share.
ChangePolicy ==
    /\ epoch < MaxEpoch /\ epoch' = epoch + 1
    /\ UNCHANGED <<LocalVars, incoming, request, reply, approver>>

\* preview and approve: the owner's decision binds the review that was shown.
PreviewRequest ==
    /\ incoming.state = "awaiting_owner" /\ incoming.epoch = epoch /\ Ended(job)
    /\ incoming' = [incoming EXCEPT !.token = Plan]
    /\ UNCHANGED <<LocalVars, request, reply, epoch, approver>>
Decide ==
    /\ approver = "idle" /\ incoming.state \in {"awaiting_owner", "approved", "partial"}
    /\ incoming.epoch = epoch /\ incoming.token # NoReview
    /\ incoming' = [incoming EXCEPT !.state = "approved"] /\ approver' = "executing"
    /\ UNCHANGED <<LocalVars, request, reply, epoch>>

\* The adapter begins the reviewed cleanup, or goes on with it.
Execute ==
    /\ approver = "executing" /\ Begin(incoming.token)
    /\ UNCHANGED deviceVars
Ours == job # NoJob /\ job.plan.sequence = incoming.token.sequence

OursOrIncomplete == Ours   \* mutant: an unfinished cleanup is confirmed
Executed == Ours /\ Complete(job)

\* The completed cleanup is confirmed unless the owner rejected it meanwhile; a
\* failure, or a policy that changed, leaves it partial.
Finish ==
    /\ approver = "executing" /\ approver' = "idle"
    /\ \/ Executed /\ incoming.epoch = epoch
          /\ incoming' = IF incoming.state = "rejected" THEN incoming
                         ELSE [incoming EXCEPT !.state = "confirmed"]
       \/ incoming' = IF incoming.state \in Final THEN incoming
                      ELSE [incoming EXCEPT !.state = "partial"]
    /\ UNCHANGED <<LocalVars, request, reply, epoch>>

Reject ==
    /\ incoming.state \notin {"none", "confirmed"} /\ incoming.epoch = epoch
    /\ incoming' = [incoming EXCEPT !.state = "rejected"]
    /\ UNCHANGED <<LocalVars, request, reply, epoch, approver>>

Device == BeginRequest \/ Receive \/ Exchange \/ ExchangeLost \/ ChangePolicy
          \/ PreviewRequest \/ Decide \/ Execute \/ Finish \/ Reject

Next == Cleanup \/ Device \/ LeaveCopy \/ \E i \in Items : Create(i) \/ ReceiveStale(i)

----------------------------------------------------------------------------
(* A completed cleanup has removed every reviewed record from every copy, and no *)
(* stale message, leftover file or restart brings one back.                      *)
CompleteIsErased ==
    Complete(job) => job.plan.items \cap (source \cup replica \cup files \cup derived) = {}

(* Only what the owner reviewed is erased: a record made after the review is     *)
(* still there, and a cancelled cleanup erased nothing.                          *)
OnlyReviewedErased ==
    /\ barrier \subseteq approved /\ created \subseteq source \cup barrier
    /\ job # NoJob /\ job.cancelled => job.plan.items \cap barrier = {}

\* What holds of a cleanup at every step, over stops and changed reviews (cleanup.py).
ErasureSound == CompleteIsErased /\ OnlyReviewedErased

(* The other device is told "confirmed" only for a cleanup the owner approved    *)
(* and that is complete, whatever is rejected, resumed, lost or re-paired in     *)
(* between.                                                                      *)
ConfirmedIsErased ==
    "confirmed" \in {request, incoming.state} =>
        /\ incoming.token # NoReview
        /\ sequence >= incoming.token.sequence
        /\ sequence = incoming.token.sequence => Complete(job)
==============================================================================
