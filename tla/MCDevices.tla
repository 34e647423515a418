--------------------------------- MODULE MCDevices ---------------------------------
(* What the devices of one owner and one node keep, on small instances: erasure, *)
(* replicas, pairing, offline copies, the personal space, updates, and the       *)
(* supervisor of the node's background tasks. They share no state, so a          *)
(* behaviour is of one of them and the others stand still.                       *)
EXTENDS Naturals, TLC

CONSTANTS
    \* model values
    NoJob, NoReview, Deleted, NoReceipt, NoAnswer, NoBundle, NoRecord, NoRequest, NoReply, NoToken,
    \* the instance of Erasure
    Items, MaxJobs, MaxVersion, MaxEpoch,
    \* the instance of SyncRecords
    Actors, Values, MaxCounter, MaxWires,
    \* the instance of DevicePairing
    Pairs, MaxPolicies, MaxBatches,
    \* the instance of OfflineReading
    Images, Downloaders, MaxDownloads, MaxClaims,
    \* the two instances of PersonalSpace
    Coordinator, Newcomers, Elders, Tokens, Lease, JoinLife, ActLife, InviteLife, ReplyLife, MaxMembers, MaxInvites,
    MaxTime, MaxRequests, MaxRevision, MaxOldRequests, MaxOldRevision,
    \* the instance of BackgroundWorkers
    Tasks, Timers, MaxGen,
    \* the instance of NodeUpdates
    Versions, Broken, Crashing, Updaters, MaxAttempts, MaxTrouble

VARIABLES
    component,   \* the component this behaviour is of
    category, source, replica, files, derived, version, barrier, created, approved, sequence, review, job,
    incoming, request, reply, epoch, approver,
    scope, record, projected, wires, replies, receipt, context,
    invite, expired, row, pairingWires, answer, batches, received, confirmed,
    offlineRow, jobs, tokens, bundles, worker, service, sweep, plan,
    clock, space, invites, spaceReplies, backup, held, waiting, reading, policy, posted, results, sent,
    issued, activeAt, joined, verdict, lost,
    gen, started, supervisedTask, slot, timer, timerSlot, strayed,
    latest, installed, wheels, state, node, updateJob, trial, served, exposed, trouble

ASSUME NoJobAssumption ==
    NoJob \notin [plan : [items : SUBSET Items, version : Nat, sequence : Nat], done : Nat,
                  cancelled : BOOLEAN, committed : BOOLEAN]
ASSUME AttemptsAssumption == MaxAttempts \in Nat
ASSUME DownloadsAssumption == MaxDownloads \in Nat

\* A reply is kept for as long as its request is worth answering, at least.
ASSUME SpaceAssumption ==
    /\ {Lease, JoinLife, ActLife, InviteLife, ReplyLife, MaxRequests, MaxOldRequests} \subseteq Nat
    /\ JoinLife <= ReplyLife /\ ActLife <= ReplyLife /\ NoToken \notin Tokens

\* The devices that join the space are alike.
Alike == Permutations(Newcomers)

\* A space that devices join, and one with managers from before that have models to share.
New == [devices |-> Newcomers, before |-> [d \in Newcomers |-> "none"], providers |-> {}, requests |-> MaxRequests,
        revisions |-> MaxRevision]
Old == [devices |-> Elders, before |-> [d \in Elders |-> "manager"], providers |-> Elders, requests |-> MaxOldRequests,
        revisions |-> MaxOldRevision]

Erase == INSTANCE Erasure
Sync == INSTANCE SyncRecords
Pairing == INSTANCE DevicePairing WITH MaxRevision <- MaxPolicies, wires <- pairingWires
Offline == INSTANCE OfflineReading WITH Workers <- Downloaders, MaxJobs <- MaxDownloads, MaxTokens <- MaxClaims,
        row <- offlineRow
Space(s) == INSTANCE PersonalSpace WITH Devices <- s.devices, Before <- s.before, Providers <- s.providers,
        MaxRequests <- s.requests, MaxRevision <- s.revisions, replies <- spaceReplies
Supervisor == INSTANCE BackgroundWorkers WITH task <- supervisedTask
Update == INSTANCE NodeUpdates WITH Jobs <- Updaters, job <- updateJob

\* A component that is not the one looked at stands still in one state.
Off == "off"
erasureState == <<category, source, replica, files, derived, version, barrier, created, approved, sequence, review,
        job, incoming, request, reply, epoch, approver>>
syncState == <<scope, record, projected, wires, replies, receipt, context>>
pairingState == <<invite, expired, row, pairingWires, answer, batches, received, confirmed>>
offlineState == <<offlineRow, jobs, tokens, bundles, worker, service, sweep, plan>>
spaceState == <<clock, space, invites, spaceReplies, backup, held, waiting, reading, policy, posted, results, sent,
        issued, activeAt, joined, verdict, lost>>
supervisorState == <<gen, started, supervisedTask, slot, timer, timerSlot, strayed>>
updateState == <<latest, installed, wheels, state, node, updateJob, trial, served, exposed, trouble>>
erasureOff == category = Off /\ source = Off /\ replica = Off /\ files = Off /\ derived = Off /\ version = Off /\
    barrier = Off /\ created = Off /\ approved = Off /\ sequence = Off /\ review = Off /\ job = Off /\
    incoming = Off /\ request = Off /\ reply = Off /\ epoch = Off /\ approver = Off
syncOff == scope = Off /\ record = Off /\ projected = Off /\ wires = Off /\ replies = Off /\ receipt = Off /\
    context = Off
pairingOff == invite = Off /\ expired = Off /\ row = Off /\ pairingWires = Off /\ answer = Off /\ batches = Off /\
    received = Off /\ confirmed = Off
offlineOff == offlineRow = Off /\ jobs = Off /\ tokens = Off /\ bundles = Off /\ worker = Off /\ service = Off /\
    sweep = Off /\ plan = Off
spaceOff == clock = Off /\ space = Off /\ invites = Off /\ spaceReplies = Off /\ backup = Off /\ held = Off /\
    waiting = Off /\ reading = Off /\ policy = Off /\ posted = Off /\ results = Off /\ sent = Off /\ issued
    = Off /\ activeAt = Off /\ joined = Off /\ verdict = Off /\ lost = Off
supervisorOff == gen = Off /\ started = Off /\ supervisedTask = Off /\ slot = Off /\ timer = Off /\ timerSlot = Off /\
    strayed = Off
updateOff == latest = Off /\ installed = Off /\ wheels = Off /\ state = Off /\ node = Off /\ updateJob = Off /\ trial
    = Off /\ served = Off /\ exposed = Off /\ trouble = Off
vars == <<component, erasureState, syncState, pairingState, offlineState, spaceState, supervisorState, updateState>>

Init ==
    \/ component = "erasure" /\ Erase!Init /\ syncOff /\ pairingOff /\ offlineOff /\ spaceOff /\ supervisorOff /\ updateOff
    \/ component = "sync" /\ Sync!Init /\ erasureOff /\ pairingOff /\ offlineOff /\ spaceOff /\ supervisorOff /\ updateOff
    \/ component = "pairing" /\ Pairing!Init /\ erasureOff /\ syncOff /\ offlineOff /\ spaceOff /\ supervisorOff /\ updateOff
    \/ component = "offline" /\ Offline!Init /\ erasureOff /\ syncOff /\ pairingOff /\ spaceOff /\ supervisorOff /\ updateOff
    \/ component = "space" /\ Space(New)!Init /\ erasureOff /\ syncOff /\ pairingOff /\ offlineOff /\ supervisorOff /\ updateOff
    \/ component = "oldSpace" /\ Space(Old)!Init /\ erasureOff /\ syncOff /\ pairingOff /\ offlineOff /\ supervisorOff /\ updateOff
    \/ component = "supervisor" /\ Supervisor!Init /\ erasureOff /\ syncOff /\ pairingOff /\ offlineOff /\ spaceOff /\ updateOff
    \/ component = "update" /\ Update!Init /\ erasureOff /\ syncOff /\ pairingOff /\ offlineOff /\ spaceOff /\ supervisorOff

ErasureStep == component = "erasure" /\ Erase!Next
    /\ UNCHANGED <<component, syncState, pairingState, offlineState, spaceState, supervisorState, updateState>>
SyncStep == component = "sync" /\ Sync!Next
    /\ UNCHANGED <<component, erasureState, pairingState, offlineState, spaceState, supervisorState, updateState>>
PairingStep == component = "pairing" /\ Pairing!Next
    /\ UNCHANGED <<component, erasureState, syncState, offlineState, spaceState, supervisorState, updateState>>
OfflineStep == component = "offline" /\ Offline!Next
    /\ UNCHANGED <<component, erasureState, syncState, pairingState, spaceState, supervisorState, updateState>>
SpaceStep == component = "space" /\ Space(New)!Next
    /\ UNCHANGED <<component, erasureState, syncState, pairingState, offlineState, supervisorState, updateState>>
OldSpaceStep == component = "oldSpace" /\ Space(Old)!Next
    /\ UNCHANGED <<component, erasureState, syncState, pairingState, offlineState, supervisorState, updateState>>
SupervisorStep == component = "supervisor" /\ Supervisor!Next
    /\ UNCHANGED <<component, erasureState, syncState, pairingState, offlineState, spaceState, updateState>>
UpdateStep == component = "update" /\ Update!Next
    /\ UNCHANGED <<component, erasureState, syncState, pairingState, offlineState, spaceState, supervisorState>>

Next == ErasureStep \/ SyncStep \/ PairingStep \/ OfflineStep \/ SpaceStep \/ OldSpaceStep \/ SupervisorStep \/
    UpdateStep

Spec == Init /\ [][Next]_vars

-----------------------------------------------------------------------------
(* Only what the owner reviewed is erased, what is called complete is erased      *)
(* everywhere, and the other device is told "confirmed" only for an approved and  *)
(* complete cleanup (device_erasure/service.py, adapters.py).                     *)
ErasureSound == component = "erasure" => Erase!ErasureSound /\ Erase!ConfirmedIsErased

(* Two devices that exchanged everything hold the same, no value is lost or       *)
(* revived by late or repeated snapshots, and a receipt means delivery; a pair    *)
(* exists by the approval of both, a removal holds, and a policy is never ahead   *)
(* of its owner's (device_sync).                                                  *)
DevicesAgree ==
    /\ component = "sync" => Sync!SyncSound
    /\ component = "pairing" => Pairing!PairingSound

(* The copy shown offline is whole and is only replaced by a newer one that was   *)
(* verified, with superseded workers, sweeps and clearings (offline_reading).     *)
OfflineSound == [][component = "offline" => Offline!CopyIsWhole' /\ Offline!CopiesAdvance]_offlineState

(* A removed device is served no longer than its lease, an invitation admits one  *)
(* device, and a request is decided once (personal_space.py).                     *)
SpaceSound ==
    /\ component = "space" => Space(New)!SpaceSound
    /\ component = "oldSpace" => Space(Old)!SpaceSound

(* A new version is tried a bounded number of times and is rolled back or proven  *)
(* before it stays (services/updater.py, update_state.py).                        *)
UpdatesSound == component = "update" => Update!UpdatesSound

(* The supervisor keeps one live task per worker as long as no restart timer lost *)
(* its slot (background_workers.py).                                              *)
OneTaskUnlessStrayed == component = "supervisor" => Supervisor!OneTaskUnlessStrayed

==============================================================================
