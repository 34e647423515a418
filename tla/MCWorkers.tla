--------------------------------- MODULE MCWorkers ---------------------------------
(* The loops a node runs beside its requests, on small instances: the mailbox    *)
(* client and the Ask worker beside the thread of one LLM order (LlmOrders).     *)
(* They share no state, so a behaviour is of one of them and the others stand    *)
(* still.                                                                        *)
EXTENDS LlmOrders

CONSTANTS
    \* a model value
    Free,
    \* the instance of AskRyn
    Convs, Tasks, MaxActive, MaxStops

VARIABLES
    component,   \* the component this behaviour is of
    box, tombs, expired, nonceKnown, request, phase, batch, pendingAcks, seen, attempts, disk, changed,
    deposited, handled, given, forgot, mailCrashes,
    convs, deleted, migrated, runs, orders, askWorker, submits, acked, stops

Two == {"one", "two"}
OneSender == [m \in Two |-> "friend"]

Mail == INSTANCE Mailbox WITH Msgs <- Two, Sender <- OneSender, MaxPending <- 2, MaxPendingSender <- 2, MaxTombstones <- 1,
        PollLimit <- 1, MaxAttempts <- 2, SeenCapacity <- 1, MaxCrashes <- 1, MaxHandled <- 2, crashes <-
        mailCrashes
Ask == INSTANCE AskRyn WITH worker <- askWorker

\* A component that is not the one looked at stands still in one state; for that of
\* LlmOrders it is the state it starts in.
Off == "off"
orderState == <<order, pending, dispatched, hold, up, worker, route, answer, canceller, early, requests, replies,
        cancelSent, settlementSent, task, response, handler, earlyCancel, cancelling, earned, inferences,
        crashes, restarts>>
mailState == <<box, tombs, expired, nonceKnown, request, phase, batch, pendingAcks, seen, attempts, disk, changed,
        deposited, handled, given, forgot, mailCrashes>>
askState == <<convs, deleted, migrated, runs, orders, askWorker, submits, acked, stops>>
orderOff == Init
mailOff == box = Off /\ tombs = Off /\ expired = Off /\ nonceKnown = Off /\ request = Off /\ phase = Off /\ batch =
    Off /\ pendingAcks = Off /\ seen = Off /\ attempts = Off /\ disk = Off /\ changed = Off /\ deposited =
    Off /\ handled = Off /\ given = Off /\ forgot = Off /\ mailCrashes = Off
askOff == convs = Off /\ deleted = Off /\ migrated = Off /\ runs = Off /\ orders = Off /\ askWorker = Off /\
    submits = Off /\ acked = Off /\ stops = Off
allVars == <<component, orderState, mailState, askState>>

MCInit ==
    \/ component = "order" /\ Init /\ mailOff /\ askOff
    \/ component = "mail" /\ Mail!Init /\ orderOff /\ askOff
    \/ component = "ask" /\ Ask!Init /\ orderOff /\ mailOff

OrderStep == component = "order" /\ Next
    /\ UNCHANGED <<component, mailState, askState>>
MailStep == component = "mail" /\ Mail!Next
    /\ UNCHANGED <<component, orderState, askState>>
AskStep == component = "ask" /\ Ask!Next
    /\ UNCHANGED <<component, orderState, mailState>>

MCNext == OrderStep \/ MailStep \/ AskStep

MCSpec == MCInit /\ [][MCNext]_allVars

\* A loop that is running goes on: the poll worker keeps polling and is answered when
\* it asks often enough; the Ask worker is scheduled, takes every run that stays
\* claimable and reads every status that stays readable; orders end at their timeouts;
\* the thread of an order, a cancellation and the recovery at start run on. Nothing is
\* assumed of a provider or of the owner.
MailFairness ==
    /\ SF_mailState(component = "mail" /\ Mail!PollAnswered)
    /\ WF_mailState(component = "mail" /\ (Mail!DropReplay \/ Mail!Reject \/ Mail!Retry \/ Mail!Complete))
    /\ WF_mailState(component = "mail" /\ Mail!EndBatch)

AskFairness ==
    /\ WF_askState(component = "ask" /\ Ask!Steps)
    /\ \A t \in Tasks :
         /\ SF_askState(component = "ask" /\ Ask!Claim(t))
         /\ SF_askState(component = "ask" /\ Ask!Check /\ askWorker.task = t)
         /\ WF_askState(component = "ask" /\ Ask!OrderEnds(t))

OrderFairness ==
    /\ WF_orderState(component = "order" /\ ~At("idle") /\ Work)
    /\ WF_orderState(component = "order" /\ canceller # "idle" /\ Cancel)
    /\ WF_orderState(component = "order" /\ Recover)

MCFairSpec == MCSpec /\ MailFairness /\ AskFairness /\ OrderFairness

-----------------------------------------------------------------------------
(* Every envelope a registry accepted is handled, given up or expired before it   *)
(* is gone, and its handler runs once as long as the client remembers it, with    *)
(* crashes of both sides, lost and replayed polls and dropped tombstones          *)
(* (mailbox_store.py, mailbox_client.py).                                         *)
Delivery == component = "mail" => Mail!Delivery

(* An Ask run is submitted at most once, its result is released only when it is   *)
(* archived, and a deleted conversation stays deleted (ask_ryn/runs.py).          *)
AskRunsSafe == component = "ask" => Ask!AskRunsSafe

\* Work that was begun, and work that is over. The two messages, and the two runs, are
\* interchangeable, so one of each stands for both.
Begun ==
    CASE component = "mail" -> Mail!InBox("one")
      [] component = "ask" -> runs["one"].state = "queued"
      [] component = "order" -> order = "created"
      [] OTHER -> FALSE

Finished ==
    CASE component = "mail" -> ~Mail!InBox("one")
      [] component = "ask" -> runs["one"].state \in Ask!Terminal
      [] component = "order" -> Ended
      [] OTHER -> TRUE

(* What is begun ends: an envelope at the head of the box leaves it (comment in   *)
(* _dispatch), a queued Ask run becomes terminal wherever the node stopped, and a *)
(* claimed order ends whatever provider, routes and owner do, unless the start    *)
(* fails or the balance refused the hold.                                         *)
WorkEnds == Begun ~> Finished

==============================================================================
