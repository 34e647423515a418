---------------------------------- MODULE MCModels ----------------------------------
(* The models of a node and what it keeps of their work, on small instances: the *)
(* setup and the files of local models, their answers, the results of LLM tasks, *)
(* and the digest. They share no state, so a behaviour is of one of them and the *)
(* others stand still.                                                           *)

VARIABLES
    component,   \* the component this behaviour is of
    manifest, settings, journal, job, setup, cancelled, server, pidfile, manager, publish, good, lost,
    stale, trouble,
    native, disk, model, worker, process, fetch, part, final, install, marker, files, overlapped,
    filesTrouble,
    holder, answer, call, answersCancelled, cancel, asked, calls, codex,
    sources, items, digestMarks, watched, digest, hidden, page, cycle, busy, owner, owed, noticed, gone,
    removals, spent, events, before,
    now, retention, record, entry, thread, resultsWorker, past, budget, results, sessions, serving, handler,
    loop, task, memory, runs, resultsTrouble

Operations == [p1 |-> "p2p", r1 |-> "relay", s1 |-> "settlement"]

Setup == INSTANCE ModelSetup WITH MaxSetups <- 2, MaxTrouble <- 1
Files == INSTANCE ModelFiles WITH Models <- {1, 2}, Installers <- {"setup", "update"}, Size <- 2, MaxActive <- 2, MaxTrouble <- 2,
        trouble <- filesTrouble
Answers == INSTANCE ModelAnswer WITH Requests <- {"p", "q"}, Pieces <- 2, Kinds <- {"http", "claude", "codex"}, MaxCalls <- 2, Events <-
        3, QueueSize <- 2, PendingSize <- 2, cancelled <- answersCancelled
Digest == INSTANCE DigestFiles WITH Builtins <- {"arxiv"}, Feeds <- {}, Cycles <- {"loop", "manual"}, MaxItems <- 1, MaxLinks <- 2,
        MaxPages <- 2, MaxCycles <- 2, MaxRequests <- 2, Contents <- {"a", "b"}, Actions <- {"more", "less",
        "neutral"}, MaxEvents <- 4, state <- digestMarks
OwnFeeds == INSTANCE DigestFiles WITH Builtins <- {}, Feeds <- {"feed"}, Cycles <- {"loop", "manual"}, MaxItems <- 1, MaxLinks <- 2,
        MaxPages <- 2, MaxCycles <- 2, MaxRequests <- 2, Contents <- {"a", "b"}, Actions <- {"more", "less",
        "neutral"}, MaxEvents <- 4, state <- digestMarks
Results == INSTANCE TaskResults WITH Sealed <- 1, Retention <- 2, EntryLife <- 2, Grace <- 3, ProviderKeep <- 2, MemoryLife <- 1, Orders
        <- {"p1", "r1", "s1"}, Operation <- Operations, MaxTime <- 3, MaxChanges <- 2, MaxTrouble <- 1,
        worker <- resultsWorker, trouble <- resultsTrouble
Posted == INSTANCE TaskResults WITH Sealed <- 1, Retention <- 2, EntryLife <- 2, Grace <- 3, ProviderKeep <- 2, MemoryLife <- 1, Orders
        <- {"p1", "r1", "s1"}, Operation <- Operations, MaxTime <- 2, MaxChanges <- 2, MaxTrouble <- 1,
        worker <- resultsWorker, trouble <- resultsTrouble

\* A component that is not the one looked at stands still in one state.
Off == "off"
setupState == <<manifest, settings, journal, job, setup, cancelled, server, pidfile, manager, publish, good, lost,
        stale, trouble>>
filesState == <<native, disk, model, worker, process, fetch, part, final, install, marker, files, overlapped,
        filesTrouble>>
answersState == <<holder, answer, call, answersCancelled, cancel, asked, calls, codex>>
digestState == <<sources, items, digestMarks, watched, digest, hidden, page, cycle, busy, owner, owed, noticed, gone,
        removals, spent, events, before>>
resultsState == <<now, retention, record, entry, thread, resultsWorker, past, budget, results, sessions, serving,
        handler, loop, task, memory, runs, resultsTrouble>>
setupOff == manifest = Off /\ settings = Off /\ journal = Off /\ job = Off /\ setup = Off /\ cancelled = Off /\
    server = Off /\ pidfile = Off /\ manager = Off /\ publish = Off /\ good = Off /\ lost = Off /\ stale =
    Off /\ trouble = Off
filesOff == native = Off /\ disk = Off /\ model = Off /\ worker = Off /\ process = Off /\ fetch = Off /\ part = Off
    /\ final = Off /\ install = Off /\ marker = Off /\ files = Off /\ overlapped = Off /\ filesTrouble = Off
answersOff == holder = Off /\ answer = Off /\ call = Off /\ answersCancelled = Off /\ cancel = Off /\ asked = Off /\
    calls = Off /\ codex = Off
digestOff == sources = Off /\ items = Off /\ digestMarks = Off /\ watched = Off /\ digest = Off /\ hidden = Off /\
    page = Off /\ cycle = Off /\ busy = Off /\ owner = Off /\ owed = Off /\ noticed = Off /\ gone = Off /\
    removals = Off /\ spent = Off /\ events = Off /\ before = Off
resultsOff == now = Off /\ retention = Off /\ record = Off /\ entry = Off /\ thread = Off /\ resultsWorker = Off /\
    past = Off /\ budget = Off /\ results = Off /\ sessions = Off /\ serving = Off /\ handler = Off /\ loop
    = Off /\ task = Off /\ memory = Off /\ runs = Off /\ resultsTrouble = Off
vars == <<component, setupState, filesState, answersState, digestState, resultsState>>

Init ==
    \/ component = "setup" /\ Setup!Init /\ filesOff /\ answersOff /\ digestOff /\ resultsOff
    \/ component = "native" /\ Files!Init /\ setupOff /\ answersOff /\ digestOff /\ resultsOff
    \/ component = "fetch" /\ Files!Init /\ setupOff /\ answersOff /\ digestOff /\ resultsOff
    \/ component = "runtime" /\ Files!Init /\ setupOff /\ answersOff /\ digestOff /\ resultsOff
    \/ component = "serving" /\ Answers!Init /\ setupOff /\ filesOff /\ digestOff /\ resultsOff
    \/ component = "calling" /\ Answers!Init /\ setupOff /\ filesOff /\ digestOff /\ resultsOff
    \/ component = "codex" /\ Answers!Init /\ setupOff /\ filesOff /\ digestOff /\ resultsOff
    \/ component = "digest" /\ Digest!Init /\ setupOff /\ filesOff /\ answersOff /\ resultsOff
    \/ component = "feeds" /\ OwnFeeds!Init /\ setupOff /\ filesOff /\ answersOff /\ resultsOff
    \/ component = "profile" /\ Digest!Init /\ setupOff /\ filesOff /\ answersOff /\ resultsOff
    \/ component = "answering" /\ Results!Init /\ setupOff /\ filesOff /\ answersOff /\ digestOff
    \/ component = "posted" /\ Posted!Init /\ setupOff /\ filesOff /\ answersOff /\ digestOff

SetupStep == component = "setup" /\ Setup!Next
    /\ UNCHANGED <<component, filesState, answersState, digestState, resultsState>>
NativeStep == component = "native" /\ Files!NativeNext
    /\ UNCHANGED <<component, setupState, answersState, digestState, resultsState>>
FetchStep == component = "fetch" /\ Files!FetchNext
    /\ UNCHANGED <<component, setupState, answersState, digestState, resultsState>>
RuntimeStep == component = "runtime" /\ Files!RuntimeNext
    /\ UNCHANGED <<component, setupState, answersState, digestState, resultsState>>
ServingStep == component = "serving" /\ Answers!RuntimeNext
    /\ UNCHANGED <<component, setupState, filesState, digestState, resultsState>>
CallingStep == component = "calling" /\ Answers!CallNext
    /\ UNCHANGED <<component, setupState, filesState, digestState, resultsState>>
CodexStep == component = "codex" /\ Answers!CodexNext
    /\ UNCHANGED <<component, setupState, filesState, digestState, resultsState>>
DigestStep == component = "digest" /\ Digest!DigestNext
    /\ UNCHANGED <<component, setupState, filesState, answersState, resultsState>>
FeedsStep == component = "feeds" /\ OwnFeeds!DigestNext
    /\ UNCHANGED <<component, setupState, filesState, answersState, resultsState>>
ProfileStep == component = "profile" /\ Digest!ProfileNext
    /\ UNCHANGED <<component, setupState, filesState, answersState, resultsState>>
AnsweringStep == component = "answering" /\ Results!ResultNext
    /\ UNCHANGED <<component, setupState, filesState, answersState, digestState>>
PostedStep == component = "posted" /\ Posted!WorkNext
    /\ UNCHANGED <<component, setupState, filesState, answersState, digestState>>

Next == SetupStep \/ NativeStep \/ FetchStep \/ RuntimeStep \/ ServingStep \/ CallingStep \/ CodexStep \/
    DigestStep \/ FeedsStep \/ ProfileStep \/ AnsweringStep \/ PostedStep

Spec == Init /\ [][Next]_vars

-----------------------------------------------------------------------------
(* A node that serves a model has the files and the configuration of one setup:   *)
(* a crash or a cancellation in the middle leaves the old or the new one, files   *)
(* that are marked complete are whole, and a switch cuts no request               *)
(* (llm_package/setup_recovery.py, lifecycle.py, runtime_native_install.py).      *)
ModelsWhole ==
    [][/\ component = "setup" => Setup!SetupSound'
       /\ component \in {"native", "fetch", "runtime"} => Files!FilesInv' /\ Files!NoRequestIsCut]_<<setupState, filesState>>

(* A returned answer is the whole answer of its own request, one generation runs  *)
(* at a time, and a cancelled call leaves nothing behind (llm_package adapters).  *)
AnswersAreWhole == component \in {"serving", "calling", "codex"} => Answers!AnswersAreWhole

(* What the digest promised is stored, what was noticed stays known, a removed    *)
(* source stays removed, and an undone preference is restored                     *)
(* (services/digest.py, recommendation profile).                                  *)
DigestSound ==
    /\ component \in {"digest", "profile"} => Digest!DigestSound
    /\ component = "feeds" => OwnFeeds!DigestSound

(* A paid answer is held until it is archived or its grace is over; a task is run *)
(* once however often its request is delivered, and an offer is served by one     *)
(* thread (llm_package/task_protocol.py, routes.py).                              *)
ResultsSound ==
    /\ component = "answering" => Results!ResultsSound
    /\ component = "posted" => Posted!ResultsSound

==============================================================================
