------------------------------ MODULE PeerTransit ------------------------------
(* A file sent in verified segments to a target peer (peer_transit_service.py):   *)
(* directly, and when that fails through an ordinary transit peer under a new     *)
(* transfer.  Each attempt at a segment is a session of its own; the source may   *)
(* give one up while the target still serves it.  The target appends to a partial *)
(* file, checkpoints every verified segment, and renames the whole file.  Its     *)
(* process may stop at any point.                                                 *)
EXTENDS Naturals, FiniteSets

CONSTANTS Segments,       \* the segments of the file, 1..n
          MaxAttempts,    \* max_resume_attempts
          MaxConcurrent,  \* the worker's max_concurrent
          MaxCrashes,     \* bound: times the target's process stops
          MaxStale        \* bound: sessions still running that the source gave up

VARIABLES source,    \* the sender: transfer, segment, attempt, stage, and what it was told
          session,   \* session[k]: how far relay and target are with the attempt k
          claims,    \* transfers a target session holds
          part,      \* part[t]: the partial file: whole segments, and torn bytes after them
          checkpoint,\* checkpoint[t]: the resume record, or none
          stored,    \* stored[t]: the segments in the inbox's file, 0 without one
          crashes

transitVars == <<source, session, claims, part, checkpoint, stored, crashes>>

Transfers == {"direct", "transit"}
Keys == Transfers \X Segments \X (0..MaxAttempts)
Last == Cardinality(Segments)
NoPart == [exists |-> FALSE, length |-> 0, torn |-> FALSE]
NoCheckpoint == [exists |-> FALSE, offset |-> 0, complete |-> FALSE, segments |-> {}]
NoSession == [relay |-> "none", target |-> "none", duplicate |-> FALSE]
Sending(t, n, a) == [transfer |-> t, segment |-> n, attempt |-> a, stage |-> "idle", told |-> {}]

Init ==
    /\ \E t \in Transfers : source = Sending(t, 1, 0)
    /\ session = [k \in Keys |-> NoSession]
    /\ claims = {} /\ stored = [t \in Transfers |-> 0] /\ crashes = 0
    /\ part = [t \in Transfers |-> NoPart] /\ checkpoint = [t \in Transfers |-> NoCheckpoint]

Transfer(k) == k[1]
Segment(k) == k[2]
Awaited(k) == k = <<source.transfer, source.segment, source.attempt>> /\ source.stage = "waiting"
Target(k, stage) == session' = [session EXCEPT ![k].target = stage]
Serving == {k \in Keys : session[k].target \notin {"none", "pending"}}
diskVars == <<claims, part, checkpoint, stored>>

\* _poll_result: a result is read by the attempt it is for, if that still waits.
Tells(k, what) == source' = IF Awaited(k) THEN [source EXCEPT !.told = @ \cup {what}] ELSE source

----------------------------------------------------------------------------
(* The source and the transit peer.                                              *)

\* _send_direct_segment_async, _send_transit_segment_async: a new session, and a
\* work order for the target or for the transit peer.
SendSegment ==
    LET k == <<source.transfer, source.segment, source.attempt>>
    IN  /\ source.stage = "idle"
        /\ session' = [session EXCEPT ![k] =
              IF source.transfer = "direct" THEN [NoSession EXCEPT !.target = "pending"]
              ELSE [NoSession EXCEPT !.relay = "pending"]]
        /\ source' = [source EXCEPT !.stage = "waiting"]
        /\ UNCHANGED <<diskVars, crashes>>

\* _serve_transit: the target's order first, then the source's answer; both legs
\* before a frame is forwarded; completed once the response stream went back.
ServeTransit(k) ==
    /\ \/ session[k].relay = "pending" /\ UNCHANGED source
          /\ session' = [session EXCEPT ![k].relay = "accepted", ![k].target = "pending"]
       \/ session[k].relay = "accepted" /\ session[k].target = "accepted" /\ UNCHANGED source
          /\ session' = [session EXCEPT ![k].relay = "running"]
       \/ session[k].relay = "forwarded" /\ Tells(k, "relay")
          /\ session' = [session EXCEPT ![k].relay = "none"]
       \/ session[k].relay # "none" /\ UNCHANGED source
          /\ session' = [session EXCEPT ![k].relay = "none"]
    /\ UNCHANGED <<diskVars, crashes>>

\* The receipt is checked against the segment, and the results of the transit
\* peer and of the target must both say completed.
Confirmations(t) == {"receipt", "target"} \cup (IF t = "transit" THEN {"relay"} ELSE {})
SegmentDone ==
    /\ source.stage = "waiting" /\ source.told = Confirmations(source.transfer)
    /\ source' = IF source.segment = Last THEN [source EXCEPT !.stage = "done"]
                 ELSE Sending(source.transfer, source.segment + 1, 0)
    /\ UNCHANGED <<session, diskVars, crashes>>

\* An attempt fails with an error that may be retried or not; a failed direct
\* transfer falls back to the transit peer, from the first segment
\* (_send_file_async, send_file_adaptive).  The session it was may go on.
AttemptFails ==
    /\ source.stage = "waiting"
    /\ Cardinality({k \in Keys : session[k] # NoSession}) <= MaxStale
    /\ \/ source.attempt < MaxAttempts
          /\ source' = Sending(source.transfer, source.segment, source.attempt + 1)
       \/ source.transfer = "direct" /\ source' = Sending("transit", 1, 0)
       \/ source' = [source EXCEPT !.stage = "failed"]
    /\ UNCHANGED <<session, diskVars, crashes>>

----------------------------------------------------------------------------
(* The target's sessions (_serve_target, _TargetFileSink).                       *)

\* serve_forever: an order is started once, and only while there is capacity.
Accept(k) ==
    /\ session[k].target = "pending" /\ Cardinality(Serving) < MaxConcurrent
    /\ Target(k, "accepted")
    /\ UNCHANGED <<source, diskVars, crashes>>

\* What the manifest is compared with: the resume record; without one, a stored
\* file counts as a complete record when this is the last segment.
Conflict(k) == ~ checkpoint[Transfer(k)].exists /\ stored[Transfer(k)] > 0 /\ Segment(k) # Last
Record(k) ==
    LET t == Transfer(k)
    IN  IF checkpoint[t].exists THEN checkpoint[t]
        ELSE IF stored[t] > 0 THEN [exists |-> TRUE, offset |-> Last, complete |-> TRUE, segments |-> {}]
        ELSE NoCheckpoint
Duplicate(k) ==
    LET r == Record(k)
    IN  IF r.offset # Segment(k) - 1
        THEN Segment(k) \in r.segments \/ (r.complete /\ Segment(k) = Last)
        ELSE r.complete
PartMissing(k) ==
    LET t == Transfer(k)
    IN  IF part[t].exists THEN part[t].length < Record(k).offset ELSE Record(k).offset > 0

\* _load_manifest: the claim is taken before any record is read.  A session that
\* cannot go on gives the claim back and leaves the files alone.
LoadManifest(k) ==
    LET t == Transfer(k)
        refused == Conflict(k) \/ (~ Duplicate(k) /\ (Record(k).offset # Segment(k) - 1 \/ PartMissing(k)))
    IN  /\ session[k].target = "accepted" /\ session[k].relay \in {"none", "running"}
        /\ IF t \in claims \/ refused THEN Target(k, "none") /\ UNCHANGED <<claims, part>>
           ELSE /\ claims' = claims \cup {t}
                /\ session' = [session EXCEPT ![k].target = "loaded", ![k].duplicate = Duplicate(k)]
                /\ part' = IF Duplicate(k) THEN part
                           ELSE [part EXCEPT ![t] = [exists |-> TRUE, length |-> Record(k).offset, torn |-> FALSE]]
        /\ UNCHANGED <<source, checkpoint, stored, crashes>>

\* write, until the final frame; finish checks size and hash of what was written.
Write(k) ==
    LET t == Transfer(k)
    IN  /\ session[k].target = "loaded"
        /\ Target(k, "written")
        /\ part' = IF session[k].duplicate THEN part ELSE [part EXCEPT ![t].length = @ + 1]
        /\ UNCHANGED <<source, claims, checkpoint, stored, crashes>>

\* finish: the last segment's file is renamed, and then the record is written.
Rename(k) ==
    LET t == Transfer(k)
    IN  /\ session[k].target = "written" /\ Segment(k) = Last /\ ~ session[k].duplicate
        /\ stored[t] = 0
        /\ stored' = [stored EXCEPT ![t] = part[t].length]
        /\ part' = [part EXCEPT ![t] = NoPart]
        /\ Target(k, "renamed")
        /\ UNCHANGED <<source, claims, checkpoint, crashes>>

Finish(k) ==
    LET t == Transfer(k)
    IN  /\ \/ session[k].target = "renamed"
           \/ session[k].target = "written" /\ (session[k].duplicate \/ Segment(k) # Last)
        /\ Target(k, "finished")
        /\ checkpoint' = IF session[k].duplicate THEN checkpoint
                         ELSE [checkpoint EXCEPT ![t] = [exists |-> TRUE, offset |-> Segment(k),
                                  complete |-> Segment(k) = Last, segments |-> @.segments \cup {Segment(k)}]]
        /\ UNCHANGED <<source, claims, part, stored, crashes>>

\* The encrypted receipt, through the transit peer's session if there is one; it
\* may be lost on its way.
SendReceipt(k) ==
    /\ session[k].target = "finished"
    /\ \/ Tells(k, "receipt")
          /\ \/ Transfer(k) = "direct" /\ Target(k, "receipted")
             \/ session[k].relay = "running"
                /\ session' = [session EXCEPT ![k].target = "receipted", ![k].relay = "forwarded"]
       \/ Target(k, "receipted") /\ UNCHANGED source
    /\ UNCHANGED <<diskVars, crashes>>

\* acknowledge_receipt, after the result is published: the record of a whole file
\* is not needed any more, the stored file answers a repeated last segment.
ForgetsAnyRecord(k) == TRUE    \* mutant: a partial file's record goes too
ForgetsRecord(k) == Segment(k) = Last
Completed(k) ==
    LET t == Transfer(k)
    IN  /\ session[k].target = "receipted"
        /\ Target(k, "none") /\ Tells(k, "target")
        /\ checkpoint' = IF ForgetsRecord(k) THEN [checkpoint EXCEPT ![t] = NoCheckpoint] ELSE checkpoint
        /\ claims' = claims \ {t}
        /\ UNCHANGED <<part, stored, crashes>>

\* abort: back to the last verified offset; nothing is left of a first segment.
Abort(k) ==
    LET t == Transfer(k)
        offset == Segment(k) - 1
        owns == session[k].target \in {"loaded", "written", "renamed"} /\ ~ session[k].duplicate
    IN  /\ k \in Serving
        /\ Target(k, "none")
        /\ claims' = IF session[k].target = "accepted" THEN claims ELSE claims \ {t}
        /\ part' = IF ~ owns \/ ~ part[t].exists THEN part
                   ELSE [part EXCEPT ![t] = IF offset = 0 THEN NoPart ELSE [@ EXCEPT !.length = offset, !.torn = FALSE]]
        /\ checkpoint' = IF owns /\ offset = 0 THEN [checkpoint EXCEPT ![t] = NoCheckpoint] ELSE checkpoint
        /\ UNCHANGED <<source, stored, crashes>>

\* The target's process stops: claims and sessions are gone, the files stay as
\* they are, with the bytes a session had begun to write.
Crash ==
    /\ crashes < MaxCrashes /\ Serving # {} /\ crashes' = crashes + 1
    /\ session' = [k \in Keys |-> IF k \in Serving THEN [session[k] EXCEPT !.target = "none"] ELSE session[k]]
    /\ claims' = {}
    /\ part' = [t \in Transfers |->
          IF part[t].exists /\ \E k \in Serving : Transfer(k) = t /\ session[k].target = "loaded" /\ ~ session[k].duplicate
          THEN [part[t] EXCEPT !.torn = TRUE] ELSE part[t]]
    /\ UNCHANGED <<source, checkpoint, stored>>

Next ==
    \/ SendSegment \/ SegmentDone \/ AttemptFails \/ Crash
    \/ \E k \in Keys : ServeTransit(k) \/ Accept(k) \/ LoadManifest(k) \/ Write(k) \/ Rename(k)
                       \/ Finish(k) \/ SendReceipt(k) \/ Completed(k) \/ Abort(k)

----------------------------------------------------------------------------
(* A transfer the source reports as sent is in the target's inbox, and a file in  *)
(* the inbox is whole, whatever was repeated, given up or cut off.                *)
StoredIsWhole ==
    /\ source.stage = "done" => stored[source.transfer] > 0
    /\ \A t \in Transfers : stored[t] \in {0, Last}

(* What the target confirmed can be continued from: the source's next segment is  *)
(* the one the target's record ends at, or was taken already, and the partial     *)
(* file holds what the record says.  The stop between the rename of the whole     *)
(* file and its record is the exception: the file is there, its record is behind. *)
Resumable ==
    /\ \A t \in Transfers :
          checkpoint[t].exists /\ ~ checkpoint[t].complete =>
              (part[t].exists /\ part[t].length >= checkpoint[t].offset) \/ stored[t] = Last
    /\ source.segment > 1 => stored[source.transfer] = Last
                             \/ (checkpoint[source.transfer].exists
                                 /\ checkpoint[source.transfer].offset >= source.segment - 1)

(* One session at a time writes a transfer's partial file.                        *)
OneWriter ==
    \A k, l \in Serving : k # l /\ Transfer(k) = Transfer(l) =>
        session[k].target = "accepted" \/ session[l].target = "accepted"

\* What holds of a transfer in every state, crashes between rename and checkpoint included.
TransferSound == StoredIsWhole /\ Resumable /\ OneWriter
==============================================================================
