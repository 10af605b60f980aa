---------------------------- MODULE StreamOwnership ----------------------------
(***************************************************************************)
(* Who gives the reservation of one request back, and when                 *)
(* (controller/router.py: the end of handle_openai_proxy, stream_response  *)
(* and CleanupStreamingResponse).                                          *)
(*                                                                         *)
(* The request has entered the tracker and still holds switch_lock.  It is *)
(* undone, runs as a JSON request or runs as a stream.  Two cached         *)
(* cleanups tear it down: "tracker" leaves the request tracker, and for a  *)
(* stream "cleanup" closes the upstream and then calls "tracker" from its  *)
(* task.  Their callers are named after the place of the call:             *)
(*                                                                         *)
(*   cleanup   setup      except BaseException of stream_response          *)
(*             iterator   finally of the body iterator                     *)
(*             response   finally of CleanupStreamingResponse.__call__     *)
(*             finalizer  the same iterator, closed by the event loop      *)
(*                        because it was left suspended at a yield         *)
(*   tracker   undo       cancelled while the tracker was entered          *)
(*             answered   finally around proxy_json                        *)
(*             outer      finally of handle_openai_proxy                   *)
(*             teardown   close_resources                                  *)
(*                                                                         *)
(* External: the framework calls the response a handler returns without    *)
(* suspending in between, iterates its body from one task at a time, and   *)
(* delivers disconnects as cancellations or as errors of send.             *)
(***************************************************************************)
EXTENDS Naturals

VARIABLES
  serve,            \* where the task that serves the request is
  enter_cancelled,  \* enter_cancellation of handle_openai_proxy is set
  upstream,         \* the response stream of the backend
  finalizer,        \* the closing of an iterator left suspended
  close,            \* where close_resources is
  releases,         \* how often the request tracker was left
  cleanup_task, cleanup_starts, cleanup_caller, cleanup_noted,
  tracker_task, tracker_starts, tracker_caller, tracker_noted

cleanupVs == <<cleanup_task, cleanup_starts, cleanup_caller, cleanup_noted>>
trackerVs == <<tracker_task, tracker_starts, tracker_caller, tracker_noted>>
requestVs == <<serve, enter_cancelled>>
streamVs  == <<upstream, finalizer, close>>
vars      == <<requestVs, streamVs, releases, cleanupVs, trackerVs>>

CleanupCallers == {"setup", "iterator", "response", "finalizer"}
TrackerCallers == {"undo", "answered", "outer", "teardown"}

Cleanup == INSTANCE CachedCleanup WITH
             Callers <- CleanupCallers, task <- cleanup_task,
             starts <- cleanup_starts, caller <- cleanup_caller,
             noted <- cleanup_noted

Tracker == INSTANCE CachedCleanup WITH
             Callers <- TrackerCallers, task <- tracker_task,
             starts <- tracker_starts, caller <- tracker_caller,
             noted <- tracker_noted

-----------------------------------------------------------------------------

Serve == {"entered", "undo", "json", "answered", "outer", "opening", "setup",
          "start", "reading", "sending", "iterator", "last", "response", "done"}

TypeOK ==
  /\ serve \in Serve
  /\ enter_cancelled \in BOOLEAN
  /\ upstream \in {"none", "open", "closed"}
  /\ finalizer \in {"none", "due", "closing", "done"}
  /\ close \in {"idle", "exit", "tracker", "tracker_failed"}
  /\ releases \in Nat
  /\ Cleanup!CleanupTypeOK
  /\ Tracker!CleanupTypeOK

Init ==
  /\ serve = "entered"
  /\ enter_cancelled \in BOOLEAN
  /\ upstream = "none"
  /\ finalizer = "none"
  /\ close = "idle"
  /\ releases = 0
  /\ Cleanup!CleanupInit
  /\ Tracker!CleanupInit

GoTo(place) == serve' = place /\ UNCHANGED enter_cancelled

-----------------------------------------------------------------------------
(***************************************************************************)
(* The handler: undone, JSON, or on to a stream.                           *)
(***************************************************************************)

\* Mutant of Admitted: the noted cancellation is forgotten.
AdmittedDeaf ==
  /\ serve = "entered"
  /\ \E place \in {"json", "opening"} : GoTo(place)
  /\ UNCHANGED <<streamVs, releases, cleanupVs, trackerVs>>

\* Back from the enter task.  For a stream the local tracker_cleanup is
\* cleared before anything is awaited.
Admitted ==
  /\ serve = "entered"
  /\ \/ /\ enter_cancelled
        /\ Tracker!Call("undo")
        /\ GoTo("undo")
     \/ /\ ~enter_cancelled
        /\ \E place \in {"json", "opening"} : GoTo(place)
        /\ UNCHANGED trackerVs
  /\ UNCHANGED <<streamVs, releases, cleanupVs>>

\* enter_cancellation, or the error of the cleanup, is raised: the outer
\* finally finds tracker_cleanup still set.
Undone ==
  /\ serve = "undo"
  /\ Tracker!Resume("undo")
  /\ GoTo("outer")
  /\ UNCHANGED <<streamVs, releases, cleanupVs>>

\* proxy_json answers, fails or is cancelled.
JsonEnds ==
  /\ serve = "json"
  /\ Tracker!Call("answered")
  /\ GoTo("answered")
  /\ UNCHANGED <<streamVs, releases, cleanupVs>>

\* tracker_cleanup is cleared only when its call returns.
Answered ==
  /\ serve = "answered"
  /\ Tracker!Resume("answered")
  /\ GoTo(IF Tracker!Outcome("answered") = "returned" THEN "done" ELSE "outer")
  /\ UNCHANGED <<streamVs, releases, cleanupVs>>

\* The second call of the same cleanup, which is over by then.
OuterFinally ==
  /\ serve = "outer"
  /\ Tracker!Call("outer")
  /\ GoTo("done")
  /\ UNCHANGED <<streamVs, releases, cleanupVs>>

-----------------------------------------------------------------------------
(***************************************************************************)
(* The stream, from stream_response to the end of its response.            *)
(***************************************************************************)

\* What a caller of the stream's cleanup does: close_resources begins with
\* the first of them.
CallCleanup(c) ==
  /\ Cleanup!Call(c)
  /\ close' = IF cleanup_task = "none" THEN "exit" ELSE close
  /\ UNCHANGED <<releases, trackerVs>>

\* The context factory or __aenter__ fails or is cancelled, or the response
\* cannot be made of what was opened.
SetupFails ==
  /\ serve = "opening"
  /\ upstream' \in {"none", "open"}
  /\ CallCleanup("setup")
  /\ GoTo("setup")
  /\ UNCHANGED finalizer

OpenSucceeds ==
  /\ serve = "opening"
  /\ upstream' = "open"
  /\ GoTo("start")
  /\ UNCHANGED <<finalizer, close, releases, cleanupVs, trackerVs>>

\* The head of the response is sent, then body chunks are read and sent.
Streams ==
  /\ \/ serve \in {"start", "sending"} /\ GoTo("reading")
     \/ serve = "reading" /\ GoTo("sending")
  /\ UNCHANGED <<streamVs, releases, cleanupVs, trackerVs>>

\* The upstream ends or fails, or the cancellation finds the iterator at its
\* await.
ReadEnds ==
  /\ serve = "reading"
  /\ CallCleanup("iterator")
  /\ GoTo("iterator")
  /\ UNCHANGED <<upstream, finalizer>>

\* The downstream is gone while the response sends: an iterator that has
\* begun is left suspended.
SendFails ==
  /\ serve \in {"start", "sending"}
  /\ CallCleanup("response")
  /\ GoTo("response")
  /\ finalizer' = IF serve = "sending" THEN "due" ELSE finalizer
  /\ UNCHANGED upstream

\* The end of a cleanup call; after the iterator's, the response has its own
\* to make.
CleanupReturns ==
  /\ \E c \in {"setup", "iterator", "response"} :
       /\ serve = c
       /\ Cleanup!Resume(c)
       /\ GoTo(IF c = "iterator" THEN "last" ELSE "done")
  /\ UNCHANGED <<streamVs, releases, trackerVs>>

ResponseEnds ==
  /\ serve = "last"
  /\ CallCleanup("response")
  /\ GoTo("done")
  /\ UNCHANGED <<upstream, finalizer>>

FinalizerCalls ==
  /\ finalizer = "due"
  /\ CallCleanup("finalizer")
  /\ finalizer' = IF Cleanup!Finished THEN "done" ELSE "closing"
  /\ UNCHANGED <<requestVs, upstream>>

FinalizerReturns ==
  /\ finalizer = "closing"
  /\ Cleanup!Resume("finalizer")
  /\ finalizer' = "done"
  /\ UNCHANGED <<requestVs, upstream, close, releases, trackerVs>>

\* A cancellation, maybe repeated, reaches the task in one of its cleanups.
CancelOwner ==
  /\ \/ serve \in {"undo", "answered"} /\ Tracker!Cancel(serve) /\ UNCHANGED cleanupVs
     \/ serve \in {"setup", "iterator", "response"} /\ Cleanup!Cancel(serve) /\ UNCHANGED trackerVs
  /\ UNCHANGED <<requestVs, streamVs, releases>>

-----------------------------------------------------------------------------
(***************************************************************************)
(* The tasks of the two cleanups.                                          *)
(***************************************************************************)

\* Mutants of CloseUpstream: the tracker is not left when closing fails; the
\* upstream is not closed before the tracker is left.
CloseUpstreamNoFinally ==
  /\ close = "exit"
  /\ upstream' = IF upstream = "open" THEN "closed" ELSE upstream
  /\ \/ /\ close' = "tracker"
        /\ Tracker!Call("teardown")
        /\ UNCHANGED cleanupVs
     \/ /\ upstream = "open"
        /\ close' = "idle"
        /\ Cleanup!Finish("failed")
        /\ UNCHANGED trackerVs
  /\ UNCHANGED <<requestVs, finalizer, releases>>

CloseUpstreamLater ==
  /\ close = "exit"
  /\ close' = "tracker"
  /\ Tracker!Call("teardown")
  /\ UNCHANGED <<requestVs, upstream, finalizer, releases, cleanupVs>>

\* stream_context.__aexit__ returns or raises, if the context was entered, and
\* finally the tracker's cleanup is called.
CloseUpstream ==
  /\ close = "exit"
  /\ \/ upstream = "open" /\ upstream' = "closed" /\ close' \in {"tracker", "tracker_failed"}
     \/ upstream = "none" /\ UNCHANGED upstream /\ close' = "tracker"
  /\ Tracker!Call("teardown")
  /\ UNCHANGED <<requestVs, finalizer, releases, cleanupVs>>

\* close_resources ends, raising what __aexit__ raised.
TeardownEnds ==
  /\ close \in {"tracker", "tracker_failed"}
  /\ Tracker!Resume("teardown")
  /\ Cleanup!Finish(IF close = "tracker" THEN "done" ELSE "failed")
  /\ close' = "idle"
  /\ UNCHANGED <<requestVs, upstream, finalizer, releases>>

\* tracker.__aexit__: the count of the model is decremented.
LeaveTracker ==
  /\ Tracker!Finish("done")
  /\ releases' = releases + 1
  /\ UNCHANGED <<requestVs, streamVs, cleanupVs>>

-----------------------------------------------------------------------------

\* What the event loop does by itself once the request is over.
Progress ==
  \/ Admitted
  \/ Undone
  \/ Answered
  \/ OuterFinally
  \/ CleanupReturns
  \/ ResponseEnds
  \/ FinalizerCalls
  \/ FinalizerReturns
  \/ CloseUpstream
  \/ TeardownEnds
  \/ LeaveTracker

Next ==
  \/ Progress
  \/ JsonEnds
  \/ SetupFails
  \/ OpenSucceeds
  \/ Streams
  \/ ReadEnds
  \/ SendFails
  \/ CancelOwner

Spec == Init /\ [][Next]_vars

\* The backend and the client owe nothing; closing the upstream and leaving
\* the tracker end, as every step of the event loop does.
FairSpec == Spec /\ WF_vars(Progress)

-----------------------------------------------------------------------------

\* However it ends, and whoever is cancelled when, a request that is over has
\* given its reservation back exactly once (docs/architecture.md: "A failure
\* before iteration starts therefore cannot leak or double-release a
\* reservation").
ReleasedExactlyOnce ==
  /\ releases <= 1
  /\ serve = "done" => releases = 1

\* The backend of an open stream is reserved: the model cannot be put to sleep
\* between the closing of the reservation and that of the stream.
OpenStreamReserved == upstream = "open" => releases = 0

\* No stream stays open behind a request that is over.
NoStreamLeftOpen == serve = "done" => upstream # "open"

\* A cancelled request raises its cancellation, or the error of its teardown:
\* it never ends as if nothing had happened.
CancellationSurfaces ==
  serve = "done" =>
    /\ \A c \in CleanupCallers : c \in cleanup_noted => cleanup_caller[c] \in {"cancelled", "raised"}
    /\ \A c \in TrackerCallers : c \in tracker_noted => tracker_caller[c] \in {"cancelled", "raised"}

\* Once a request begins to end it ends, with its reservation given back,
\* even when an owner is cancelled again and again.
Over == serve \in {"undo", "answered", "outer", "setup", "iterator", "last", "response"}

TornDown == Over ~> serve = "done" /\ releases = 1

-----------------------------------------------------------------------------
(***************************************************************************)
(* The stay of a request on its backend, as ModelSwitch has it.            *)
(***************************************************************************)

Held == releases = 0

Stay == INSTANCE ModelSwitch WITH
  Models <- {"model"}, NONE <- "none", Requests <- {"request"},
  Policy <- "always_sleep_previous", startup_awake_model <- "model",
  LateEffects <- FALSE, Drift <- FALSE,
  state <- [active_model       |-> "model",
            model_states       |-> [m \in {"model"} |-> "awake"],
            startup_reconciled |-> TRUE],
  active_requests <- [m \in {"model"} |-> 1 - releases],
  switch_lock <- IF Held /\ (serve = "entered" \/ enter_cancelled) THEN "request" ELSE "none",
  waiters <- <<>>,
  pc <- [r \in {"request"} |->
           IF ~Held THEN "idle"
           ELSE IF serve = "entered" THEN "reserved"
           ELSE IF tracker_task = "none" THEN "proxying" ELSE "exiting"],
  target <- [r \in {"request"} |-> IF Held THEN "model" ELSE "none"],
  kind <- [r \in {"request"} |-> "proxy"],
  cancelled <- IF Held /\ enter_cancelled THEN {"request"} ELSE {},
  to_probe <- {}, observed_awake <- {},
  decision <- [sleep_model |-> "none", wake_model |-> "none", wait_for_active_requests |-> FALSE],
  applied <- FALSE,
  awake <- [m \in {"model"} |-> TRUE],
  late <- {}

\* Every step here is a step of ModelSwitch, or none: the two steps from
\* "proxying" to "idle" are all that switching has to know of a stream's end.
ImplementsStay ==
  [][\/ Stay!LeaveSwitchLock("request")
     \/ Stay!ProxyEnds("request")
     \/ Stay!ExitTracker("request")]_(Stay!vars)

=============================================================================
