--------------------------- MODULE ServedSection ---------------------------
(***************************************************************************)
(* One served section of the config server: the files it is resolved from, *)
(* the reloads the file watcher drives, the document and the generation    *)
(* they publish, and the requests that read the two.                       *)
(*                                                                         *)
(* A document is abstracted to the version of the files it was loaded      *)
(* from.  `installs' is every document this process has installed, oldest  *)
(* first: the last of them is the one serving, and its position is the     *)
(* generation the engine will publish for it.  The engine publishes the    *)
(* snapshot first and the number after it, so the two are two steps here.  *)
(* A restart forgets the installs and counts from 1 again.                 *)
(*                                                                         *)
(* A section is loaded before its files are watched, and the two are two   *)
(* steps: an edit may fall between them.  `missed' is a history variable,  *)
(* whether one did and the files have not been read since.  No action      *)
(* reads it.                                                               *)
(***************************************************************************)
EXTENDS Naturals, Sequences

CONSTANTS
    Requests,     \* the document requests that can be in flight at once
    MaxEdits,     \* bound: the edits made to the section's files
    MaxCalls,     \* bound: an embedder calls reload() up to this many installs
    MaxStarts     \* bound: the processes started, one after another

ASSUME BoundsAreNaturals ==
    MaxEdits \in Nat /\ MaxCalls \in Nat /\ MaxStarts \in Nat

VARIABLES
    sources,      \* the section's files: their version, and whether they load
    noticed,      \* an edit the watcher has been told of and not acted on
    up,           \* whether a server process watches its files, and serves
    process,      \* how many processes have come that far
    installs,     \* the documents this process installed, oldest first
    generation,   \* the install counter this process publishes
    healthy,      \* whether the last reload of this process installed
    reload,       \* the reload in progress: where it is, what it loaded
    request,      \* each request's two loads, in the order it makes them
    missed        \* history

sectionVars == <<sources, noticed, up, process, installs, generation, healthy,
                 reload, request, missed>>

Idle == [at |-> "idle", version |-> 0]
NoRequest == [at |-> "none", generation |-> 0, install |-> 0, version |-> 0]

\* The first process has loaded the section, and may be watching it already.
Init ==
    /\ sources = [version |-> 1, loads |-> TRUE]
    /\ noticed = FALSE
    /\ up \in BOOLEAN
    /\ process = IF up THEN 1 ELSE 0
    /\ installs = <<1>>
    /\ generation = 1
    /\ healthy = TRUE
    /\ reload = Idle
    /\ request = [r \in Requests |-> NoRequest]
    /\ missed = FALSE

-----------------------------------------------------------------------------
(* What the section answers.                                               *)

\* Section::current: the document serving, the newest installed.
Current == installs[Len(installs)]

\* Mutant: a section with a document is ready, whatever the last reload did.
IsReadyByDocument == installs # << >>

\* Section::is_ready: it has a document, and the last reload installed one.
IsReady == installs # << >> /\ healthy

-----------------------------------------------------------------------------
(* The files, and the reloads.                                             *)

\* Somebody writes the files: a new version, which loads or does not.  Only a
\* watcher that has been started is told.
Edit ==
    /\ sources.version <= MaxEdits
    /\ \E loads \in BOOLEAN :
          sources' = [version |-> sources.version + 1, loads |-> loads]
    /\ noticed' = up
    /\ missed' = (~up /\ installs # << >>)
    /\ UNCHANGED <<up, process, installs, generation, healthy, reload, request>>

\* The debounced watcher wakes and starts a reload.
WatchWakes ==
    /\ up /\ noticed /\ reload.at = "idle"
    /\ noticed' = FALSE
    /\ reload' = [at |-> "reading", version |-> 0]
    /\ UNCHANGED <<sources, up, process, installs, generation, healthy, request,
                   missed>>

\* Section::reload, called by an embedder rather than by the watcher.
ReloadCalled ==
    /\ up /\ reload.at = "idle" /\ Len(installs) < MaxCalls
    /\ reload' = [at |-> "reading", version |-> 0]
    /\ UNCHANGED <<sources, noticed, up, process, installs, generation, healthy,
                   request, missed>>

\* The reload reads the files.  Files that do not load install nothing: the
\* previous document goes on serving and the section says it is not healthy.
ReadSources ==
    /\ up /\ reload.at = "reading"
    /\ \/ /\ sources.loads
          /\ reload' = [at |-> "loaded", version |-> sources.version]
          /\ UNCHANGED healthy
       \/ /\ ~sources.loads
          /\ reload' = Idle
          /\ healthy' = FALSE
    /\ missed' = FALSE
    /\ UNCHANGED <<sources, noticed, up, process, installs, generation, request>>

\* The snapshot is published...
PublishDocument ==
    /\ up /\ reload.at = "loaded"
    /\ installs' = Append(installs, reload.version)
    /\ reload' = [at |-> "published", version |-> 0]
    /\ UNCHANGED <<sources, noticed, up, process, generation, healthy, request,
                   missed>>

\* Mutant: the end of a reload consumes the wake of an edit made during it.
PublishGenerationAndRest ==
    /\ up /\ reload.at = "published"
    /\ generation' = generation + 1
    /\ healthy' = TRUE
    /\ reload' = Idle
    /\ noticed' = FALSE
    /\ UNCHANGED <<sources, up, process, installs, request, missed>>

\* ...and its metadata after it: the number, the verdict, the wake-ups.
PublishGeneration ==
    /\ up /\ reload.at = "published"
    /\ generation' = generation + 1
    /\ healthy' = TRUE
    /\ reload' = Idle
    /\ UNCHANGED <<sources, noticed, up, process, installs, request, missed>>

-----------------------------------------------------------------------------
(* One request for the document: Section::installed, two atomic loads.     *)

LoadGeneration(r) ==
    /\ up /\ request[r].at = "none"
    /\ request' = [request EXCEPT ![r] =
                     [at |-> "labelled", generation |-> generation,
                      install |-> 0, version |-> 0]]
    /\ UNCHANGED <<sources, noticed, up, process, installs, generation, healthy,
                   reload, missed>>

LoadDocument(r) ==
    /\ up /\ request[r].at = "labelled"
    /\ request' = [request EXCEPT ![r] =
                     [at |-> "answered", generation |-> request[r].generation,
                      install |-> Len(installs), version |-> Current]]
    /\ UNCHANGED <<sources, noticed, up, process, installs, generation, healthy,
                   reload, missed>>

\* Mutant: the two loads in the other order.
InstalledDocumentFirst(r) ==
    /\ up
    /\ \/ /\ request[r].at = "none"
          /\ request' = [request EXCEPT ![r] =
                           [at |-> "labelled", generation |-> 0,
                            install |-> Len(installs), version |-> Current]]
       \/ /\ request[r].at = "labelled"
          /\ request' = [request EXCEPT ![r].at = "answered",
                                        ![r].generation = generation]
    /\ UNCHANGED <<sources, noticed, up, process, installs, generation, healthy,
                   reload, missed>>

\* The number first, the document second.
Installed(r) == LoadGeneration(r) \/ LoadDocument(r)

\* The caller takes the answer, and the handler is gone.
TakeAnswer(r) ==
    /\ request[r].at = "answered"
    /\ request' = [request EXCEPT ![r] = NoRequest]
    /\ UNCHANGED <<sources, noticed, up, process, installs, generation, healthy,
                   reload, missed>>

-----------------------------------------------------------------------------
(* The process.                                                            *)

\* The process goes away, and with it everything above but the files and the
\* answers that have already left.  It may not have begun to serve: its start
\* failed, at another section or after the sections.
Crash ==
    /\ installs # << >> /\ process < MaxStarts
    /\ up' = FALSE
    /\ noticed' = FALSE
    /\ installs' = << >>
    /\ generation' = 0
    /\ healthy' = FALSE
    /\ reload' = Idle
    /\ request' = [r \in Requests |->
                     IF request[r].at = "answered" THEN request[r] ELSE NoRequest]
    /\ missed' = FALSE
    /\ UNCHANGED <<sources, process>>

\* Mutant: a section that will not load starts on a document of defaults.
LoadDefaultsAtStart ==
    /\ ~up /\ installs = << >>
    /\ installs' = <<IF sources.loads THEN sources.version ELSE 0>>
    /\ generation' = 1
    /\ healthy' = TRUE
    /\ missed' = FALSE
    /\ UNCHANGED <<sources, noticed, up, process, reload, request>>

\* load_section: the section is loaded, which installs its first document.  One
\* that will not load refuses the start: there is no step while the files do not
\* load.
LoadAtStart ==
    /\ ~up /\ installs = << >> /\ sources.loads
    /\ installs' = <<sources.version>>
    /\ generation' = 1
    /\ healthy' = TRUE
    /\ missed' = FALSE
    /\ UNCHANGED <<sources, noticed, up, process, reload, request>>

\* Then its files are watched from here on, before anything is served.
WatchAtStart ==
    /\ ~up /\ installs # << >>
    /\ up' = TRUE
    /\ process' = process + 1
    /\ UNCHANGED <<sources, noticed, installs, generation, healthy, reload, request,
                   missed>>

Reloads ==
    WatchWakes \/ ReloadCalled \/ ReadSources \/ PublishDocument \/ PublishGeneration

Next ==
    \/ Edit
    \/ Reloads
    \/ Crash
    \/ LoadAtStart \/ WatchAtStart
    \/ \E r \in Requests : Installed(r) \/ TakeAnswer(r)

Spec == Init /\ [][Next]_sectionVars

\* The watcher thread and a reload in progress are never starved.  Nothing
\* obliges anybody to edit, to crash, to start again or to ask.
ReloadFairness ==
    /\ WF_sectionVars(WatchWakes)
    /\ WF_sectionVars(ReadSources)
    /\ WF_sectionVars(PublishDocument)
    /\ WF_sectionVars(PublishGeneration)

FairSpec == Spec /\ ReloadFairness
-----------------------------------------------------------------------------
(* Properties.                                                             *)

Versions == 1 .. MaxEdits + 1

\* Every variable holds a value of its type.
TypeOK ==
    /\ sources \in [version : Versions, loads : BOOLEAN]
    /\ noticed \in BOOLEAN
    /\ up \in BOOLEAN
    /\ process \in Nat
    /\ installs \in Seq(Versions)
    /\ generation \in Nat
    /\ healthy \in BOOLEAN
    /\ reload \in [at : {"idle", "reading", "loaded", "published"},
                   version : Versions \cup {0}]
    /\ request \in [Requests -> [at : {"none", "labelled", "answered"},
                                 generation : Nat, install : Nat,
                                 version : Versions \cup {0}]]
    /\ missed \in BOOLEAN

\* A response never carries an older document than the install it is labelled
\* with, whatever reloads land between its two loads: the label may lag the
\* contents, it never leads them.  (Section::installed; the CHANGELOG records
\* the release in which it did.)
LabelNeverLeads ==
    \A r \in Requests :
        request[r].at = "answered" => request[r].generation <= request[r].install

\* Once the watcher has caught up with the files, readiness tells the truth
\* about them: a ready section serves exactly what is on disk, and a section
\* whose files would refuse the next start is not ready while the last good
\* document is still being served.  It has not caught up with an edit that fell
\* between the first load and the watch, until the files are read again.
\* (Section::is_ready.)
ReadyIsTruthful ==
    up /\ ~noticed /\ ~missed /\ reload.at = "idle" =>
        /\ IsReady <=> sources.loads
        /\ IsReady => Current = sources.version

\* What holds between the steps of a reload and of a request, and makes the two
\* invariants above inductive.
Counted ==
    /\ up => installs # << >>
    /\ ~up => reload = Idle
    /\ reload.at = "loaded" => reload.version \in Versions
    /\ Len(installs) = IF reload.at = "published" THEN generation + 1 ELSE generation

RequestsLag ==
    \A r \in Requests :
        request[r].at = "labelled" => up /\ request[r].generation <= Len(installs)

CaughtUp ==
    /\ ~up /\ installs # << >> /\ ~missed =>
        healthy /\ sources.loads /\ Current = sources.version
    /\ up /\ ~noticed /\ ~missed =>
        /\ reload.at = "loaded" => sources.loads /\ reload.version = sources.version
        /\ reload.at = "published" => sources.loads /\ Current = sources.version

IndInv ==
    TypeOK /\ Counted /\ RequestsLag /\ CaughtUp /\ LabelNeverLeads /\ ReadyIsTruthful

\* An edit that loads ends up being served, unless another edit or the end of
\* the process comes first: no reload in progress swallows the notice of it.  Of
\* an edit that fell between the first load and the watch nothing is promised
\* until the files are read again.  (Dynamic::watch, as load_section uses it.)
EditIsServed ==
    \A v \in Versions :
        (up /\ ~missed /\ sources = [version |-> v, loads |-> TRUE])
            ~> (~up \/ sources.version # v \/ Current = v)
=============================================================================
