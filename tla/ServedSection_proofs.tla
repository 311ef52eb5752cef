------------------------ MODULE ServedSection_proofs ------------------------
(***************************************************************************)
(* That a response's label never leads its contents, and that readiness is *)
(* truthful, for any number of requests, edits, reloads and restarts.      *)
(*                                                                         *)
(* Neither is inductive on its own.  The first rests on the number being   *)
(* published after the snapshot (Counted) and on it being the first of a   *)
(* request's two loads (RequestsLag); the second on the watcher taking the *)
(* notice of an edit before it reads the files, and on what a section has  *)
(* loaded when its watch starts (CaughtUp).                                *)
(***************************************************************************)
EXTENDS ServedSection, TLAPS

\* The initial state, a section that loaded at startup, satisfies the invariant.
LEMMA InitInv == Init => IndInv
<1> SUFFICES ASSUME Init PROVE IndInv
  OBVIOUS
<1> USE DEF Init, Idle, NoRequest
<1>1. 1 \in Versions
  BY BoundsAreNaturals DEF Versions
<1>2. TypeOK
  <2>1. sources \in [version : Versions, loads : BOOLEAN]
    BY <1>1
  <2>2. installs \in Seq(Versions)
    BY <1>1
  <2>3. reload \in [at : {"idle", "reading", "loaded", "published"},
                   version : Versions \cup {0}]
    OBVIOUS
  <2> QED
    BY <2>1, <2>2, <2>3 DEF TypeOK
<1>3. Counted /\ RequestsLag /\ CaughtUp /\ LabelNeverLeads
  <2>1. Len(installs) = 1 /\ installs # << >> /\ Current = 1
    BY DEF Current
  <2> QED
    BY <2>1 DEF Counted, RequestsLag, CaughtUp, LabelNeverLeads
<1>4. ReadyIsTruthful
  BY DEF ReadyIsTruthful, IsReady, Current
<1> QED
  BY <1>2, <1>3, <1>4 DEF IndInv

\* Every step keeps the types.
LEMMA NextTypeOK == TypeOK /\ Counted /\ [Next]_sectionVars => TypeOK'
<1> SUFFICES ASSUME TypeOK, Counted, [Next]_sectionVars PROVE TypeOK'
  OBVIOUS
<1> USE BoundsAreNaturals DEF TypeOK, Idle, NoRequest
<1>1. CASE Edit
  <2> PICK loads \in BOOLEAN : sources' = [version |-> sources.version + 1, loads |-> loads]
    BY <1>1 DEF Edit
  <2>1. sources.version + 1 \in Versions
    BY <1>1 DEF Edit, Versions
  <2> QED
    BY <1>1, <2>1 DEF Edit
<1>2. CASE WatchWakes
  BY <1>2 DEF WatchWakes
<1>3. CASE ReloadCalled
  BY <1>3 DEF ReloadCalled
<1>4. CASE ReadSources
  <2>1. CASE sources.loads
    <3>1. reload' = [at |-> "loaded", version |-> sources.version] /\ healthy' = healthy
      BY <1>4, <2>1 DEF ReadSources
    <3> QED
      BY <1>4, <3>1 DEF ReadSources
  <2>2. CASE ~sources.loads
    <3>1. reload' = Idle /\ healthy' = FALSE
      BY <1>4, <2>2 DEF ReadSources
    <3> QED
      BY <1>4, <3>1 DEF ReadSources
  <2> QED
    BY <2>1, <2>2
<1>5. CASE PublishDocument
  <2>1. reload.version \in Versions
    BY <1>5 DEF PublishDocument, Counted
  <2> QED
    BY <1>5, <2>1 DEF PublishDocument
<1>6. CASE PublishGeneration
  BY <1>6 DEF PublishGeneration
<1>7. CASE Crash
  <2>1. request' \in [Requests -> [at : {"none", "labelled", "answered"},
                                  generation : Nat, install : Nat,
                                  version : Versions \cup {0}]]
    BY <1>7 DEF Crash
  <2>2. installs' \in Seq(Versions)
    BY <1>7 DEF Crash
  <2> QED
    BY <1>7, <2>1, <2>2 DEF Crash
<1>8. CASE LoadAtStart
  <2>1. installs' \in Seq(Versions) /\ generation' \in Nat
    BY <1>8 DEF LoadAtStart
  <2> QED
    BY <1>8, <2>1 DEF LoadAtStart
<1>9. ASSUME NEW r \in Requests, LoadGeneration(r) PROVE TypeOK'
  BY <1>9 DEF LoadGeneration
<1>10. ASSUME NEW r \in Requests, LoadDocument(r) PROVE TypeOK'
  <2>1. up /\ installs # << >>
    BY <1>10 DEF LoadDocument, Counted
  <2>2. Len(installs) \in Nat /\ Current \in Versions
    BY <2>1 DEF Current
  <2> QED
    BY <1>10, <2>2 DEF LoadDocument
<1>11. ASSUME NEW r \in Requests, TakeAnswer(r) PROVE TypeOK'
  BY <1>11 DEF TakeAnswer
<1>12. CASE UNCHANGED sectionVars
  BY <1>12 DEF sectionVars
<1>13. CASE WatchAtStart
  <2>1. process' \in Nat /\ up' \in BOOLEAN
    BY <1>13 DEF WatchAtStart
  <2> QED
    BY <1>13, <2>1 DEF WatchAtStart
<1> QED
  BY <1>1, <1>2, <1>3, <1>4, <1>5, <1>6, <1>7, <1>8, <1>9, <1>10, <1>11, <1>12,
     <1>13 DEF Next, Reloads, Installed

\* What an install does to the installs.
LEMMA AppendGrows ==
    ASSUME NEW S, NEW s \in Seq(S), NEW e \in S
    PROVE  Len(Append(s, e)) = Len(s) + 1 /\ Append(s, e) # << >>
<1>1. Len(Append(s, e)) = Len(s) + 1 /\ Len(s) \in Nat
  OBVIOUS
<1> QED
  BY <1>1

\* The number follows the snapshot: it is the count of the installs, or one
\* behind it for as long as a reload is between its two publications.
LEMMA NextCounted == TypeOK /\ Counted /\ [Next]_sectionVars => Counted'
<1> SUFFICES ASSUME TypeOK, Counted, [Next]_sectionVars PROVE Counted'
  OBVIOUS
<1> USE DEF TypeOK, Counted, Idle
<1>1. CASE Edit
  BY <1>1 DEF Edit
<1>2. CASE WatchWakes
  BY <1>2 DEF WatchWakes
<1>3. CASE ReloadCalled
  BY <1>3 DEF ReloadCalled
<1>4. CASE ReadSources
  <2>1. CASE sources.loads
    BY <1>4, <2>1 DEF ReadSources
  <2>2. CASE ~sources.loads
    BY <1>4, <2>2 DEF ReadSources
  <2> QED
    BY <2>1, <2>2
<1>5. CASE PublishDocument
  <2>1. /\ Len(Append(installs, reload.version)) = Len(installs) + 1
        /\ Append(installs, reload.version) # << >>
    <3>1. installs \in Seq(Versions) /\ reload.version \in Versions
      BY <1>5 DEF PublishDocument
    <3> QED
      BY <3>1, AppendGrows
  <2> QED
    BY <1>5, <2>1 DEF PublishDocument
<1>6. CASE PublishGeneration
  BY <1>6 DEF PublishGeneration
<1>7. CASE Crash
  BY <1>7 DEF Crash
<1>8. CASE LoadAtStart
  <2>1. installs' # << >> /\ Len(installs') = 1
    BY <1>8 DEF LoadAtStart
  <2> QED
    BY <1>8, <2>1 DEF LoadAtStart
<1>9. ASSUME NEW r \in Requests, LoadGeneration(r) \/ LoadDocument(r) \/ TakeAnswer(r)
      PROVE  Counted'
  BY <1>9 DEF LoadGeneration, LoadDocument, TakeAnswer
<1>10. CASE UNCHANGED sectionVars
  BY <1>10 DEF sectionVars
<1>11. CASE WatchAtStart
  BY <1>11 DEF WatchAtStart
<1> QED
  BY <1>1, <1>2, <1>3, <1>4, <1>5, <1>6, <1>7, <1>8, <1>9, <1>10, <1>11
     DEF Next, Reloads, Installed

\* A request that has loaded a number loads a document installed at least as
\* late, because the installs only grow for as long as the process lives.
LEMMA NextLabels ==
    TypeOK /\ Counted /\ RequestsLag /\ LabelNeverLeads /\ [Next]_sectionVars
        => RequestsLag' /\ LabelNeverLeads'
<1> SUFFICES ASSUME TypeOK, Counted, RequestsLag, LabelNeverLeads, [Next]_sectionVars
             PROVE  RequestsLag' /\ LabelNeverLeads'
  OBVIOUS
<1> USE DEF TypeOK, RequestsLag, LabelNeverLeads
<1>1. CASE UNCHANGED <<up, installs, request>>
  BY <1>1
<1>2. CASE PublishDocument
  <2>1. Len(installs') = Len(installs) + 1 /\ Len(installs) \in Nat
    BY <1>2 DEF PublishDocument, Counted
  <2> QED
    BY <1>2, <2>1 DEF PublishDocument
<1>3. CASE Crash
  BY <1>3 DEF Crash, NoRequest
<1>4. CASE LoadAtStart \/ WatchAtStart
  BY <1>4 DEF LoadAtStart, WatchAtStart
<1>5. ASSUME NEW r \in Requests, LoadGeneration(r)
      PROVE  RequestsLag' /\ LabelNeverLeads'
  <2>1. generation <= Len(installs)
    BY DEF Counted
  <2> QED
    BY <1>5, <2>1 DEF LoadGeneration
<1>6. ASSUME NEW r \in Requests, LoadDocument(r)
      PROVE  RequestsLag' /\ LabelNeverLeads'
  BY <1>6 DEF LoadDocument
<1>7. ASSUME NEW r \in Requests, TakeAnswer(r)
      PROVE  RequestsLag' /\ LabelNeverLeads'
  BY <1>7 DEF TakeAnswer, NoRequest
<1>8. CASE Edit \/ WatchWakes \/ ReloadCalled \/ ReadSources \/ PublishGeneration
  BY <1>1, <1>8 DEF Edit, WatchWakes, ReloadCalled, ReadSources, PublishGeneration
<1> QED
  BY <1>1, <1>2, <1>3, <1>4, <1>5, <1>6, <1>7, <1>8 DEF Next, Reloads, Installed, sectionVars

\* A reload no edit has overtaken carries what is on disk to the section.
LEMMA NextReady ==
    TypeOK /\ Counted /\ CaughtUp /\ ReadyIsTruthful /\ [Next]_sectionVars
        => CaughtUp' /\ ReadyIsTruthful'
<1> SUFFICES ASSUME TypeOK, Counted, CaughtUp, ReadyIsTruthful, [Next]_sectionVars
             PROVE  CaughtUp' /\ ReadyIsTruthful'
  OBVIOUS
<1> USE DEF TypeOK, CaughtUp, ReadyIsTruthful, IsReady, Idle
<1>1. CASE Edit
  BY <1>1 DEF Edit
<1>2. CASE WatchWakes \/ ReloadCalled
  BY <1>2 DEF WatchWakes, ReloadCalled
<1>3. CASE ReadSources
  <2>1. CASE sources.loads
    BY <1>3, <2>1 DEF ReadSources
  <2>2. CASE ~sources.loads
    BY <1>3, <2>2 DEF ReadSources
  <2> QED
    BY <2>1, <2>2
<1>4. CASE PublishDocument
  <2>1. Current' = reload.version
    BY <1>4 DEF PublishDocument, Counted, Current
  <2> QED
    BY <1>4, <2>1 DEF PublishDocument
<1>5. CASE PublishGeneration
  <2>1. Current' = Current /\ installs' # << >>
    BY <1>5 DEF PublishGeneration, Counted, Current
  <2> QED
    BY <1>5, <2>1 DEF PublishGeneration
<1>6. CASE Crash
  BY <1>6 DEF Crash
<1>7. CASE LoadAtStart
  <2>1. Current' = sources.version
    BY <1>7 DEF LoadAtStart, Current
  <2> QED
    BY <1>7, <2>1 DEF LoadAtStart
<1>8. CASE UNCHANGED <<sources, noticed, up, installs, healthy, reload, missed>>
  BY <1>8 DEF Current
<1>9. ASSUME NEW r \in Requests, LoadGeneration(r) \/ LoadDocument(r) \/ TakeAnswer(r)
      PROVE  CaughtUp' /\ ReadyIsTruthful'
  BY <1>8, <1>9 DEF LoadGeneration, LoadDocument, TakeAnswer
<1>10. CASE WatchAtStart
  <2>1. Current' = Current /\ reload' = Idle
    BY <1>10 DEF WatchAtStart, Current, Counted
  <2> QED
    BY <1>10, <2>1 DEF WatchAtStart
<1> QED
  BY <1>1, <1>2, <1>3, <1>4, <1>5, <1>6, <1>7, <1>8, <1>9, <1>10
     DEF Next, Reloads, Installed, sectionVars

\* The invariant holds of every reachable state.
THEOREM Invariance == Spec => []IndInv
<1>1. IndInv /\ [Next]_sectionVars => IndInv'
  BY NextTypeOK, NextCounted, NextLabels, NextReady DEF IndInv
<1> QED
  BY InitInv, <1>1, PTL DEF Spec

\* Every variable of the section keeps its type.
THEOREM SectionTypeOK == Spec => []TypeOK
<1>1. IndInv => TypeOK
  BY DEF IndInv
<1> QED
  BY Invariance, <1>1, PTL

\* No response of Section::installed carries an older document than its label,
\* however many requests, reloads and restarts interleave.
THEOREM LabelsNeverLead == Spec => []LabelNeverLeads
<1>1. IndInv => LabelNeverLeads
  BY DEF IndInv
<1> QED
  BY Invariance, <1>1, PTL

\* Section::is_ready agrees with the files whenever the watcher has caught up.
THEOREM ReadinessIsTruthful == Spec => []ReadyIsTruthful
<1>1. IndInv => ReadyIsTruthful
  BY DEF IndInv
<1> QED
  BY Invariance, <1>1, PTL
=============================================================================
