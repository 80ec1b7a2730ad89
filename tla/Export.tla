--------------------------------- MODULE Export --------------------------------
(* The export of a user's data: the request, the job that builds the archive,
   its download link, and the sweep that deletes it after seven days. *)
EXTENDS Naturals, FiniteSets

CONSTANTS
  Exports,       \* export_request rows the user may come to have
  MaxExportFaults

VARIABLES
  exports,       \* export_request: [state, key, due, deleted] per row
  archives,      \* exports with an archive in the object store
  buildQueue,    \* exports whose build the queue will deliver
  building,      \* how far each build has come
  sweeping,      \* exports whose archive the sweep has just deleted
  orphaned,      \* ghost: archives whose build did not get to record them
  exportFaults

exportVars == <<exports, archives, buildQueue, building, sweeping, orphaned, exportFaults>>

NoRow == [state |-> "none", key |-> FALSE, due |-> FALSE, deleted |-> FALSE]

ExportInit ==
  /\ exports = [e \in Exports |-> NoRow]
  /\ archives = {} /\ buildQueue = {} /\ sweeping = {} /\ orphaned = {}
  /\ building = [e \in Exports |-> "idle"]
  /\ exportFaults = 0

InFlight == {e \in Exports : exports[e].state \in {"pending", "building"}}

\* POST /me/export: the row and its event in one transaction.  The unique index
\* on rows in flight turns a second request into 409.
RequestExport(e) ==
  /\ exports[e].state = "none" /\ InFlight = {}
  /\ exports' = [exports EXCEPT ![e].state = "pending"]
  /\ buildQueue' = buildQueue \cup {e}
  /\ UNCHANGED <<archives, building, sweeping, orphaned, exportFaults>>

--------------------------------------------------------------------------------
\* build_export: the row says building; the index refuses it for a row that was
\* settled while another one is in flight.
StartBuild(e) ==
  /\ e \in buildQueue /\ building[e] = "idle"
  /\ buildQueue' = buildQueue \ {e}
  /\ IF InFlight \subseteq {e}
     THEN /\ exports' = [exports EXCEPT ![e].state = "building"]
          /\ building' = [building EXCEPT ![e] = "write"]
     ELSE UNCHANGED <<exports, building>>
  /\ UNCHANGED <<archives, sweeping, orphaned, exportFaults>>

PutArchive(e) ==
  /\ building[e] = "write"
  /\ archives' = archives \cup {e}
  /\ building' = [building EXCEPT ![e] = "record"]
  /\ UNCHANGED <<exports, buildQueue, sweeping, orphaned, exportFaults>>

RecordReady(e) ==
  /\ building[e] = "record"
  /\ exports' = [exports EXCEPT ![e].state = "ready", ![e].key = TRUE]
  /\ orphaned' = orphaned \ {e}
  /\ building' = [building EXCEPT ![e] = "idle"]
  /\ UNCHANGED <<archives, buildQueue, sweeping, exportFaults>>

Wasted(e) == IF e \in archives /\ ~exports[e].key THEN orphaned \cup {e} ELSE orphaned

\* Anything that raises: the row says failed, the job is not tried again.
BuildFails(e) ==
  /\ building[e] \in {"write", "record"} /\ exportFaults < MaxExportFaults
  /\ exportFaults' = exportFaults + 1
  /\ exports' = [exports EXCEPT ![e].state = "failed"]
  /\ orphaned' = Wasted(e)
  /\ building' = [building EXCEPT ![e] = "idle"]
  /\ UNCHANGED <<archives, buildQueue, sweeping>>

\* arq's job_timeout cancels the build; a cancellation is no Exception, so the
\* row goes on saying building.  A worker that dies leaves the same row, and
\* the queue delivers the job again.
InterruptBuild(e) ==
  /\ building[e] \in {"write", "record"} /\ exportFaults < MaxExportFaults
  /\ exportFaults' = exportFaults + 1
  /\ orphaned' = Wasted(e)
  /\ building' = [building EXCEPT ![e] = "idle"]
  /\ buildQueue' \in {buildQueue, buildQueue \cup {e}}
  /\ UNCHANGED <<exports, archives, sweeping>>

\* The queue delivers a job again whose end it did not get to hear of.
RedeliverBuild(e) ==
  /\ exports[e].state \in {"ready", "failed"} /\ ~exports[e].due
  /\ building[e] = "idle" /\ e \notin buildQueue
  /\ exportFaults < MaxExportFaults /\ exportFaults' = exportFaults + 1
  /\ buildQueue' = buildQueue \cup {e}
  /\ UNCHANGED <<exports, archives, building, sweeping, orphaned>>

--------------------------------------------------------------------------------
\* Seven days after the request, longer than any build stays in the queue.
FallDue(e) ==
  /\ exports[e].state # "none" /\ ~exports[e].due
  /\ e \notin buildQueue /\ building[e] = "idle"
  /\ exports' = [exports EXCEPT ![e].due = TRUE]
  /\ UNCHANGED <<archives, buildQueue, building, sweeping, orphaned, exportFaults>>

Expired == {e \in Exports : exports[e].due /\ exports[e].key /\ ~exports[e].deleted}

SweepRowOnly(e) ==
  /\ e \in Expired \ sweeping
  /\ sweeping' = sweeping \cup {e}
  /\ UNCHANGED <<exports, archives, buildQueue, building, orphaned, exportFaults>>

\* The sweep deletes the archive first; when it cannot, the next one tries.
SweepArchive(e) ==
  /\ e \in Expired \ sweeping
  /\ archives' = archives \ {e}
  /\ sweeping' = sweeping \cup {e}
  /\ UNCHANGED <<exports, buildQueue, building, orphaned, exportFaults>>

SweepRow(e) ==
  /\ e \in sweeping
  /\ sweeping' = sweeping \ {e}
  /\ exports' = [exports EXCEPT ![e].deleted = TRUE, ![e].key = FALSE]
  /\ UNCHANGED <<archives, buildQueue, building, orphaned, exportFaults>>

SweepDies(e) ==
  /\ e \in sweeping /\ exportFaults < MaxExportFaults
  /\ exportFaults' = exportFaults + 1
  /\ sweeping' = sweeping \ {e}
  /\ UNCHANGED <<exports, archives, buildQueue, building, orphaned>>

BuildSteps(e) == StartBuild(e) \/ PutArchive(e) \/ RecordReady(e)

ExportNext == \E e \in Exports :
  \/ RequestExport(e) \/ StartBuild(e) \/ PutArchive(e) \/ RecordReady(e) \/ BuildFails(e)
  \/ InterruptBuild(e) \/ RedeliverBuild(e) \/ FallDue(e) \/ SweepArchive(e) \/ SweepRow(e) \/ SweepDies(e)

ExportSpec == ExportInit /\ [][ExportNext]_exportVars

\* The queue delivers, builds run on, days pass and the sweep runs every hour.
ExportFairness ==
  \A e \in Exports : /\ WF_exportVars(BuildSteps(e)) /\ WF_exportVars(FallDue(e))
                     /\ WF_exportVars(SweepArchive(e)) /\ WF_exportVars(SweepRow(e))

--------------------------------------------------------------------------------
\* What GET /me/export/{id} hands out a link for.
Linked == {e \in Exports : exports[e].state = "ready" /\ exports[e].key /\ ~exports[e].deleted}

\* Until an export is due, its link leads to an archive: a redelivered build or
\* a sweep never takes the archive from under a row that still offers it.  And
\* the archive does not outlive its seven days for good, unless an interrupted
\* build left it behind, out of sight of the sweep's query.
LinksLead == \A e \in Linked : exports[e].due \/ e \in archives
ExportLifetime ==
  /\ []LinksLead
  /\ \A e \in Exports : (e \in archives /\ exports[e].due)
                           ~> (e \notin archives \/ e \in orphaned)
================================================================================
