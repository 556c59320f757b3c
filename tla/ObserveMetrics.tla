---------------------------- MODULE ObserveMetrics ----------------------------
(***************************************************************************)
(* The counter `devherd_observe_events_total` of /metrics, computed from   *)
(* the issues on every scrape.                                             *)
(***************************************************************************)
EXTENDS ObserveStore, FiniteSetsExt

\* One sample per project and level: SUM(event_count) of the issues that have
\* that level now.
EventsTotal(project, level) ==
    MapThenSumSet(LAMBDA i : i.eventCount,
                  {i \in issues : i.project = project /\ i.level = level})

\* "TYPE counter: events received since the database was created": a sample
\* never goes down.
EventsTotalNeverDrops ==
    [][\A project \in Projects, level \in Levels :
        EventsTotal(project, level)' >= EventsTotal(project, level)]_vars
===============================================================================
