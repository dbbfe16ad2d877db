--------------------------- MODULE MCScheduleStore ---------------------------
(* Instances of ScheduleStore for TLC. *)
EXTENDS ScheduleStore

ThreeInstants == {1, 2, 3}
NoLimit == {None}
RunsOrNone == {1, None}
EndOrNone == {1, None}

Menu(edits, kinds, horizon, gateways) ==
  [edits |-> edits, kinds |-> kinds, horizon |-> horizon, stops |-> gateways]
\* Pauses and catch-up of an interval; a one-off or a cron job edited and paused.
Editing == {Menu({"enabled", "catchUp"}, {"interval"}, 3, 0),
            Menu({"enabled", "schedule"}, {"once", "cron"}, 3, 1)}
\* Scheduling switched off and on; limits and decisions.
Limiting == {Menu({"catchUp", "on"}, {"interval"}, 2, 0),
             Menu({"enabled", "endAt", "maxRuns"}, {"interval"}, 2, 1),
             Menu({"enabled", "decisionRequired"}, {"interval"}, 2, 1)}
==============================================================================
