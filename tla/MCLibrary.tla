------------------------------ MODULE MCLibrary ------------------------------
(* Instances of Library for TLC.                                           *)
EXTENDS Library, TLC

CONSTANTS m1, m2, f1, f2, p1, p2, x1, s1, s2, g1, d1, r1, r2, n1, n2

Item(i, sub) == [ref |-> i, sub |-> sub, only |-> {m1, m2}]

MCItemLists == {{Item(m1, FALSE)}, {Item(f1, TRUE)}}
MCFilters == {{m1, m2}, {m1}}

\* PATCH of a schedule: switched off or on, given another playlist, devices or groups.
Unchanged == [enabled |-> None, playlist |-> None, devices |-> None, groups |-> None]
MCChanges ==
  {[Unchanged EXCEPT !.enabled = FALSE], [Unchanged EXCEPT !.enabled = TRUE],
   [Unchanged EXCEPT !.playlist = p1], [Unchanged EXCEPT !.playlist = p2, !.devices = {d1}],
   [Unchanged EXCEPT !.devices = {}, !.groups = {g1}], [Unchanged EXCEPT !.groups = {}]}

MCRank == (s1 :> 1) @@ (s2 :> 2)

Row(state) == [state |-> state]
Lists(a, b) == (p1 :> a) @@ (p2 :> b)
List(state, ruled, items) == [state |-> state, ruled |-> ruled, items |-> items]
Rule(state, picks) == x1 :> [state |-> state, enabled |-> TRUE, picks |-> picks]
Folder(state, parent, name) == [state |-> state, parent |-> parent, name |-> name]
Airing(state, p, gs) == [state |-> state, enabled |-> TRUE, playlist |-> p, devices |-> {}, groups |-> gs]

\* p1 shows the folder f1 with f2 below it and a rule on m2; p2 is not used yet.
\* The one device has p1 by default and belongs to the group.
Start ==
  [media |-> (m1 :> [state |-> "ready", folder |-> f1, name |-> n1]) @@
             (m2 :> [state |-> "ready", folder |-> f2, name |-> n1]),
   folders |-> (f1 :> Folder("live", Root, n1)) @@ (f2 :> Folder("live", f1, n1)),
   playlists |-> Lists(List("live", TRUE, {Item(f1, TRUE)}), List("live", FALSE, {Item(m2, FALSE)})),
   rules |-> Lists(Rule("live", {Item(f2, FALSE)}), Rule("none", {})),
   groups |-> g1 :> Row("live"), members |-> {<<g1, d1>>},
   schedules |-> (s1 :> Airing("live", p2, {g1})) @@ (s2 :> Airing("none", p1, {})),
   devices |-> d1 :> [state |-> "live", default |-> p1],
   overrides |-> <<>>]

Scenario(data, kinds) == [db |-> data, ops |-> kinds]

\* Without the schedule, so that p2 may be deleted; with nothing but p1; with an emergency.
Unscheduled == [Start EXCEPT !.schedules[s1].state = "none"]
OnePlaylist == [Unscheduled EXCEPT !.playlists[p2] = List("none", FALSE, {})]
Alert == [active |-> TRUE, playlist |-> None, media |-> m1, all |-> FALSE, devices |-> {}, groups |-> {g1}]
Alarmed == [Start EXCEPT !.overrides = <<Alert, [Alert EXCEPT !.playlist = p2, !.media = None]>>]
\* Folders side by side, of which the device plays f1 only.
Flat == [Unscheduled EXCEPT !.folders[f2].parent = Root, !.folders[f2].name = n2,
                            !.rules[p1] = Rule("none", {})]
OneFolder == [Start EXCEPT !.folders[f2] = Folder("none", Root, n1), !.media[m2].folder = Root,
                           !.rules[p1] = Rule("live", {Item(f1, FALSE)})]

MCScenarios ==
  {Scenario(Start, {"patchFolder", "deleteFolder", "moveMedia", "deleteMedia", "putItems"}),
   Scenario(Flat, {"patchMedium", "deleteFolder", "moveMedia"}),
   Scenario(OneFolder, {"createFolder", "deleteFolder", "reprocess", "putAssignments"}),
   Scenario(OnePlaylist, {"createPlaylist", "clonePlaylist", "deleteRule", "patchRule", "patchPlaylist", "patchDevice"}),
   Scenario([OnePlaylist EXCEPT !.rules[p1] = Rule("none", {})], {"createRule", "patchPlaylist", "deleteMedia", "clonePlaylist"}),
   Scenario(Unscheduled, {"deletePlaylist", "createSchedule", "patchDevice"}),
   Scenario(Start, {"patchSchedule", "deleteSchedule", "deletePlaylist", "deleteDevice"}),
   Scenario(Start, {"patchGroup", "deleteGroup", "patchDevice"}),
   Scenario([Start EXCEPT !.groups[g1].state = "none", !.members = {}, !.schedules[s1].state = "none"],
            {"createGroup", "createSchedule", "patchGroup"}),
   Scenario(Alarmed, {"stopEmergency", "deleteGroup", "deleteMedia", "reprocess"}),
   Scenario(Unscheduled, {"startEmergency", "deletePlaylist", "patchDevice"})}

Symmetry == Permutations({r1, r2})

===============================================================================
