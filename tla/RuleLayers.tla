----------------------------- MODULE RuleLayers -----------------------------
(***************************************************************************)
(* src/rules/loader.rs: the rules in force, from those built in, those of  *)
(* the user and those of the project.  What cached_overlay_rules keeps of  *)
(* them for the life of the process is not modelled.                       *)
(*                                                                         *)
(* A directory is [there, files], the files in the order of their paths.   *)
(* A file is [kind, id]: "rule" is one that can be read and parsed,        *)
(* "broken" one that cannot, "other" a schema, a fixture or no JSON,       *)
(* "symlink" a link or what lies behind one.                               *)
(***************************************************************************)
EXTENDS Lines

\* The directory of the old name counts only where there is none of the new.
prefer_existing(new, legacy) == IF ~new.there /\ legacy.there THEN legacy ELSE new

\* A place has the directory the host named, if any, one of the new name and one of the old.
RulesRoot(place) ==
  IF place.custom # {} THEN CHOOSE dir \in place.custom : TRUE
  ELSE prefer_existing(place.new, place.legacy)

list_rule_files(root) ==
  IF ~root.there THEN <<>>
  ELSE SelectSeq([k \in DOMAIN root.files |-> root.files[k] @@ [path |-> k]],
                 LAMBDA file : file.kind \notin {"other", "symlink"})

Loaded(origin, file) == [id |-> file.id, origin |-> origin, path |-> file.path]

load_disk_descriptors(root, origin) ==
  LET rules == SelectSeq(list_rule_files(root), LAMBDA file : file.kind = "rule")
  IN  [k \in DOMAIN rules |-> Loaded(origin, rules[k])]

load_builtin_descriptors(builtin) == load_disk_descriptors(builtin, "builtin")

\* The last rule of an id wins.
Wins(descriptors, k) == \A j \in DOMAIN descriptors : j > k => descriptors[j].id # descriptors[k].id

SortsBefore(a, b, order) ==
  a.id # "generic/fallback" /\ (b.id = "generic/fallback" \/ order[a.id] < order[b.id])

overlay_and_sort(descriptors, order) ==
  LET winners == {k \in DOMAIN descriptors : Wins(descriptors, k)}
  IN  SortSeq([n \in 1..Cardinality(winners) |-> descriptors[InOrder(winners, Len(descriptors))[n]]],
              LAMBDA a, b : SortsBefore(a, b, order))

load_rules(opts, builtin, order) ==
  overlay_and_sort(
    load_builtin_descriptors(builtin)
      \o (IF opts.exclude_user THEN <<>> ELSE load_disk_descriptors(RulesRoot(opts.user), "user"))
      \o (IF opts.exclude_project THEN <<>>
          ELSE load_disk_descriptors(RulesRoot(opts.project), "project")),
    order)
=============================================================================
