--------------------------- MODULE AtomicProjects ---------------------------
(***************************************************************************)
(* What the container promises of the project file at each path, without   *)
(* temporary files: a save replaces the whole project in one step, and a   *)
(* crash leaves, at each path, the project before or after the last save.  *)
(***************************************************************************)
CONSTANT Path

VARIABLES
  seen,   (* what a reader of the path gets now, a record that says       *)
          (* whether it `is` "nothing" or a "project"                     *)
  kept    (* the one that is sure to survive a crash                      *)

vars == <<seen, kept>>

Init ==
  /\ DOMAIN seen = Path /\ \A path \in Path : seen[path].is \in {"nothing", "project"}
  /\ kept = seen

(* Some project is published at path; nothing else changes. *)
Publish(path) ==
  /\ seen'[path].is = "project"
  /\ seen' = [seen EXCEPT ![path] = seen'[path]]
  /\ UNCHANGED kept

(* The directory entry reaches the disk some time later. *)
Settle(path) ==
  /\ kept' = [kept EXCEPT ![path] = seen[path]]
  /\ UNCHANGED seen

Crash ==
  /\ DOMAIN seen' = Path /\ \A path \in Path : seen'[path] \in {seen[path], kept[path]}
  /\ kept' = seen'

Next == \/ \E path \in Path : Publish(path) \/ Settle(path)
        \/ Crash

Spec == Init /\ [][Next]_vars
=============================================================================
