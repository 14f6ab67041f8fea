----------------------------- MODULE Container ------------------------------
(***************************************************************************)
(* The single-file section container (src/container/format.rs): write,     *)
(* filter_to and merge_to, run by several processes over shared paths,     *)
(* with the file-system steps of write_frame one by one, I/O errors,       *)
(* killed processes and power failures.                                    *)
(*                                                                         *)
(* A project is its header `app` and its sections in order; a section is   *)
(* its entry (kind, name, tag) and the compressed blob stored for it, which*)
(* stands for the payload it was compressed from.  A file is as much of a  *)
(* project as has been written to it: the framing with the header is one   *)
(* piece, each blob another.                                               *)
(*                                                                         *)
(* Not the container's: two processes never write the same path at the     *)
(* same time.  They would share one temporary file; nothing in the code    *)
(* keeps them apart and nothing in it claims to.                           *)
(***************************************************************************)
EXTENDS Naturals, Sequences, SequencesExt

CONSTANTS
  Process,    (* the processes that call the container                   *)
  Path,       (* the project files                                       *)
  Saves,      (* the projects a caller may pass to `write`               *)
  Keeps,      (* the tags filter_to may be asked to keep                 *)
  MaxOps,     (* bound: calls made                                       *)
  MaxCrashes  (* bound: power failures                                   *)

ASSUME BoundsAssumption == MaxOps \in Nat /\ MaxCrashes \in Nat
ASSUME SavesAssumption ==
  \A p \in Saves :
    /\ p = [app |-> p.app, sections |-> p.sections]
    /\ p.sections \in Seq(Range(p.sections))
    /\ \A s \in Range(p.sections) :
         s = [kind |-> s.kind, name |-> s.name, tag |-> s.tag, blob |-> s.blob]

VARIABLES
  file,     (* what each path names now                                  *)
  disk,     (* what each path names on disk                              *)
  temp,     (* what the temporary file of each path holds, and whether   *)
            (* it has been synced                                        *)
  call,     (* what each process is doing                                *)
  ops,      (* calls made                                                *)
  crashes   (* power failures so far                                     *)

vars == <<file, disk, temp, call, ops, crashes>>

(* No directory entry. *)
NoFile == [absent |-> TRUE]

-----------------------------------------------------------------------------
(* Projects *)

Key(s) == <<s.kind, s.name>>

(* Wrong on purpose: the entry is looked up one place too early. *)
EntryIndexOffByOne(project, name) ==
  LET i == SelectInSeq(project.sections, LAMBDA s : s.name = name)
  IN IF i > 1 THEN i - 1 ELSE i

(* Reader::entry finds by name alone: the first section of that name. *)
EntryIndex(project, name) == SelectInSeq(project.sections, LAMBDA s : s.name = name)

(* Reader::raw: the blob at the offset of the entry found by name. *)
Raw(project, name) == project.sections[EntryIndex(project, name)].blob

(* The sections as filter_to and merge_to copy them. *)
Copies(project) ==
  [i \in DOMAIN project.sections |->
     [project.sections[i] EXCEPT !.blob = Raw(project, project.sections[i].name)]]

(* The sections of a sequence that are in S, in their order. *)
Only(sections, S) ==
  FoldLeft(LAMBDA kept, s : IF s \in S THEN Append(kept, s) ELSE kept, <<>>, sections)

Without(sections, keys) == Only(sections, {s \in Range(sections) : Key(s) \notin keys})

Filtered(project, tag) ==
  LET copies == Copies(project)
  IN [app |-> project.app, sections |-> Only(copies, {s \in Range(copies) : s.tag = tag})]

(* Wrong on purpose: a section that is there already keeps its old blob. *)
TakeFirstWins(items, s) ==
  IF \E i \in DOMAIN items : Key(items[i]) = Key(s) THEN items ELSE Append(items, s)

(* One turn of `take`: drop what the section replaces, then push it. *)
Take(items, s) == Append(Without(items, {Key(s)}), s)

TakeAll(items, sections) == FoldLeft(LAMBDA taken, s : Take(taken, s), items, sections)

(* Both projects' sections, b's over a's. *)
Union(a, b) == TakeAll(TakeAll(<<>>, Copies(a)), Copies(b))

(* Wrong on purpose: the merged project loses a's header.                  *)
MergedWithoutHeader(a, b) == [app |-> "none", sections |-> Union(a, b)]

(* merge_to: a's header, and the sections of both.                         *)
Merged(a, b) == [app |-> a.app, sections |-> Union(a, b)]

-----------------------------------------------------------------------------
(* Files *)

Pieces(project) == 1 + Len(project.sections)
Whole(f) == f # NoFile /\ f.pieces = Pieces(f.project)
File(project, n, synced) == [project |-> project, pieces |-> n, synced |-> synced]

Idle == [step |-> "idle"]

Init ==
  /\ file \in [Path -> {NoFile} \cup {File(p, Pieces(p), TRUE) : p \in Saves}]
  /\ disk = file
  /\ temp = [p \in Path |-> NoFile]
  /\ call = [p \in Process |-> Idle]
  /\ ops = 0 /\ crashes = 0

Set(p, c) == call' = [call EXCEPT ![p] = c]

(* The caller's side of the exclusion named above. *)
NobodyWrites(path) == \A q \in Process : call[q].step # "idle" => call[q].dst # path

Begin(p, c) == /\ call[p].step = "idle" /\ ops < MaxOps
               /\ ops' = ops + 1
               /\ NobodyWrites(c.dst)
               /\ Set(p, c)
               /\ UNCHANGED <<file, disk, temp, crashes>>

(* write: the sections are compressed before any file is touched. *)
Write(p, dst, project) ==
  Begin(p, [step |-> "create", dst |-> dst, project |-> project])

(* filter_to: src is opened and every kept blob read before dst is begun.  *)
(* The open file keeps its content whatever is renamed over its path.      *)
FilterTo(p, src, dst, tag) ==
  /\ Whole(file[src])
  /\ Begin(p, [step |-> "create", dst |-> dst,
               project |-> Filtered(file[src].project, tag)])

(* merge_to opens a first, then b. *)
MergeTo(p, a, b, dst) ==
  /\ Whole(file[a])
  /\ Begin(p, [step |-> "openb", dst |-> dst, b |-> b, project |-> file[a].project])

OpenB(p) ==
  /\ call[p].step = "openb" /\ Whole(file[call[p].b])
  /\ Set(p, [step |-> "create", dst |-> call[p].dst,
             project |-> Merged(call[p].project, file[call[p].b].project)])
  /\ UNCHANGED <<file, disk, temp, ops, crashes>>

-----------------------------------------------------------------------------
(* write_frame *)

(* File::create(tmp): a left-over temporary file is truncated. *)
Create(p) ==
  /\ call[p].step = "create"
  /\ temp' = [temp EXCEPT ![call[p].dst] = File(call[p].project, 0, FALSE)]
  /\ Set(p, [call[p] EXCEPT !.step = "write"])
  /\ UNCHANGED <<file, disk, ops, crashes>>

WritePiece(p) ==
  LET dst == call[p].dst IN
  /\ call[p].step = "write" /\ temp[dst].pieces < Pieces(call[p].project)
  /\ temp' = [temp EXCEPT ![dst].pieces = @ + 1]
  /\ UNCHANGED <<file, disk, call, ops, crashes>>

(* Wrong on purpose: renamed before its data is sure to be on disk. *)
FlushWithoutSync(p) ==
  /\ call[p].step = "write" /\ temp[call[p].dst].pieces = Pieces(call[p].project)
  /\ Set(p, [call[p] EXCEPT !.step = "rename"])
  /\ UNCHANGED <<file, disk, temp, ops, crashes>>

SyncAll(p) ==
  LET dst == call[p].dst IN
  /\ call[p].step = "write" /\ temp[dst].pieces = Pieces(call[p].project)
  /\ temp' = [temp EXCEPT ![dst].synced = TRUE]
  /\ Set(p, [call[p] EXCEPT !.step = "rename"])
  /\ UNCHANGED <<file, disk, ops, crashes>>

Rename(p) ==
  LET dst == call[p].dst IN
  /\ call[p].step = "rename"
  /\ file' = [file EXCEPT ![dst] = temp[dst]]
  /\ temp' = [temp EXCEPT ![dst] = NoFile]
  /\ Set(p, Idle)
  /\ UNCHANGED <<disk, ops, crashes>>

(* Wrong on purpose: a failed save cleans up the wrong file. *)
StopAndUnlink(p) ==
  /\ call[p].step # "idle"
  /\ file' = [file EXCEPT ![call[p].dst] = NoFile]
  /\ Set(p, Idle)
  /\ UNCHANGED <<disk, temp, ops, crashes>>

(* Any step may return an I/O error, and a process may be killed at any    *)
(* step: the call is over, its temporary file stays as it is.              *)
Stop(p) ==
  /\ call[p].step # "idle"
  /\ Set(p, Idle)
  /\ UNCHANGED <<file, disk, temp, ops, crashes>>

-----------------------------------------------------------------------------
(* The file system *)

(* The directory entry of a path reaches the disk. *)
Settle(path) ==
  /\ disk[path] # file[path]
  /\ disk' = [disk EXCEPT ![path] = file[path]]
  /\ UNCHANGED <<file, temp, call, ops, crashes>>

(* What a power failure can leave of a file: all of it if it was synced,   *)
(* else any of its prefixes.                                               *)
Survivors(f) == IF f = NoFile \/ f.synced THEN {f}
                ELSE {[f EXCEPT !.pieces = n] : n \in 0..f.pieces}

(* The temporary files are forgotten: whatever is left of one, a later     *)
(* call truncates it before it writes to it, and nobody reads it.          *)
PowerFailure ==
  /\ crashes < MaxCrashes
  /\ crashes' = crashes + 1
  /\ call' = [p \in Process |-> Idle]
  /\ temp' = [path \in Path |-> NoFile]
  /\ \E left \in [Path -> UNION {Survivors(f) : f \in Range(file) \cup Range(disk)}] :
       /\ \A path \in Path : left[path] \in Survivors(file[path]) \cup Survivors(disk[path])
       /\ file' = left /\ disk' = left
  /\ UNCHANGED ops

Next ==
  \/ \E p \in Process :
       \/ \E dst \in Path, project \in Saves : Write(p, dst, project)
       \/ \E src, dst \in Path, tag \in Keeps : FilterTo(p, src, dst, tag)
       \/ \E a, b, dst \in Path : MergeTo(p, a, b, dst)
       \/ OpenB(p) \/ Create(p) \/ WritePiece(p) \/ SyncAll(p) \/ Rename(p) \/ Stop(p)
  \/ \E path \in Path : Settle(path)
  \/ PowerFailure

Spec == Init /\ [][Next]_vars

-----------------------------------------------------------------------------
SavedSections == UNION {Range(p.sections) : p \in Saves}

Section == [kind: {s.kind : s \in SavedSections}, name: {s.name : s \in SavedSections},
            tag: {s.tag : s \in SavedSections}, blob: {s.blob : s \in SavedSections}]

AllProjects == [app: {p.app : p \in Saves}, sections: Seq(Section)]

Files == {NoFile} \cup [project: AllProjects, pieces: Nat, synced: BOOLEAN]

TypeOK ==
  /\ file \in [Path -> Files] /\ disk \in [Path -> Files] /\ temp \in [Path -> Files]
  /\ call \in [Process -> {Idle}
                \cup [step: {"create", "write", "rename"}, dst: Path, project: AllProjects]
                \cup [step: {"openb"}, dst: Path, b: Path, project: AllProjects]]
  /\ ops \in 0..MaxOps /\ crashes \in 0..MaxCrashes

(* "a crash never corrupts an existing project" (format.rs:80): whatever a *)
(* path names, now or after a power failure, is a whole project.           *)
NeverCorrupt == \A path \in Path : \A f \in {file[path], disk[path]} : f = NoFile \/ Whole(f)

(* Every blob is stored under the entry it was saved for, however often it *)
(* was filtered and merged.  (format.rs:206-208, 222-223)                  *)
BlobsMatchEntries ==
  \A path \in Path : file[path] # NoFile =>
    \A i \in DOMAIN file[path].project.sections :
      LET s == file[path].project.sections[i] IN s.blob.of = Key(s)

(* What a merge under way will write is the last-writer-wins union: b's    *)
(* sections win, the others of a keep their order, and come first.         *)
(* (format.rs:222-223)                                                     *)
LastWriterWins ==
  \A p \in Process : call[p].step = "openb" /\ Whole(file[call[p].b]) =>
    LET a == call[p].project
        b == file[call[p].b].project
    IN Merged(a, b) =
         [app |-> a.app,
          sections |-> Without(a.sections, {Key(s) : s \in Range(b.sections)}) \o b.sections]

(* Each save is one atomic replacement of the project at its path.         *)
Seen(f) == IF f = NoFile THEN [is |-> "nothing"]
           ELSE IF Whole(f) THEN [is |-> "project", project |-> f.project]
           ELSE [is |-> "corrupt"]

Atomic == INSTANCE AtomicProjects WITH
  seen <- [path \in Path |-> Seen(file[path])],
  kept <- [path \in Path |-> Seen(disk[path])]

AtomicSaves == Atomic!Spec
=============================================================================
