-------------------------- MODULE ContainerProofs ---------------------------
(***************************************************************************)
(* Proofs about Container, for every number of processes, paths, saves and *)
(* power failures: a save never corrupts a project, filters and merges     *)
(* keep every blob under its own entry, and b's sections win.              *)
(***************************************************************************)
EXTENDS Container, FiniteSetTheorems, WellFoundedInduction, TLAPS

(* A file that a power failure leaves as it is.                            *)
Durable(f) == f = NoFile \/ (f.pieces = Pieces(f.project) /\ f.synced)

(* A call under way: which path it writes, and what it will have written.  *)
CallShape(c) ==
  \/ c = Idle
  \/ /\ c.step \in {"openb", "create", "write", "rename"}
     /\ c.dst \in Path
     /\ \/ c = [step |-> c.step, dst |-> c.dst, project |-> c.project]
        \/ c = [step |-> "openb", dst |-> c.dst, b |-> c.b, project |-> c.project]

(* What a call has made of its temporary file: a part of its project, and, *)
(* when it is about to be renamed, all of it, synced.                      *)
TempFollowsCall(c) ==
  /\ c.step = "write" => temp[c.dst] = File(c.project, temp[c.dst].pieces, temp[c.dst].synced)
  /\ c.step = "rename" => temp[c.dst] = File(c.project, Pieces(c.project), TRUE)

Inv ==
  /\ file = [path \in Path |-> file[path]]
  /\ disk = [path \in Path |-> disk[path]]
  /\ temp = [path \in Path |-> temp[path]]
  /\ call = [p \in Process |-> call[p]]
  /\ \A path \in Path : Durable(file[path]) /\ Durable(disk[path])
  /\ \A p \in Process : CallShape(call[p]) /\ TempFollowsCall(call[p])
  /\ \A p, q \in Process : p # q /\ call[p].step # "idle" /\ call[q].step # "idle"
                             => call[p].dst # call[q].dst

LEMMA IdleStep == Idle.step = "idle" /\ CallShape(Idle) /\ TempFollowsCall(Idle)
BY DEF Idle, CallShape, TempFollowsCall

LEMMA InitInv == Init => Inv
<1> SUFFICES ASSUME Init PROVE Inv
  OBVIOUS
<1>1. ASSUME NEW path \in Path PROVE Durable(file[path]) /\ Durable(disk[path])
  BY DEF Init, Durable, File
<1>2. ASSUME NEW p \in Process PROVE call[p] = Idle
  BY DEF Init
<1>3. QED
  BY <1>1, <1>2, IdleStep DEF Init, Inv

(* A step that only changes what process p is doing, and the files of the  *)
(* path it writes.                                                         *)
LEMMA CallStep ==
  ASSUME Inv, NEW p \in Process, NEW c, CallShape(c),
         call' = [call EXCEPT ![p] = c],
         \A q \in Process \ {p} : call[q].step # "idle" /\ c.step # "idle" => call[q].dst # c.dst,
         temp' = [path \in Path |-> temp'[path]],
         \A q \in Process \ {p} : call[q].step # "idle" => temp'[call[q].dst] = temp[call[q].dst],
         TempFollowsCall(c)',
         file' = [path \in Path |-> file'[path]],
         disk' = [path \in Path |-> disk'[path]],
         \A path \in Path : Durable(file[path])' /\ Durable(disk[path])'
  PROVE  Inv'
<1>1. call' = [q \in Process |-> call'[q]]
  BY DEF Inv
<1>2. call'[p] = c /\ \A q \in Process \ {p} : call'[q] = call[q]
  BY DEF Inv
<1>3. ASSUME NEW q \in Process PROVE CallShape(call[q])' /\ TempFollowsCall(call[q])'
  <2>1. CASE q = p
    BY <2>1, <1>2 DEF CallShape, TempFollowsCall
  <2>2. CASE q # p
    <3>1. call'[q] = call[q] /\ CallShape(call[q]) /\ TempFollowsCall(call[q])
      BY <1>2, <2>2 DEF Inv
    <3>2. call[q].step \in {"write", "rename"} => temp'[call[q].dst] = temp[call[q].dst]
      BY <2>2
    <3>3. QED
      BY <3>1, <3>2 DEF CallShape, TempFollowsCall
  <2>3. QED
    BY <2>1, <2>2
<1>4. ASSUME NEW q \in Process, NEW r \in Process, q # r,
             call'[q].step # "idle", call'[r].step # "idle"
      PROVE  call'[q].dst # call'[r].dst
  BY <1>2, <1>4 DEF Inv
<1>5. QED
  BY <1>1, <1>3, <1>4 DEF Inv

-----------------------------------------------------------------------------
LEMMA BeginInv ==
  ASSUME Inv, NEW p \in Process, NEW dst \in Path, NEW c, c.dst = dst,
         c.step \in {"create", "openb"}, CallShape(c), Begin(p, c)
  PROVE  Inv'
<1>1. \A q \in Process \ {p} : call[q].step # "idle" => call[q].dst # c.dst
  BY DEF Begin, NobodyWrites
<1>2. TempFollowsCall(c)'
  BY DEF TempFollowsCall
<1>3. \A path \in Path : Durable(file[path])' /\ Durable(disk[path])'
  BY DEF Begin, Inv, Durable
<1>4. QED
  BY <1>1, <1>2, <1>3, CallStep DEF Begin, Set, Inv

LEMMA OpenBInv ==
  ASSUME Inv, NEW p \in Process, OpenB(p)
  PROVE  Inv'
<1>1. PICK c : c = [step |-> "create", dst |-> call[p].dst,
                    project |-> Merged(call[p].project, file[call[p].b].project)]
  OBVIOUS
<1>2. call[p].dst \in Path /\ call[p].step # "idle"
  BY DEF Inv, OpenB, CallShape, Idle
<1>3. c.dst = call[p].dst /\ c.step = "create" /\ CallShape(c)
  BY <1>1, <1>2 DEF CallShape
<1>4. TempFollowsCall(c)'
  BY <1>3 DEF TempFollowsCall
<1>5. \A path \in Path : Durable(file[path])' /\ Durable(disk[path])'
  BY DEF OpenB, Inv, Durable
<1>6. \A q \in Process \ {p} : call[q].step # "idle" => call[q].dst # c.dst
  BY <1>2, <1>3 DEF Inv
<1>7. call' = [call EXCEPT ![p] = c] /\ UNCHANGED <<file, disk, temp>>
  BY <1>1 DEF OpenB, Set
<1>8. QED
  BY <1>3, <1>4, <1>5, <1>6, <1>7, CallStep DEF Inv

(* The steps of write_frame: call[p] is a whole record.                    *)
LEMMA WritingCall ==
  ASSUME Inv, NEW p \in Process, call[p].step \in {"create", "write", "rename"}
  PROVE  /\ call[p] = [step |-> call[p].step, dst |-> call[p].dst, project |-> call[p].project]
         /\ call[p].dst \in Path
         /\ TempFollowsCall(call[p])
         /\ \A q \in Process \ {p} : call[q].step # "idle" => call[q].dst # call[p].dst
<1>1. CallShape(call[p]) /\ TempFollowsCall(call[p])
  BY DEF Inv
<1>2. call[p] # Idle /\ call[p].step # "idle"
  BY DEF Idle
<1>3. QED
  BY <1>1, <1>2 DEF CallShape, Inv

(* No other call's temporary file is the one that p writes.                *)
LEMMA OthersKeepTheirs ==
  ASSUME Inv, NEW p \in Process, call[p].step \in {"create", "write", "rename"},
         NEW f, temp' = [temp EXCEPT ![call[p].dst] = f]
  PROVE  /\ temp' = [path \in Path |-> temp'[path]]
         /\ temp'[call[p].dst] = f
         /\ \A q \in Process \ {p} :
              call[q].step # "idle" => temp'[call[q].dst] = temp[call[q].dst]
<1>1. /\ call[p].dst \in Path
      /\ \A q \in Process \ {p} : call[q].step # "idle" => call[q].dst # call[p].dst
  BY WritingCall
<1>2. \A q \in Process : call[q].step # "idle" => call[q].dst \in Path
  BY DEF Inv, CallShape, Idle
<1>3. temp' = [path \in Path |-> temp'[path]] /\ temp'[call[p].dst] = f
  BY <1>1 DEF Inv
<1>4. \A q \in Process \ {p} : call[q].step # "idle" => temp'[call[q].dst] = temp[call[q].dst]
  BY <1>1, <1>2 DEF Inv
<1>5. QED
  BY <1>3, <1>4

LEMMA CreateInv ==
  ASSUME Inv, NEW p \in Process, Create(p)
  PROVE  Inv'
<1>1. PICK c : c = [call[p] EXCEPT !.step = "write"]
  OBVIOUS
<1>2. /\ call[p] = [step |-> call[p].step, dst |-> call[p].dst, project |-> call[p].project]
      /\ call[p].dst \in Path
      /\ \A q \in Process \ {p} : call[q].step # "idle" => call[q].dst # call[p].dst
  BY WritingCall DEF Create
<1>3. c = [step |-> "write", dst |-> call[p].dst, project |-> call[p].project]
  BY <1>1, <1>2
<1>4. CallShape(c)
  BY <1>2, <1>3 DEF CallShape
<1>5. /\ temp' = [path \in Path |-> temp'[path]]
      /\ temp'[call[p].dst] = File(call[p].project, 0, FALSE)
      /\ \A q \in Process \ {p} :
           call[q].step # "idle" => temp'[call[q].dst] = temp[call[q].dst]
  BY OthersKeepTheirs DEF Create
<1>6. TempFollowsCall(c)'
  BY <1>3, <1>5 DEF TempFollowsCall, File
<1>7. \A path \in Path : Durable(file[path])' /\ Durable(disk[path])'
  BY DEF Create, Inv, Durable
<1>8. call' = [call EXCEPT ![p] = c] /\ UNCHANGED <<file, disk>>
  BY <1>1 DEF Create, Set
<1>9. QED
  BY <1>2, <1>3, <1>4, <1>5, <1>6, <1>7, <1>8, CallStep DEF Inv

LEMMA WritePieceInv ==
  ASSUME Inv, NEW p \in Process, WritePiece(p)
  PROVE  Inv'
<1>1. PICK c : c = call[p]
  OBVIOUS
<1>2. PICK f : f = [temp[call[p].dst] EXCEPT !.pieces = @ + 1]
  OBVIOUS
<1>3. call[p].step = "write" /\ temp' = [temp EXCEPT ![call[p].dst] = f]
  BY <1>2 DEF WritePiece
<1>4. /\ call[p].dst \in Path
      /\ TempFollowsCall(call[p])
      /\ \A q \in Process \ {p} : call[q].step # "idle" => call[q].dst # call[p].dst
  BY <1>3, WritingCall
<1>5. /\ temp' = [path \in Path |-> temp'[path]]
      /\ temp'[call[p].dst] = f
      /\ \A q \in Process \ {p} :
           call[q].step # "idle" => temp'[call[q].dst] = temp[call[q].dst]
  BY <1>3, OthersKeepTheirs
<1>6. f = File(call[p].project, f.pieces, f.synced)
  BY <1>2, <1>3, <1>4 DEF TempFollowsCall, File
<1>7. CallShape(c) /\ TempFollowsCall(c)'
  BY <1>1, <1>3, <1>5, <1>6 DEF Inv, TempFollowsCall
<1>8. \A path \in Path : Durable(file[path])' /\ Durable(disk[path])'
  BY DEF WritePiece, Inv, Durable
<1>9. call' = [call EXCEPT ![p] = c] /\ UNCHANGED <<file, disk>>
  BY <1>1 DEF WritePiece, Inv
<1>10. QED
  BY <1>1, <1>4, <1>5, <1>7, <1>8, <1>9, CallStep DEF Inv

LEMMA SyncAllInv ==
  ASSUME Inv, NEW p \in Process, SyncAll(p)
  PROVE  Inv'
<1>1. PICK c : c = [call[p] EXCEPT !.step = "rename"]
  OBVIOUS
<1>2. PICK f : f = [temp[call[p].dst] EXCEPT !.synced = TRUE]
  OBVIOUS
<1>3. /\ call[p].step = "write"
      /\ temp[call[p].dst].pieces = Pieces(call[p].project)
      /\ temp' = [temp EXCEPT ![call[p].dst] = f]
  BY <1>2 DEF SyncAll
<1>4. /\ call[p] = [step |-> call[p].step, dst |-> call[p].dst, project |-> call[p].project]
      /\ call[p].dst \in Path
      /\ TempFollowsCall(call[p])
      /\ \A q \in Process \ {p} : call[q].step # "idle" => call[q].dst # call[p].dst
  BY <1>3, WritingCall
<1>5. /\ temp' = [path \in Path |-> temp'[path]]
      /\ temp'[call[p].dst] = f
      /\ \A q \in Process \ {p} :
           call[q].step # "idle" => temp'[call[q].dst] = temp[call[q].dst]
  BY <1>3, OthersKeepTheirs
<1>6. f = File(call[p].project, Pieces(call[p].project), TRUE)
  <2>1. PICK n, s : n = temp[call[p].dst].pieces /\ s = temp[call[p].dst].synced
    OBVIOUS
  <2>2. temp[call[p].dst] = [project |-> call[p].project, pieces |-> n, synced |-> s]
    BY <1>3, <1>4, <2>1 DEF TempFollowsCall, File
  <2>3. f = [project |-> call[p].project, pieces |-> n, synced |-> TRUE]
    <3>1. PICK t, x : t = temp[call[p].dst] /\ x = call[p].project
      OBVIOUS
    <3>2. t = [project |-> x, pieces |-> n, synced |-> s] /\ f = [t EXCEPT !.synced = TRUE]
      BY <1>2, <2>2, <3>1
    <3>3. f = [project |-> x, pieces |-> n, synced |-> TRUE]
      BY <3>2
    <3>4. QED
      BY <3>1, <3>3
  <2>4. n = Pieces(call[p].project)
    BY <1>3, <2>1
  <2>5. QED
    BY <2>3, <2>4 DEF File
<1>7. c = [step |-> "rename", dst |-> call[p].dst, project |-> call[p].project]
  BY <1>1, <1>4
<1>8. CallShape(c)
  BY <1>4, <1>7 DEF CallShape
<1>9. TempFollowsCall(c)'
  BY <1>5, <1>6, <1>7 DEF TempFollowsCall, Pieces, File
<1>10. \A path \in Path : Durable(file[path])' /\ Durable(disk[path])'
  BY DEF SyncAll, Inv, Durable
<1>11. call' = [call EXCEPT ![p] = c] /\ UNCHANGED <<file, disk>>
  BY <1>1 DEF SyncAll, Set
<1>12. QED
  BY <1>4, <1>5, <1>7, <1>8, <1>9, <1>10, <1>11, CallStep DEF Inv

LEMMA RenameInv ==
  ASSUME Inv, NEW p \in Process, Rename(p)
  PROVE  Inv'
<1>1. /\ call[p].dst \in Path
      /\ TempFollowsCall(call[p])
      /\ \A q \in Process \ {p} : call[q].step # "idle" => call[q].dst # call[p].dst
  BY WritingCall DEF Rename
<1>2. temp[call[p].dst] = File(call[p].project, Pieces(call[p].project), TRUE)
  BY <1>1 DEF Rename, TempFollowsCall
<1>3. Durable(temp[call[p].dst])
  BY <1>2 DEF Durable, File, Pieces
<1>4. file' = [file EXCEPT ![call[p].dst] = temp[call[p].dst]] /\ disk' = disk
  BY DEF Rename
<1>5. file' = [path \in Path |-> file'[path]]
  BY <1>4 DEF Inv
<1>6. \A path \in Path :
        file'[path] = IF path = call[p].dst THEN temp[call[p].dst] ELSE file[path]
  BY <1>4 DEF Inv
<1>7. \A path \in Path : Durable(file[path])' /\ Durable(disk[path])'
  BY <1>3, <1>4, <1>6 DEF Inv, Durable
<1>8. /\ temp' = [path \in Path |-> temp'[path]]
      /\ \A q \in Process \ {p} :
           call[q].step # "idle" => temp'[call[q].dst] = temp[call[q].dst]
  BY OthersKeepTheirs DEF Rename
<1>9. PICK c : c = Idle
  OBVIOUS
<1>10. c.step = "idle" /\ CallShape(c) /\ TempFollowsCall(c)'
  BY <1>9 DEF CallShape, TempFollowsCall, Idle
<1>11. call' = [call EXCEPT ![p] = c] /\ disk' = [path \in Path |-> disk'[path]]
  BY <1>4, <1>9 DEF Inv, Rename, Set
<1>12. QED
  BY <1>5, <1>7, <1>8, <1>10, <1>11, CallStep

LEMMA StopInv ==
  ASSUME Inv, NEW p \in Process, Stop(p)
  PROVE  Inv'
<1>1. TempFollowsCall(Idle)'
  BY DEF TempFollowsCall, Idle
<1>2. \A path \in Path : Durable(file[path])' /\ Durable(disk[path])'
  BY DEF Stop, Inv, Durable
<1>3. QED
  BY <1>1, <1>2, IdleStep, CallStep DEF Inv, Stop, Set

-----------------------------------------------------------------------------
LEMMA SettleInv ==
  ASSUME Inv, NEW path \in Path, Settle(path)
  PROVE  Inv'
<1>1. disk' = [disk EXCEPT ![path] = file[path]] /\ UNCHANGED <<file, temp, call>>
  BY DEF Settle
<1>2. disk' = [x \in Path |-> disk'[x]]
  BY <1>1 DEF Inv
<1>3. \A x \in Path : Durable(file[x])' /\ Durable(disk[x])'
  <2>1. \A x \in Path : disk'[x] = IF x = path THEN file[path] ELSE disk[x]
    BY <1>1 DEF Inv
  <2>2. QED
    BY <1>1, <2>1 DEF Inv, Durable
<1>4. \A p \in Process : CallShape(call[p])' /\ TempFollowsCall(call[p])'
  BY <1>1 DEF Inv, CallShape, TempFollowsCall
<1>5. QED
  BY <1>1, <1>2, <1>3, <1>4 DEF Inv

(* What a power failure leaves of a durable file is that file.             *)
LEMMA DurableSurvives == \A f : Durable(f) => Survivors(f) = {f}
BY DEF Durable, Survivors

LEMMA PowerFailureInv ==
  ASSUME Inv, PowerFailure
  PROVE  Inv'
<1>1. PICK left \in [Path -> UNION {Survivors(f) : f \in Range(file) \cup Range(disk)}] :
        /\ \A path \in Path : left[path] \in Survivors(file[path]) \cup Survivors(disk[path])
        /\ file' = left /\ disk' = left
  BY DEF PowerFailure
<1>2. ASSUME NEW path \in Path PROVE Durable(left[path])
  <2>1. Survivors(file[path]) = {file[path]} /\ Survivors(disk[path]) = {disk[path]}
    BY DurableSurvives DEF Inv
  <2>2. left[path] = file[path] \/ left[path] = disk[path]
    BY <1>1, <2>1
  <2>3. QED
    BY <2>2 DEF Inv
<1>3. \A path \in Path : Durable(file[path])' /\ Durable(disk[path])'
  BY <1>1, <1>2 DEF Durable
<1>4. file' = [path \in Path |-> file'[path]] /\ disk' = [path \in Path |-> disk'[path]]
  BY <1>1
<1>5. call' = [p \in Process |-> Idle] /\ temp' = [path \in Path |-> NoFile]
  BY DEF PowerFailure
<1>6. \A p \in Process : CallShape(call[p])' /\ TempFollowsCall(call[p])'
  BY <1>5 DEF CallShape, TempFollowsCall, Idle
<1>7. QED
  BY <1>3, <1>4, <1>5, <1>6, IdleStep DEF Inv

-----------------------------------------------------------------------------
LEMMA StepInv == Inv /\ [Next]_vars => Inv'
<1> SUFFICES ASSUME Inv, [Next]_vars PROVE Inv'
  OBVIOUS
<1>1. ASSUME NEW p \in Process, NEW dst \in Path, NEW project \in Saves, Write(p, dst, project)
      PROVE  Inv'
  <2>1. PICK c : c = [step |-> "create", dst |-> dst, project |-> project]
    OBVIOUS
  <2>2. CallShape(c) /\ c.dst = dst /\ c.step = "create"
    BY <2>1 DEF CallShape
  <2>3. QED
    BY <1>1, <2>1, <2>2, BeginInv DEF Write
<1>2. ASSUME NEW p \in Process, NEW src \in Path, NEW dst \in Path, NEW tag \in Keeps,
             FilterTo(p, src, dst, tag)
      PROVE  Inv'
  <2>1. PICK c : c = [step |-> "create", dst |-> dst,
                      project |-> Filtered(file[src].project, tag)]
    OBVIOUS
  <2>2. CallShape(c) /\ c.dst = dst /\ c.step = "create"
    BY <2>1 DEF CallShape
  <2>3. QED
    BY <1>2, <2>1, <2>2, BeginInv DEF FilterTo
<1>3. ASSUME NEW p \in Process, NEW a \in Path, NEW b \in Path, NEW dst \in Path,
             MergeTo(p, a, b, dst)
      PROVE  Inv'
  <2>1. PICK c : c = [step |-> "openb", dst |-> dst, b |-> b, project |-> file[a].project]
    OBVIOUS
  <2>2. CallShape(c) /\ c.dst = dst /\ c.step = "openb"
    BY <2>1 DEF CallShape
  <2>3. QED
    BY <1>3, <2>1, <2>2, BeginInv DEF MergeTo
<1>4. CASE UNCHANGED vars
  BY <1>4 DEF vars, Inv, Durable, CallShape, TempFollowsCall
<1>5. QED
  BY <1>1, <1>2, <1>3, <1>4, OpenBInv, CreateInv, WritePieceInv, SyncAllInv, RenameInv,
     StopInv, SettleInv, PowerFailureInv DEF Next

THEOREM CallsInv == Spec => []Inv
<1>1. QED
  BY InitInv, StepInv, PTL DEF Spec

(* Whatever a path names, now or after a power failure at any moment, is a *)
(* whole project, or nothing: the promise of format.rs:80.                 *)
THEOREM NeverCorrupts == Spec => []NeverCorrupt
<1>1. Inv => NeverCorrupt
  BY DEF Inv, NeverCorrupt, Durable, Whole
<1>2. QED
  BY <1>1, CallsInv, PTL

-----------------------------------------------------------------------------
(* The container implements AtomicProjects.                                *)

LEMMA FileIsSomething == \A project, n, synced : File(project, n, synced) # NoFile
<1> SUFFICES ASSUME NEW project, NEW n, NEW synced PROVE File(project, n, synced) # NoFile
  OBVIOUS
<1>1. DOMAIN File(project, n, synced) = {"project", "pieces", "synced"} /\ DOMAIN NoFile = {"absent"}
  BY DEF File, NoFile
<1>2. QED
  BY <1>1

LEMMA SeenWhole ==
  \A project : Seen(File(project, Pieces(project), TRUE)) = [is |-> "project", project |-> project]
BY FileIsSomething DEF Seen, Whole, File, Pieces

LEMMA SeenDurable == ASSUME NEW f, Durable(f) PROVE Seen(f).is \in {"nothing", "project"}
BY DEF Durable, Seen, Whole

LEMMA InitImplements == Init => Atomic!Init
<1> SUFFICES ASSUME Init PROVE Atomic!Init
  OBVIOUS
<1>1. Inv /\ disk = file
  BY InitInv DEF Init
<1>2. \A path \in Path : Seen(file[path]).is \in {"nothing", "project"}
  BY <1>1, SeenDurable DEF Inv
<1>3. QED
  BY <1>1, <1>2 DEF Atomic!Init

LEMMA RenameImplements ==
  ASSUME Inv, NEW p \in Process, Rename(p)
  PROVE  \E path \in Path : Atomic!Publish(path)
<1> DEFINE dst == call[p].dst
<1>1. dst \in Path /\ TempFollowsCall(call[p])
  BY WritingCall DEF Rename
<1>2. temp[dst] = File(call[p].project, Pieces(call[p].project), TRUE)
  BY <1>1 DEF Rename, TempFollowsCall
<1>3. Seen(temp[dst]).is = "project"
  <2>1. PICK project : project = call[p].project
    OBVIOUS
  <2>2. Seen(File(project, Pieces(project), TRUE)) = [is |-> "project", project |-> project]
    BY SeenWhole
  <2>3. Seen(temp[dst]) = [is |-> "project", project |-> project]
    BY <1>2, <2>1, <2>2
  <2>4. QED
    BY <2>3
<1>4. disk' = disk /\ \A path \in Path : file'[path] = IF path = dst THEN temp[dst] ELSE file[path]
  BY DEF Rename, Inv
<1>5. [path \in Path |-> Seen(file'[path])]
        = [[path \in Path |-> Seen(file[path])] EXCEPT ![dst] = Seen(temp[dst])]
  <2>1. \A path \in Path : Seen(file'[path]) = IF path = dst THEN Seen(temp[dst]) ELSE Seen(file[path])
    BY <1>4
  <2>2. QED
    BY <1>1, <2>1
<1>6. Atomic!Publish(dst)
  <2>1. [path \in Path |-> Seen(file'[path])][dst] = Seen(temp[dst])
    BY <1>1, <1>4
  <2>2. QED
    BY <1>3, <1>4, <1>5, <2>1 DEF Atomic!Publish
<1>7. QED
  BY <1>1, <1>6

LEMMA SettleImplements ==
  ASSUME Inv, NEW path \in Path, Settle(path)
  PROVE  Atomic!Settle(path)
<1>1. file' = file /\ \A x \in Path : disk'[x] = IF x = path THEN file[path] ELSE disk[x]
  BY DEF Settle, Inv
<1>2. [x \in Path |-> Seen(disk'[x])]
        = [[x \in Path |-> Seen(disk[x])] EXCEPT ![path] = Seen(file[path])]
  BY <1>1
<1>3. QED
  BY <1>1, <1>2 DEF Atomic!Settle

LEMMA PowerFailureImplements ==
  ASSUME Inv, PowerFailure
  PROVE  Atomic!Crash
<1>1. PICK left \in [Path -> UNION {Survivors(f) : f \in Range(file) \cup Range(disk)}] :
        /\ \A path \in Path : left[path] \in Survivors(file[path]) \cup Survivors(disk[path])
        /\ file' = left /\ disk' = left
  BY DEF PowerFailure
<1>2. \A path \in Path : file'[path] = file[path] \/ file'[path] = disk[path]
  BY <1>1, DurableSurvives DEF Inv
<1>3. \A path \in Path : Seen(file'[path]) \in {Seen(file[path]), Seen(disk[path])}
  BY <1>2
<1>4. QED
  BY <1>1, <1>3 DEF Atomic!Crash

(* Every save is one atomic replacement of the project at its path, and a  *)
(* power failure takes back at most the last: a rename publishes, the disk *)
(* settles, a power failure crashes, and every other step is a stutter.    *)
THEOREM SavesAreAtomic == Spec => AtomicSaves
<1>1. Inv /\ [Next]_vars => [Atomic!Next]_(Atomic!vars)
  <2> SUFFICES ASSUME Inv, [Next]_vars PROVE [Atomic!Next]_(Atomic!vars)
    OBVIOUS
  <2>1. ASSUME UNCHANGED <<file, disk>> PROVE UNCHANGED Atomic!vars
    BY <2>1 DEF Atomic!vars
  <2>2. ASSUME NEW p \in Process, Rename(p) PROVE Atomic!Next
    BY <2>2, RenameImplements DEF Atomic!Next
  <2>3. ASSUME NEW path \in Path, Settle(path) PROVE Atomic!Next
    BY <2>3, SettleImplements DEF Atomic!Next
  <2>4. CASE PowerFailure
    BY <2>4, PowerFailureImplements DEF Atomic!Next
  <2>5. ASSUME \E p \in Process :
                 \/ \E dst \in Path, project \in Saves : Write(p, dst, project)
                 \/ \E src, dst \in Path, tag \in Keeps : FilterTo(p, src, dst, tag)
                 \/ \E a, b, dst \in Path : MergeTo(p, a, b, dst)
                 \/ OpenB(p) \/ Create(p) \/ WritePiece(p) \/ SyncAll(p) \/ Stop(p)
        PROVE  UNCHANGED <<file, disk>>
    BY <2>5 DEF Write, FilterTo, MergeTo, Begin, OpenB, Create, WritePiece, SyncAll, Stop
  <2>6. CASE UNCHANGED vars
    BY <2>1, <2>6 DEF vars
  <2>7. QED
    BY <2>1, <2>2, <2>3, <2>4, <2>5, <2>6 DEF Next
<1>2. QED
  BY InitImplements, CallsInv, <1>1, PTL DEF Spec, AtomicSaves, Atomic!Spec
-----------------------------------------------------------------------------
(* What Only and TakeAll compute, one section at a time.                   *)

(* A set of naturals has a least element: induction over sequences.        *)
LEMMA Least ==
  ASSUME NEW T, T \subseteq Nat, T # {}
  PROVE  \E i \in T : \A j \in T : i <= j
<1>1. PICK i \in T : \A j \in T : ~(<<j, i>> \in OpToRel(<, Nat))
  BY NatLessThanWellFounded, WFMin
<1>2. ASSUME NEW j \in T PROVE i <= j
  <2>1. <<j, i>> \in Nat \X Nat /\ i \in Nat /\ j \in Nat
    OBVIOUS
  <2>2. OpToRel(<, Nat) = {ss \in Nat \X Nat : ss[1] < ss[2]}
    BY DEF OpToRel
  <2>3. ~(j < i)
    BY <1>1, <2>1, <2>2
  <2>4. QED
    BY <2>1, <2>3
<1>3. QED
  BY <1>2

LEMMA MaxIn ==
  ASSUME NEW n \in Nat, NEW s, s \subseteq 1..n, s # {}
  PROVE  Max(s) \in s /\ \A i \in s : i <= Max(s)
<1> DEFINE T == {m \in Nat : \A i \in s : i <= m}
<1>1. PICK m \in T : \A k \in T : m <= k
  <2>1. n \in T
    OBVIOUS
  <2>2. T \subseteq Nat /\ T # {}
    BY <2>1
  <2> HIDE DEF T
  <2>3. QED
    BY <2>2, Least
<1>2. ASSUME m \notin s PROVE FALSE
  <2>1. \A i \in s : i \in Nat /\ i <= m /\ i # m /\ i >= 1
    BY <1>1, <1>2
  <2>2. m - 1 \in Nat /\ \A i \in s : i <= m - 1
    <3>1. PICK i \in s : i >= 1 /\ i <= m
      BY <2>1
    <3>2. m \in Nat /\ i \in Nat
      BY <1>1, <2>1
    <3>3. QED
      BY <2>1, <3>1, <3>2
  <2>3. m - 1 \in T
    BY <2>2
  <2>4. QED
    BY <1>1, <2>2, <2>3
<1>3. m \in s /\ \A i \in s : m >= i
  BY <1>1, <1>2
<1>4. Max(s) \in s /\ \A i \in s : Max(s) >= i
  BY <1>3 DEF Max
<1>5. QED
  BY <1>4

(* Some positions of a sequence.                                           *)
Positions(s) == \E n \in Nat : s \subseteq 1..n

LEMMA SomePositions ==
  ASSUME NEW s, Positions(s)
  PROVE  IsFiniteSet(s) /\ \A t : t \subseteq s => Positions(t) /\ (t # {} => Max(t) \in t)
<1>1. PICK n \in Nat : s \subseteq 1..n
  BY DEF Positions
<1>2. IsFiniteSet(1..n)
  BY FS_Interval
<1>3. IsFiniteSet(s)
  BY <1>1, <1>2, FS_Subset
<1>4. ASSUME NEW t, t \subseteq s PROVE Positions(t) /\ (t # {} => Max(t) \in t)
  BY <1>1, <1>4, MaxIn DEF Positions
<1>5. QED
  BY <1>3, <1>4

LEMMA SmallestSet ==
  ASSUME NEW S, IsFiniteSet(S), NEW T, T \subseteq SUBSET S, T # {}
  PROVE  \E s \in T : \A u \in T : u \subseteq s => u = s
<1>1. T \subseteq FiniteSubsetsOf(S)
  BY FS_Subset DEF FiniteSubsetsOf
<1>2. PICK s \in T : \A u \in T : ~(<<u, s>> \in StrictSubsetOrdering(S))
  BY <1>1, FS_StrictSubsetOrderingWellFounded, WFMin
<1>3. ASSUME NEW u \in T, u \subseteq s, u # s PROVE FALSE
  <2>1. <<u, s>> \in StrictSubsetOrdering(S)
    BY <1>3 DEF StrictSubsetOrdering
  <2>2. QED
    BY <1>2, <2>1
<1>4. QED
  BY <1>3

(* The recursion that Only makes over the positions of q.                  *)
Selecting(f, q, S, D) ==
  f = [s \in SUBSET D |->
         IF s = {} THEN <<>>
         ELSE IF q[Max(s)] \in S THEN Append(f[s \ {Max(s)}], q[Max(s)]) ELSE f[s \ {Max(s)}]]

LEMMA OnlyIs == \A q, S : Only(q, S) = (CHOOSE f : Selecting(f, q, S, DOMAIN q))[DOMAIN q]
BY DEF Only, FoldLeft, MapThenFoldSet, Selecting

LEMMA SelectingAt ==
  ASSUME NEW q, NEW S, NEW D, NEW f, Selecting(f, q, S, D), NEW s \in SUBSET D
  PROVE  f[s] = IF s = {} THEN <<>>
                ELSE IF q[Max(s)] \in S THEN Append(f[s \ {Max(s)}], q[Max(s)]) ELSE f[s \ {Max(s)}]
BY DEF Selecting

LEMMA SelectingAgree ==
  ASSUME NEW q, NEW r, NEW S, NEW D, NEW U, Positions(D), NEW f, NEW g,
         Selecting(f, q, S, D), Selecting(g, r, S, U),
         NEW t, t \subseteq D, t \subseteq U, \A i \in t : q[i] = r[i]
  PROVE  f[t] = g[t]
<1> DEFINE bad == {s \in SUBSET t : f[s] # g[s]}
<1>1. ASSUME bad # {} PROVE FALSE
  <2>0. bad \subseteq SUBSET t
    OBVIOUS
  <2>00. IsFiniteSet(t)
    BY SomePositions, FS_Subset
  <2>1. PICK s \in bad : \A u \in bad : u \subseteq s => u = s
    <3> HIDE DEF bad
    <3>1. QED
      BY <1>1, <2>0, <2>00, SmallestSet
  <2>2. s \in SUBSET D /\ s \in SUBSET U /\ s \in SUBSET t /\ f[s] # g[s]
    BY <2>1
  <2> DEFINE x == Max(s)
  <2>3. s # {} => x \in s
    BY <2>2, SomePositions
  <2>4. f[s] = IF s = {} THEN <<>>
               ELSE IF q[x] \in S THEN Append(f[s \ {x}], q[x]) ELSE f[s \ {x}]
    BY <2>2 DEF Selecting
  <2>5. g[s] = IF s = {} THEN <<>>
               ELSE IF r[x] \in S THEN Append(g[s \ {x}], r[x]) ELSE g[s \ {x}]
    BY <2>2 DEF Selecting
  <2> HIDE DEF x
  <2>6. s # {} => s \ {x} \notin bad
    BY <2>1, <2>3
  <2>7. s # {} => f[s \ {x}] = g[s \ {x}] /\ q[x] = r[x]
    BY <2>2, <2>3, <2>6
  <2>8. QED
    BY <2>2, <2>4, <2>5, <2>7
<1>2. QED
  BY <1>1

LEMMA SelectingExists ==
  ASSUME NEW q, NEW S, NEW D, Positions(D)
  PROVE  \E f : Selecting(f, q, S, D)
<1> DEFINE bad == {s \in SUBSET D : ~ \E f : Selecting(f, q, S, s)}
<1>1. ASSUME bad # {} PROVE FALSE
  <2>0. bad \subseteq SUBSET D
    OBVIOUS
  <2>00. IsFiniteSet(D)
    BY SomePositions, FS_Subset
  <2>1. PICK s \in bad : \A u \in bad : u \subseteq s => u = s
    <3> HIDE DEF bad
    <3>1. QED
      BY <1>1, <2>0, <2>00, SmallestSet
  <2>2. s \subseteq D /\ ~ \E f : Selecting(f, q, S, s)
    BY <2>1
  <2> DEFINE at(u) == CHOOSE h : Selecting(h, q, S, u)
             val(u, rest) == IF u = {} THEN <<>>
                             ELSE IF q[Max(u)] \in S THEN Append(rest, q[Max(u)]) ELSE rest
             less(u) == u \ {Max(u)}
             g == [u \in SUBSET s |-> val(u, at(less(u))[less(u)])]
  <2>3. ASSUME NEW u \in SUBSET s, u # s PROVE Selecting(at(u), q, S, u) /\ Positions(u)
    <3>1. u \notin bad /\ u \in SUBSET D
      BY <2>1, <2>2, <2>3
    <3>2. QED
      BY <2>2, <3>1, SomePositions
  <2>4. ASSUME NEW u \in SUBSET s, u # {} PROVE less(u) \in SUBSET s /\ less(u) # s /\ less(u) \subseteq u
    <3>1. Max(u) \in u
      BY <2>2, <2>4, SomePositions
    <3>2. QED
      BY <3>1
  <2>5. ASSUME NEW u \in SUBSET s, u # s PROVE g[u] = at(u)[u]
    <3>1. Selecting(at(u), q, S, u) /\ Positions(u)
      BY <2>3, <2>5
    <3>2. at(u)[u] = val(u, at(u)[less(u)])
      BY <3>1, SelectingAt
    <3>3. ASSUME u # {} PROVE at(u)[less(u)] = at(less(u))[less(u)]
      <4>1. less(u) \in SUBSET s /\ less(u) # s /\ less(u) \subseteq u
        BY <2>4, <3>3
      <4>2. Selecting(at(less(u)), q, S, less(u))
        BY <2>3, <4>1
      <4> HIDE DEF at, less
      <4>3. QED
        BY <3>1, <4>1, <4>2, SelectingAgree
    <3>4. QED
      BY <3>2, <3>3
  <2>6. ASSUME NEW u \in SUBSET s PROVE g[u] = val(u, g[less(u)])
    <3>1. u # {} => less(u) \in SUBSET s /\ less(u) # s
      BY <2>4
    <3>2. u # {} => g[less(u)] = at(less(u))[less(u)]
      BY <2>5, <3>1
    <3>3. g[u] = val(u, at(less(u))[less(u)])
      OBVIOUS
    <3> HIDE DEF g, at, less
    <3>4. QED
      BY <3>2, <3>3
  <2>7. g = [u \in SUBSET s |-> g[u]]
    OBVIOUS
  <2> HIDE DEF g
  <2>8. Selecting(g, q, S, s)
    BY <2>6, <2>7 DEF Selecting
  <2>9. QED
    BY <2>2, <2>8
<1>2. D \notin bad
  BY <1>1
<1>3. QED
  BY <1>2

(* The same of TakeAll.                                                    *)
Taking(f, q, items, D) ==
  f = [s \in SUBSET D |->
         IF s = {} THEN items
         ELSE Take(f[s \ {Max(s)}], q[Max(s)])]

LEMMA TakeAllIs ==
  \A q, items : TakeAll(items, q) = (CHOOSE f : Taking(f, q, items, DOMAIN q))[DOMAIN q]
BY DEF TakeAll, FoldLeft, MapThenFoldSet, Taking

LEMMA TakingAt ==
  ASSUME NEW q, NEW items, NEW D, NEW f, Taking(f, q, items, D), NEW s \in SUBSET D
  PROVE  f[s] = IF s = {} THEN items
                ELSE Take(f[s \ {Max(s)}], q[Max(s)])
BY DEF Taking

LEMMA TakingAgree ==
  ASSUME NEW q, NEW r, NEW items, NEW D, NEW U, Positions(D), NEW f, NEW g,
         Taking(f, q, items, D), Taking(g, r, items, U),
         NEW t, t \subseteq D, t \subseteq U, \A i \in t : q[i] = r[i]
  PROVE  f[t] = g[t]
<1> DEFINE bad == {s \in SUBSET t : f[s] # g[s]}
<1>1. ASSUME bad # {} PROVE FALSE
  <2>0. bad \subseteq SUBSET t
    OBVIOUS
  <2>00. IsFiniteSet(t)
    BY SomePositions, FS_Subset
  <2>1. PICK s \in bad : \A u \in bad : u \subseteq s => u = s
    <3> HIDE DEF bad
    <3>1. QED
      BY <1>1, <2>0, <2>00, SmallestSet
  <2>2. s \in SUBSET D /\ s \in SUBSET U /\ s \in SUBSET t /\ f[s] # g[s]
    BY <2>1
  <2> DEFINE x == Max(s)
  <2>3. s # {} => x \in s
    BY <2>2, SomePositions
  <2>4. f[s] = IF s = {} THEN items
               ELSE Take(f[s \ {x}], q[x])
    BY <2>2 DEF Taking
  <2>5. g[s] = IF s = {} THEN items
               ELSE Take(g[s \ {x}], r[x])
    BY <2>2 DEF Taking
  <2> HIDE DEF x
  <2>6. s # {} => s \ {x} \notin bad
    BY <2>1, <2>3
  <2>7. s # {} => f[s \ {x}] = g[s \ {x}] /\ q[x] = r[x]
    BY <2>2, <2>3, <2>6
  <2>8. QED
    BY <2>2, <2>4, <2>5, <2>7
<1>2. QED
  BY <1>1

LEMMA TakingExists ==
  ASSUME NEW q, NEW items, NEW D, Positions(D)
  PROVE  \E f : Taking(f, q, items, D)
<1> DEFINE bad == {s \in SUBSET D : ~ \E f : Taking(f, q, items, s)}
<1>1. ASSUME bad # {} PROVE FALSE
  <2>0. bad \subseteq SUBSET D
    OBVIOUS
  <2>00. IsFiniteSet(D)
    BY SomePositions, FS_Subset
  <2>1. PICK s \in bad : \A u \in bad : u \subseteq s => u = s
    <3> HIDE DEF bad
    <3>1. QED
      BY <1>1, <2>0, <2>00, SmallestSet
  <2>2. s \subseteq D /\ ~ \E f : Taking(f, q, items, s)
    BY <2>1
  <2> DEFINE at(u) == CHOOSE h : Taking(h, q, items, u)
             val(u, rest) == IF u = {} THEN items
                             ELSE Take(rest, q[Max(u)])
             less(u) == u \ {Max(u)}
             g == [u \in SUBSET s |-> val(u, at(less(u))[less(u)])]
  <2>3. ASSUME NEW u \in SUBSET s, u # s PROVE Taking(at(u), q, items, u) /\ Positions(u)
    <3>1. u \notin bad /\ u \in SUBSET D
      BY <2>1, <2>2, <2>3
    <3>2. QED
      BY <2>2, <3>1, SomePositions
  <2>4. ASSUME NEW u \in SUBSET s, u # {} PROVE less(u) \in SUBSET s /\ less(u) # s /\ less(u) \subseteq u
    <3>1. Max(u) \in u
      BY <2>2, <2>4, SomePositions
    <3>2. QED
      BY <3>1
  <2>5. ASSUME NEW u \in SUBSET s, u # s PROVE g[u] = at(u)[u]
    <3>1. Taking(at(u), q, items, u) /\ Positions(u)
      BY <2>3, <2>5
    <3>2. at(u)[u] = val(u, at(u)[less(u)])
      BY <3>1, TakingAt
    <3>3. ASSUME u # {} PROVE at(u)[less(u)] = at(less(u))[less(u)]
      <4>1. less(u) \in SUBSET s /\ less(u) # s /\ less(u) \subseteq u
        BY <2>4, <3>3
      <4>2. Taking(at(less(u)), q, items, less(u))
        BY <2>3, <4>1
      <4> HIDE DEF at, less
      <4>3. QED
        BY <3>1, <4>1, <4>2, TakingAgree
    <3>4. QED
      BY <3>2, <3>3
  <2>6. ASSUME NEW u \in SUBSET s PROVE g[u] = val(u, g[less(u)])
    <3>1. u # {} => less(u) \in SUBSET s /\ less(u) # s
      BY <2>4
    <3>2. u # {} => g[less(u)] = at(less(u))[less(u)]
      BY <2>5, <3>1
    <3>3. g[u] = val(u, at(less(u))[less(u)])
      OBVIOUS
    <3> HIDE DEF g, at, less
    <3>4. QED
      BY <3>2, <3>3
  <2>7. g = [u \in SUBSET s |-> g[u]]
    OBVIOUS
  <2> HIDE DEF g
  <2>8. Taking(g, q, items, s)
    BY <2>6, <2>7 DEF Taking
  <2>9. QED
    BY <2>2, <2>8
<1>2. D \notin bad
  BY <1>1
<1>3. QED
  BY <1>2

LEMMA SequencePositions ==
  ASSUME NEW E, NEW q \in Seq(E)
  PROVE  DOMAIN q = 1..Len(q) /\ Len(q) \in Nat /\ Positions(DOMAIN q)
BY DEF Positions

LEMMA AppendedPositions ==
  ASSUME NEW E, NEW q \in Seq(E), NEW x \in E
  PROVE  LET r == Append(q, x)
             n == Len(q) + 1
         IN /\ r \in Seq(E) /\ DOMAIN r # {} /\ Max(DOMAIN r) = n
            /\ DOMAIN r \ {n} = DOMAIN q /\ DOMAIN q \subseteq DOMAIN r
            /\ r[n] = x /\ \A i \in DOMAIN q : r[i] = q[i]
<1>1. Append(q, x) \in Seq(E) /\ DOMAIN Append(q, x) = 1..(Len(q) + 1) /\ Len(q) \in Nat
  OBVIOUS
<1>2. Max(1..(Len(q) + 1)) = Len(q) + 1
  <2>1. Max(1..(Len(q) + 1)) \in 1..(Len(q) + 1) /\ \A i \in 1..(Len(q) + 1) : i <= Max(1..(Len(q) + 1))
    <3>1. Len(q) + 1 \in Nat /\ 1..(Len(q) + 1) # {}
      BY <1>1
    <3>2. QED
      BY <3>1, MaxIn
  <2>2. Len(q) + 1 \in 1..(Len(q) + 1)
    BY <1>1
  <2>3. QED
    BY <1>1, <2>1, <2>2
<1>3. DOMAIN q = 1..Len(q) /\ (1..(Len(q) + 1)) \ {Len(q) + 1} = 1..Len(q)
  BY <1>1
<1>4. Append(q, x)[Len(q) + 1] = x /\ \A i \in DOMAIN q : Append(q, x)[i] = q[i]
  OBVIOUS
<1>5. QED
  BY <1>1, <1>2, <1>3, <1>4

LEMMA OnlyNone == \A S : Only(<<>>, S) = <<>>
<1> SUFFICES ASSUME NEW S PROVE Only(<<>>, S) = <<>>
  OBVIOUS
<1> DEFINE f == CHOOSE h : Selecting(h, <<>>, S, {})
<1>1. DOMAIN <<>> = {} /\ Positions({})
  BY DEF Positions
<1>2. Selecting(f, <<>>, S, {})
  BY <1>1, SelectingExists
<1>3. Only(<<>>, S) = f[{}]
  BY <1>1, OnlyIs
<1> HIDE DEF f
<1>4. QED
  BY <1>2, <1>3 DEF Selecting

LEMMA OnlyNext ==
  ASSUME NEW E, NEW q \in Seq(E), NEW x \in E, NEW S
  PROVE  Only(Append(q, x), S) = IF x \in S THEN Append(Only(q, S), x) ELSE Only(q, S)
<1> DEFINE r == Append(q, x)
           D == DOMAIN q
           U == DOMAIN r
           f == CHOOSE h : Selecting(h, r, S, U)
           g == CHOOSE h : Selecting(h, q, S, D)
<1>1. Positions(D) /\ Positions(U)
  BY SequencePositions, AppendedPositions
<1>2. Selecting(f, r, S, U) /\ Selecting(g, q, S, D)
  BY <1>1, SelectingExists
<1>3. Only(r, S) = f[U] /\ Only(q, S) = g[D]
  BY OnlyIs
<1> DEFINE n == Len(q) + 1
<1>4. /\ r \in Seq(E) /\ U # {} /\ Max(U) = n
      /\ U \ {n} = D /\ D \subseteq U
      /\ r[n] = x /\ \A i \in D : r[i] = q[i]
  <2>1. r \in Seq(E) /\ U # {}
    BY AppendedPositions
  <2>2. Max(U) = n
    BY AppendedPositions
  <2>3. U \ {n} = D /\ D \subseteq U
    BY AppendedPositions
  <2>4. r[n] = x
    BY AppendedPositions
  <2>5. \A i \in D : r[i] = q[i]
    BY AppendedPositions
  <2>6. QED
    BY <2>1, <2>2, <2>3, <2>4, <2>5
<1> HIDE DEF f, g, r, n, D, U
<1>5. f[U] = IF U = {} THEN <<>>
             ELSE IF r[Max(U)] \in S THEN Append(f[U \ {Max(U)}], r[Max(U)]) ELSE f[U \ {Max(U)}]
  BY <1>2 DEF Selecting
<1>6. f[D] = g[D]
  <2>1. D \subseteq U /\ D \subseteq D /\ \A i \in D : r[i] = q[i]
    BY <1>4
  <2>2. QED
    BY <1>1, <1>2, <2>1, SelectingAgree
<1>7. Only(r, S) = IF x \in S THEN Append(Only(q, S), x) ELSE Only(q, S)
  BY <1>3, <1>4, <1>5, <1>6
<1>8. QED
  BY <1>7 DEF r

LEMMA TakeAllNone == \A items : TakeAll(items, <<>>) = items
<1> SUFFICES ASSUME NEW items PROVE TakeAll(items, <<>>) = items
  OBVIOUS
<1> DEFINE f == CHOOSE h : Taking(h, <<>>, items, {})
<1>1. DOMAIN <<>> = {} /\ Positions({})
  BY DEF Positions
<1>2. Taking(f, <<>>, items, {})
  BY <1>1, TakingExists
<1>3. TakeAll(items, <<>>) = f[{}]
  BY <1>1, TakeAllIs
<1> HIDE DEF f
<1>4. QED
  BY <1>2, <1>3 DEF Taking

LEMMA TakeAllNext ==
  ASSUME NEW E, NEW q \in Seq(E), NEW x \in E, NEW items
  PROVE  TakeAll(items, Append(q, x)) = Take(TakeAll(items, q), x)
<1> DEFINE r == Append(q, x)
           D == DOMAIN q
           U == DOMAIN r
           f == CHOOSE h : Taking(h, r, items, U)
           g == CHOOSE h : Taking(h, q, items, D)
<1>1. Positions(D) /\ Positions(U)
  BY SequencePositions, AppendedPositions
<1>2. Taking(f, r, items, U) /\ Taking(g, q, items, D)
  BY <1>1, TakingExists
<1>3. TakeAll(items, r) = f[U] /\ TakeAll(items, q) = g[D]
  BY TakeAllIs
<1> DEFINE n == Len(q) + 1
<1>4. /\ r \in Seq(E) /\ U # {} /\ Max(U) = n
      /\ U \ {n} = D /\ D \subseteq U
      /\ r[n] = x /\ \A i \in D : r[i] = q[i]
  <2>1. r \in Seq(E) /\ U # {}
    BY AppendedPositions
  <2>2. Max(U) = n
    BY AppendedPositions
  <2>3. U \ {n} = D /\ D \subseteq U
    BY AppendedPositions
  <2>4. r[n] = x
    BY AppendedPositions
  <2>5. \A i \in D : r[i] = q[i]
    BY AppendedPositions
  <2>6. QED
    BY <2>1, <2>2, <2>3, <2>4, <2>5
<1> HIDE DEF f, g, r, n, D, U
<1>5. f[U] = IF U = {} THEN items ELSE Take(f[U \ {Max(U)}], r[Max(U)])
  BY <1>2 DEF Taking
<1>6. f[D] = g[D]
  <2>1. D \subseteq U /\ D \subseteq D /\ \A i \in D : r[i] = q[i]
    BY <1>4
  <2>2. QED
    BY <1>1, <1>2, <2>1, TakingAgree
<1>7. TakeAll(items, r) = Take(TakeAll(items, q), x)
  BY <1>3, <1>4, <1>5, <1>6
<1>8. QED
  BY <1>7 DEF r

-----------------------------------------------------------------------------
(* Sequences of sections, one section at a time.                           *)

LEMMA AllSequences ==
  ASSUME NEW E, NEW T, T \subseteq Seq(E), <<>> \in T,
         \A q \in T, x \in E : Append(q, x) \in T
  PROVE  \A q \in Seq(E) : q \in T
<1> SUFFICES ASSUME NEW q \in Seq(E), q \notin T PROVE FALSE
  OBVIOUS
<1> DEFINE bad == {n \in Nat : \E r \in Seq(E) : r \notin T /\ Len(r) = n}
<1>1. PICK n \in bad : \A m \in bad : n <= m
  <2>1. Len(q) \in bad
    OBVIOUS
  <2>2. bad \subseteq Nat /\ bad # {}
    BY <2>1
  <2> HIDE DEF bad
  <2>3. QED
    BY <2>2, Least
<1>2. PICK r \in Seq(E) : r \notin T /\ Len(r) = n
  BY <1>1
<1>3. r # <<>>
  BY <1>2
<1> DEFINE front == [i \in 1..(n - 1) |-> r[i]]
           x == r[n]
<1>4. n \in Nat /\ n >= 1 /\ DOMAIN r = 1..n
  BY <1>2, <1>3
<1>5. front \in Seq(E) /\ Len(front) = n - 1 /\ x \in E /\ r = Append(front, x)
  BY <1>2, <1>4
<1> HIDE DEF front, x
<1>6. front \notin T
  BY <1>2, <1>5
<1>7. n - 1 \in bad
  BY <1>4, <1>5, <1>6
<1>8. QED
  BY <1>1, <1>4, <1>7

LEMMA RangeNone == Range(<<>>) = {}
BY DEF Range

LEMMA RangeNext ==
  ASSUME NEW E, NEW q \in Seq(E), NEW x \in E
  PROVE  Range(Append(q, x)) = Range(q) \cup {x}
<1>1. DOMAIN Append(q, x) = DOMAIN q \cup {Len(q) + 1}
  OBVIOUS
<1>2. Append(q, x)[Len(q) + 1] = x /\ \A i \in DOMAIN q : Append(q, x)[i] = q[i]
  BY AppendedPositions
<1>3. QED
  BY <1>1, <1>2 DEF Range

LEMMA RangeOf == ASSUME NEW E, NEW q \in Seq(E) PROVE Range(q) \subseteq E
BY DEF Range

LEMMA OnlyAre ==
  ASSUME NEW E, NEW S
  PROVE  \A q \in Seq(E) : Only(q, S) \in Seq(E) /\ Range(Only(q, S)) = Range(q) \cap S
<1> DEFINE T == {q \in Seq(E) : Only(q, S) \in Seq(E) /\ Range(Only(q, S)) = Range(q) \cap S}
<1>1. <<>> \in T
  <2>1. Only(<<>>, S) = <<>> /\ Range(<<>>) = {} /\ <<>> \in Seq(E)
    BY OnlyNone, RangeNone
  <2>2. QED
    BY <2>1
<1>2. ASSUME NEW q \in T, NEW x \in E PROVE Append(q, x) \in T
  <2> DEFINE o == Only(q, S)
  <2>1. q \in Seq(E) /\ o \in Seq(E) /\ Range(o) = Range(q) \cap S
    OBVIOUS
  <2>2. Only(Append(q, x), S) = IF x \in S THEN Append(o, x) ELSE o
    BY <2>1, OnlyNext
  <2>3. Range(Append(q, x)) = Range(q) \cup {x} /\ Range(Append(o, x)) = Range(o) \cup {x}
    BY <2>1, RangeNext
  <2>4. Append(q, x) \in Seq(E) /\ Append(o, x) \in Seq(E)
    BY <2>1
  <2> HIDE DEF o
  <2>5. QED
    BY <2>1, <2>2, <2>3, <2>4
<1>3. \A q \in Seq(E) : q \in T
  <2>1. T \subseteq Seq(E)
    OBVIOUS
  <2> HIDE DEF T
  <2>2. QED
    BY <1>1, <1>2, <2>1, AllSequences
<1>4. QED
  BY <1>3

(* Only looks at the sections of the sequence, and keeps all of those.     *)
LEMMA OnlyAlike ==
  ASSUME NEW E, NEW S, NEW V
  PROVE  \A q \in Seq(E) : Range(q) \cap S = Range(q) \cap V => Only(q, S) = Only(q, V)
<1> DEFINE T == {q \in Seq(E) : Range(q) \cap S = Range(q) \cap V => Only(q, S) = Only(q, V)}
<1>1. <<>> \in T
  BY OnlyNone
<1>2. ASSUME NEW q \in T, NEW x \in E PROVE Append(q, x) \in T
  <2>1. Append(q, x) \in Seq(E) /\ Range(Append(q, x)) = Range(q) \cup {x}
    BY RangeNext
  <2>2. /\ Only(Append(q, x), S) = IF x \in S THEN Append(Only(q, S), x) ELSE Only(q, S)
        /\ Only(Append(q, x), V) = IF x \in V THEN Append(Only(q, V), x) ELSE Only(q, V)
    BY OnlyNext
  <2>3. ASSUME Range(Append(q, x)) \cap S = Range(Append(q, x)) \cap V
        PROVE  Only(Append(q, x), S) = Only(Append(q, x), V)
    <3>1. (x \in S <=> x \in V) /\ Range(q) \cap S = Range(q) \cap V
      BY <2>1, <2>3
    <3>2. Only(q, S) = Only(q, V)
      BY <3>1
    <3>3. QED
      BY <2>2, <3>1, <3>2
  <2>4. QED
    BY <2>1, <2>3
<1>3. \A q \in Seq(E) : q \in T
  <2>1. T \subseteq Seq(E)
    OBVIOUS
  <2> HIDE DEF T
  <2>2. QED
    BY <1>1, <1>2, <2>1, AllSequences
<1>4. QED
  BY <1>3

LEMMA OnlyAll ==
  ASSUME NEW E
  PROVE  \A q \in Seq(E) : Only(q, E) = q
<1> DEFINE T == {q \in Seq(E) : Only(q, E) = q}
<1>1. <<>> \in T
  BY OnlyNone
<1>2. ASSUME NEW q \in T, NEW x \in E PROVE Append(q, x) \in T
  BY OnlyNext
<1>3. \A q \in Seq(E) : q \in T
  <2>1. T \subseteq Seq(E)
    OBVIOUS
  <2> HIDE DEF T
  <2>2. QED
    BY <1>1, <1>2, <2>1, AllSequences
<1>4. QED
  BY <1>3

LEMMA OnlyOnly ==
  ASSUME NEW E, NEW S, NEW V
  PROVE  \A q \in Seq(E) : Only(Only(q, S), V) = Only(q, S \cap V)
<1> DEFINE T == {q \in Seq(E) : Only(Only(q, S), V) = Only(q, S \cap V)}
<1>1. <<>> \in T
  BY OnlyNone
<1>2. ASSUME NEW q \in T, NEW x \in E PROVE Append(q, x) \in T
  <2> DEFINE o == Only(q, S)
  <2>1. o \in Seq(E) /\ Only(o, V) = Only(q, S \cap V)
    BY OnlyAre
  <2>2. /\ Only(Append(q, x), S) = IF x \in S THEN Append(o, x) ELSE o
        /\ Only(Append(q, x), S \cap V)
             = IF x \in S \cap V THEN Append(Only(q, S \cap V), x) ELSE Only(q, S \cap V)
    BY OnlyNext
  <2> HIDE DEF o
  <2>3. Only(Append(o, x), V) = IF x \in V THEN Append(Only(o, V), x) ELSE Only(o, V)
    <3>1. o \in Seq(E)
      BY <2>1
    <3>2. QED
      BY <3>1, OnlyNext
  <2>4. Append(q, x) \in Seq(E)
    OBVIOUS
  <2>5. Only(Only(Append(q, x), S), V) = Only(Append(q, x), S \cap V)
    <3>1. CASE x \in S
      <4>1. x \in S \cap V <=> x \in V
        BY <3>1
      <4>2. Only(Append(q, x), S \cap V) = IF x \in V THEN Append(Only(o, V), x) ELSE Only(o, V)
        BY <2>1, <2>2, <4>1
      <4>3. QED
        BY <2>2, <2>3, <3>1, <4>2
    <3>2. CASE x \notin S
      <4>1. x \notin S \cap V
        BY <3>2
      <4>2. QED
        BY <2>1, <2>2, <3>2, <4>1
    <3>3. QED
      BY <3>1, <3>2
  <2>6. QED
    BY <2>4, <2>5
<1>3. \A q \in Seq(E) : q \in T
  <2>1. T \subseteq Seq(E)
    OBVIOUS
  <2> HIDE DEF T
  <2>2. QED
    BY <1>1, <1>2, <2>1, AllSequences
<1>4. QED
  BY <1>3

LEMMA ConcatNext ==
  ASSUME NEW E, NEW q \in Seq(E), NEW r \in Seq(E), NEW x \in E
  PROVE  q \o Append(r, x) = Append(q \o r, x)
OBVIOUS

LEMMA OnlyOfBoth ==
  ASSUME NEW E, NEW S, NEW q \in Seq(E)
  PROVE  \A r \in Seq(E) : Only(q \o r, S) = Only(q, S) \o Only(r, S)
<1> DEFINE T == {r \in Seq(E) : Only(q \o r, S) = Only(q, S) \o Only(r, S)}
<1>0. Only(q, S) \in Seq(E)
  BY OnlyAre
<1>1. <<>> \in T
  BY <1>0, OnlyNone
<1>2. ASSUME NEW r \in T, NEW x \in E PROVE Append(r, x) \in T
  <2>1. /\ Only(r, S) \in Seq(E) /\ q \o r \in Seq(E) /\ Append(r, x) \in Seq(E)
        /\ Only(q \o r, S) = Only(q, S) \o Only(r, S)
    BY OnlyAre
  <2>2. q \o Append(r, x) = Append(q \o r, x)
    BY ConcatNext
  <2>3. /\ Only(Append(q \o r, x), S) = IF x \in S THEN Append(Only(q \o r, S), x) ELSE Only(q \o r, S)
        /\ Only(Append(r, x), S) = IF x \in S THEN Append(Only(r, S), x) ELSE Only(r, S)
    <3>1. PICK b : b = q \o r
      OBVIOUS
    <3>2. b \in Seq(E) /\ r \in Seq(E)
      BY <2>1, <3>1
    <3>3. /\ Only(Append(b, x), S) = IF x \in S THEN Append(Only(b, S), x) ELSE Only(b, S)
          /\ Only(Append(r, x), S) = IF x \in S THEN Append(Only(r, S), x) ELSE Only(r, S)
      BY <3>2, OnlyNext
    <3>4. QED
      BY <3>1, <3>3
  <2>4. Only(q, S) \o Append(Only(r, S), x) = Append(Only(q, S) \o Only(r, S), x)
    BY <1>0, <2>1, ConcatNext
  <2>5. QED
    BY <2>1, <2>2, <2>3, <2>4
<1>3. \A r \in Seq(E) : r \in T
  <2>1. T \subseteq Seq(E)
    OBVIOUS
  <2> HIDE DEF T
  <2>2. QED
    BY <1>1, <1>2, <2>1, AllSequences
<1>4. QED
  BY <1>3

-----------------------------------------------------------------------------
(* What the program holds has its type.                                    *)

LEMMA SavesTyped == \A p \in Saves : p \in AllProjects
<1> SUFFICES ASSUME NEW p \in Saves PROVE p \in AllProjects
  OBVIOUS
<1>1. p = [app |-> p.app, sections |-> p.sections] /\ p.sections \in Seq(Range(p.sections))
  BY SavesAssumption
<1>2. ASSUME NEW s \in Range(p.sections) PROVE s \in Section
  <2>1. s = [kind |-> s.kind, name |-> s.name, tag |-> s.tag, blob |-> s.blob]
    BY SavesAssumption
  <2>2. s \in SavedSections
    BY DEF SavedSections
  <2>3. /\ s.kind \in {x.kind : x \in SavedSections} /\ s.name \in {x.name : x \in SavedSections}
        /\ s.tag \in {x.tag : x \in SavedSections} /\ s.blob \in {x.blob : x \in SavedSections}
    BY <2>2
  <2>4. QED
    BY <2>1, <2>3 DEF Section
<1>3. p.sections \in Seq(Section)
  BY <1>1, <1>2
<1>4. QED
  BY <1>1, <1>3 DEF AllProjects

LEMMA EntryFound ==
  ASSUME NEW project \in AllProjects, NEW i \in DOMAIN project.sections
  PROVE  LET j == EntryIndex(project, project.sections[i].name)
         IN j \in DOMAIN project.sections /\ project.sections[j].name = project.sections[i].name
<1> DEFINE q == project.sections
           I == {j \in 1..Len(q) : q[j].name = q[i].name}
<1>1. q \in Seq(Section) /\ DOMAIN q = 1..Len(q)
  BY DEF AllProjects
<1>2. I # {} /\ I \subseteq Nat
  BY <1>1
<1>3. PICK j \in I : \A k \in I : j <= k
  <2> HIDE DEF I
  <2>1. QED
    BY <1>2, Least
<1>4. Min(I) \in I
  BY <1>3 DEF Min
<1>5. EntryIndex(project, q[i].name) = Min(I)
  BY <1>2 DEF EntryIndex, SelectInSeq
<1>6. QED
  BY <1>1, <1>4, <1>5

LEMMA CopiesTyped == ASSUME NEW project \in AllProjects PROVE Copies(project) \in Seq(Section)
<1> DEFINE q == project.sections
<1>1. q \in Seq(Section) /\ DOMAIN q = 1..Len(q) /\ Len(q) \in Nat
  BY DEF AllProjects
<1>2. ASSUME NEW i \in DOMAIN q PROVE [q[i] EXCEPT !.blob = Raw(project, q[i].name)] \in Section
  <2>1. q[i] \in Section
    BY <1>1
  <2>2. Raw(project, q[i].name) \in {x.blob : x \in SavedSections}
    <3>1. PICK j \in DOMAIN q : Raw(project, q[i].name) = q[j].blob
      BY EntryFound DEF Raw
    <3>2. q[j] \in Section
      BY <1>1
    <3>3. QED
      BY <3>1, <3>2 DEF Section
  <2>3. QED
    BY <2>1, <2>2 DEF Section
<1>3. QED
  BY <1>1, <1>2 DEF Copies

LEMMA FilteredTyped ==
  ASSUME NEW project \in AllProjects, NEW tag
  PROVE  Filtered(project, tag) \in AllProjects
<1>1. Copies(project) \in Seq(Section) /\ project.app \in {p.app : p \in Saves}
  BY CopiesTyped DEF AllProjects
<1>2. Only(Copies(project), {s \in Range(Copies(project)) : s.tag = tag}) \in Seq(Section)
  BY <1>1, OnlyAre
<1>3. QED
  BY <1>1, <1>2 DEF Filtered, AllProjects

LEMMA TakeTyped ==
  ASSUME NEW E, NEW items \in Seq(E), NEW s \in E
  PROVE  Take(items, s) \in Seq(E)
<1>1. Without(items, {Key(s)}) \in Seq(E)
  BY OnlyAre DEF Without
<1>2. QED
  BY <1>1 DEF Take

LEMMA TakeAllTyped ==
  ASSUME NEW E, NEW items \in Seq(E)
  PROVE  \A q \in Seq(E) : TakeAll(items, q) \in Seq(E)
<1> DEFINE T == {q \in Seq(E) : TakeAll(items, q) \in Seq(E)}
<1>1. <<>> \in T
  BY TakeAllNone
<1>2. ASSUME NEW q \in T, NEW x \in E PROVE Append(q, x) \in T
  <2>1. q \in Seq(E) /\ TakeAll(items, q) \in Seq(E) /\ Append(q, x) \in Seq(E)
    OBVIOUS
  <2>2. Take(TakeAll(items, q), x) \in Seq(E)
    BY <2>1, TakeTyped
  <2>3. TakeAll(items, Append(q, x)) = Take(TakeAll(items, q), x)
    BY <2>1, TakeAllNext
  <2>4. QED
    BY <2>1, <2>2, <2>3
<1>3. \A q \in Seq(E) : q \in T
  <2>1. T \subseteq Seq(E)
    OBVIOUS
  <2> HIDE DEF T
  <2>2. QED
    BY <1>1, <1>2, <2>1, AllSequences
<1>4. QED
  BY <1>3

LEMMA MergedTyped ==
  ASSUME NEW a \in AllProjects, NEW b \in AllProjects
  PROVE  Merged(a, b) \in AllProjects
<1>1. Copies(a) \in Seq(Section) /\ Copies(b) \in Seq(Section) /\ a.app \in {p.app : p \in Saves}
  BY CopiesTyped DEF AllProjects
<1>2. TakeAll(<<>>, Copies(a)) \in Seq(Section)
  <2>1. <<>> \in Seq(Section)
    OBVIOUS
  <2>2. QED
    BY <1>1, <2>1, TakeAllTyped
<1>3. Union(a, b) \in Seq(Section)
  BY <1>1, <1>2, TakeAllTyped DEF Union
<1>4. QED
  BY <1>1, <1>3 DEF Merged, AllProjects

Calls == {Idle} \cup [step: {"create", "write", "rename"}, dst: Path, project: AllProjects]
                \cup [step: {"openb"}, dst: Path, b: Path, project: AllProjects]

LEMMA FileTyped ==
  \A project \in AllProjects, n \in Nat, synced \in BOOLEAN : File(project, n, synced) \in Files
BY DEF File, Files

LEMMA WholeTyped == ASSUME NEW f \in Files, Whole(f) PROVE f.project \in AllProjects
BY DEF Files, Whole

LEMMA PiecesTyped == \A project \in AllProjects : Pieces(project) \in Nat
BY DEF Pieces, AllProjects

LEMMA InitTyped == Init => TypeOK
<1> SUFFICES ASSUME Init PROVE TypeOK
  OBVIOUS
<1>1. ASSUME NEW p \in Saves PROVE File(p, Pieces(p), TRUE) \in Files
  BY SavesTyped, FileTyped, PiecesTyped
<1>2. {NoFile} \cup {File(p, Pieces(p), TRUE) : p \in Saves} \subseteq Files
  BY <1>1 DEF Files
<1>3. file \in [Path -> Files] /\ disk \in [Path -> Files]
  BY <1>2 DEF Init
<1>4. temp \in [Path -> Files] /\ call \in [Process -> Calls]
  BY DEF Init, Files, Calls
<1>5. ops \in 0..MaxOps /\ crashes \in 0..MaxCrashes
  BY BoundsAssumption DEF Init
<1>6. QED
  BY <1>3, <1>4, <1>5 DEF TypeOK, Calls

(* A step that only changes what process p is doing, and files to files.   *)
LEMMA TypedStep ==
  ASSUME TypeOK, NEW p \in Process, NEW c \in Calls, Set(p, c),
         file' \in [Path -> Files], temp' \in [Path -> Files], UNCHANGED <<disk, crashes>>,
         ops' \in 0..MaxOps
  PROVE  TypeOK'
<1>1. call \in [Process -> Calls]
  BY DEF TypeOK, Calls
<1>2. call' \in [Process -> Calls]
  BY <1>1 DEF Set
<1>3. QED
  BY <1>2 DEF TypeOK, Calls

LEMMA BeginTyped ==
  ASSUME TypeOK, NEW p \in Process, NEW c \in Calls, Begin(p, c)
  PROVE  TypeOK'
<1>1. ops' \in 0..MaxOps
  BY BoundsAssumption DEF Begin, TypeOK
<1>2. QED
  BY <1>1, TypedStep DEF Begin, TypeOK

(* The steps of write_frame.                                               *)
LEMMA WritingTyped ==
  ASSUME TypeOK, Inv, NEW p \in Process, call[p].step \in {"create", "write", "rename"}
  PROVE  /\ call[p].dst \in Path /\ call[p].project \in AllProjects
         /\ \A step \in {"write", "rename"} : [call[p] EXCEPT !.step = step] \in Calls
<1>1. call[p] \in Calls
  BY DEF TypeOK, Calls
<1>2. call[p] \in [step: {"create", "write", "rename"}, dst: Path, project: AllProjects]
  BY <1>1 DEF Calls, Idle
<1>3. QED
  BY <1>2 DEF Calls

LEMMA CreateTyped == ASSUME TypeOK, Inv, NEW p \in Process, Create(p) PROVE TypeOK'
<1>1. PICK c : c = [call[p] EXCEPT !.step = "write"]
  OBVIOUS
<1>2. c \in Calls /\ call[p].project \in AllProjects
  BY <1>1, WritingTyped DEF Create
<1>3. temp' \in [Path -> Files]
  BY <1>2, FileTyped DEF Create, TypeOK
<1>4. Set(p, c)
  BY <1>1 DEF Create
<1>5. QED
  BY <1>2, <1>3, <1>4, TypedStep DEF Create, TypeOK

LEMMA WritePieceTyped == ASSUME TypeOK, Inv, NEW p \in Process, WritePiece(p) PROVE TypeOK'
<1> DEFINE f == temp[call[p].dst]
<1>1. call[p].dst \in Path /\ TempFollowsCall(call[p])
  BY WritingCall DEF WritePiece
<1>2. f \in Files /\ f # NoFile
  <2>1. f = File(call[p].project, f.pieces, f.synced)
    BY <1>1 DEF WritePiece, TempFollowsCall
  <2>2. f # NoFile
    <3> HIDE DEF f
    <3>1. QED
      BY <2>1, FileIsSomething
  <2>3. QED
    BY <1>1, <2>2 DEF TypeOK
<1> HIDE DEF f
<1>3. [f EXCEPT !.pieces = @ + 1] \in Files
  BY <1>2 DEF Files
<1>4. temp' = [temp EXCEPT ![call[p].dst] = [f EXCEPT !.pieces = @ + 1]]
  BY DEF WritePiece, f
<1>5. temp' \in [Path -> Files]
  BY <1>3, <1>4 DEF TypeOK
<1>6. QED
  BY <1>5 DEF WritePiece, TypeOK

LEMMA SyncAllTyped == ASSUME TypeOK, Inv, NEW p \in Process, SyncAll(p) PROVE TypeOK'
<1> DEFINE f == temp[call[p].dst]
<1>1. PICK c : c = [call[p] EXCEPT !.step = "rename"]
  OBVIOUS
<1>2. c \in Calls /\ call[p].dst \in Path /\ TempFollowsCall(call[p])
  BY <1>1, WritingTyped, WritingCall DEF SyncAll
<1>3. f \in Files /\ f # NoFile
  <2>1. f = File(call[p].project, f.pieces, f.synced)
    BY <1>2 DEF SyncAll, TempFollowsCall
  <2>2. f # NoFile
    <3> HIDE DEF f
    <3>1. QED
      BY <2>1, FileIsSomething
  <2>3. QED
    BY <1>2, <2>2 DEF TypeOK
<1> HIDE DEF f
<1>4. [f EXCEPT !.synced = TRUE] \in Files
  BY <1>3 DEF Files
<1>5. temp' = [temp EXCEPT ![call[p].dst] = [f EXCEPT !.synced = TRUE]]
  BY DEF SyncAll, f
<1>6. temp' \in [Path -> Files]
  BY <1>4, <1>5 DEF TypeOK
<1>7. Set(p, c)
  BY <1>1 DEF SyncAll
<1>8. QED
  BY <1>2, <1>6, <1>7, TypedStep DEF SyncAll, TypeOK

LEMMA PowerFailureTyped == ASSUME TypeOK, PowerFailure PROVE TypeOK'
<1>1. PICK left \in [Path -> UNION {Survivors(f) : f \in Range(file) \cup Range(disk)}] :
        /\ \A path \in Path : left[path] \in Survivors(file[path]) \cup Survivors(disk[path])
        /\ file' = left /\ disk' = left
  BY DEF PowerFailure
<1>2. ASSUME NEW f \in Files PROVE Survivors(f) \subseteq Files
  <2>1. CASE f = NoFile \/ f.synced
    BY <2>1 DEF Survivors
  <2>2. CASE f # NoFile /\ ~f.synced
    <3>1. f \in [project: AllProjects, pieces: Nat, synced: BOOLEAN]
      BY <2>2 DEF Files
    <3>2. \A n \in 0..f.pieces : [f EXCEPT !.pieces = n] \in Files
      BY <3>1 DEF Files
    <3>3. QED
      BY <2>2, <3>2 DEF Survivors
  <2>3. QED
    BY <2>1, <2>2
<1>3. \A path \in Path : left[path] \in Files
  BY <1>1, <1>2 DEF TypeOK
<1>4. file' \in [Path -> Files] /\ disk' \in [Path -> Files]
  BY <1>1, <1>3
<1>5. temp' \in [Path -> Files] /\ call' \in [Process -> Calls]
  BY DEF PowerFailure, Files, Calls
<1>6. ops' \in 0..MaxOps /\ crashes' \in 0..MaxCrashes
  BY BoundsAssumption DEF PowerFailure, TypeOK
<1>7. QED
  BY <1>4, <1>5, <1>6 DEF TypeOK, Calls

LEMMA StepTyped == TypeOK /\ Inv /\ [Next]_vars => TypeOK'
<1> SUFFICES ASSUME TypeOK, Inv, [Next]_vars PROVE TypeOK'
  OBVIOUS
<1>1. ASSUME NEW p \in Process, NEW dst \in Path, NEW project \in Saves, Write(p, dst, project)
      PROVE  TypeOK'
  <2>1. [step |-> "create", dst |-> dst, project |-> project] \in Calls
    BY SavesTyped DEF Calls
  <2>2. QED
    BY <1>1, <2>1, BeginTyped DEF Write
<1>2. ASSUME NEW p \in Process, NEW src \in Path, NEW dst \in Path, NEW tag \in Keeps,
             FilterTo(p, src, dst, tag)
      PROVE  TypeOK'
  <2>1. file[src].project \in AllProjects
    BY <1>2, WholeTyped DEF FilterTo, TypeOK
  <2>2. Filtered(file[src].project, tag) \in AllProjects
    BY <2>1, FilteredTyped
  <2>3. [step |-> "create", dst |-> dst, project |-> Filtered(file[src].project, tag)] \in Calls
    BY <2>2 DEF Calls
  <2>4. QED
    BY <1>2, <2>3, BeginTyped DEF FilterTo
<1>3. ASSUME NEW p \in Process, NEW a \in Path, NEW b \in Path, NEW dst \in Path,
             MergeTo(p, a, b, dst)
      PROVE  TypeOK'
  <2>1. file[a].project \in AllProjects
    BY <1>3, WholeTyped DEF MergeTo, TypeOK
  <2>2. [step |-> "openb", dst |-> dst, b |-> b, project |-> file[a].project] \in Calls
    BY <2>1 DEF Calls
  <2>3. QED
    BY <1>3, <2>2, BeginTyped DEF MergeTo
<1>4. ASSUME NEW p \in Process, OpenB(p) PROVE TypeOK'
  <2>1. PICK c : c = [step |-> "create", dst |-> call[p].dst,
                      project |-> Merged(call[p].project, file[call[p].b].project)]
    OBVIOUS
  <2>2. call[p] \in [step: {"openb"}, dst: Path, b: Path, project: AllProjects]
    BY <1>4 DEF OpenB, TypeOK, Idle
  <2>3. file[call[p].b].project \in AllProjects
    BY <1>4, <2>2, WholeTyped DEF OpenB, TypeOK
  <2>4. Merged(call[p].project, file[call[p].b].project) \in AllProjects
    BY <2>2, <2>3, MergedTyped
  <2>5. c \in Calls
    BY <2>1, <2>2, <2>4 DEF Calls
  <2>6. Set(p, c)
    BY <1>4, <2>1 DEF OpenB
  <2>7. QED
    BY <1>4, <2>5, <2>6, TypedStep DEF OpenB, TypeOK
<1>5. ASSUME NEW p \in Process, Rename(p) PROVE TypeOK'
  <2>1. call[p].dst \in Path
    BY <1>5, WritingCall DEF Rename
  <2>2. file' \in [Path -> Files] /\ temp' \in [Path -> Files]
    BY <1>5, <2>1 DEF Rename, TypeOK, Files
  <2>3. Idle \in Calls
    BY DEF Calls
  <2>4. QED
    BY <1>5, <2>2, <2>3, TypedStep DEF Rename, TypeOK
<1>6. ASSUME NEW p \in Process, Stop(p) PROVE TypeOK'
  <2>1. Idle \in Calls
    BY DEF Calls
  <2>2. QED
    BY <1>6, <2>1, TypedStep DEF Stop, TypeOK
<1>7. ASSUME NEW path \in Path, Settle(path) PROVE TypeOK'
  BY <1>7 DEF Settle, TypeOK
<1>8. CASE UNCHANGED vars
  BY <1>8 DEF vars, TypeOK
<1>9. QED
  BY <1>1, <1>2, <1>3, <1>4, <1>5, <1>6, <1>7, <1>8, CreateTyped, WritePieceTyped, SyncAllTyped,
     PowerFailureTyped DEF Next

(* Every file and call has its type, with sections that somebody saved: a  *)
(* header from one project, and kinds, names, tags and blobs that exist.   *)
THEOREM TypeCorrect == Spec => []TypeOK
<1>1. QED
  BY InitTyped, StepTyped, CallsInv, PTL DEF Spec

-----------------------------------------------------------------------------
(* The sections stay those that were saved, under their own names.         *)

NamesOnce(sections) ==
  \A i, j \in DOMAIN sections : sections[i].name = sections[j].name => i = j

(* What the callers owe: within a project a name names one section, and in *)
(* all of them a name is of one kind.  Without it a merge can store a blob *)
(* under another section's entry: entries are found by name alone.         *)
OrderlySaves ==
  /\ \A p \in Saves : NamesOnce(p.sections)
  /\ \A s, t \in SavedSections : s.name = t.name => s.kind = t.kind
  /\ \A s \in SavedSections : s.blob.of = Key(s)

Orderly(project) == project.sections \in Seq(SavedSections) /\ NamesOnce(project.sections)

LEMMA NamesOnceNext ==
  ASSUME NEW E, NEW q \in Seq(E), NEW x \in E
  PROVE  NamesOnce(Append(q, x)) <=> NamesOnce(q) /\ \A s \in Range(q) : s.name # x.name
<1> DEFINE r == Append(q, x)
           n == Len(q) + 1
<1>1. /\ DOMAIN r = DOMAIN q \cup {n} /\ n \notin DOMAIN q
      /\ r[n] = x /\ \A i \in DOMAIN q : r[i] = q[i]
  OBVIOUS
<1>2. r = Append(q, x)
  OBVIOUS
<1> HIDE DEF r, n
<1>3. ASSUME NamesOnce(r) PROVE NamesOnce(q) /\ \A s \in Range(q) : s.name # x.name
  <2>1. \A i, j \in DOMAIN q : q[i].name = q[j].name => i = j
    BY <1>1, <1>3 DEF NamesOnce
  <2>2. ASSUME NEW i \in DOMAIN q PROVE q[i].name # x.name
    <3>1. i \in DOMAIN r /\ n \in DOMAIN r /\ i # n /\ r[i] = q[i] /\ r[n] = x
      BY <1>1
    <3>2. QED
      BY <1>3, <3>1 DEF NamesOnce
  <2>3. QED
    BY <2>1, <2>2 DEF NamesOnce, Range
<1>4. ASSUME NamesOnce(q), \A s \in Range(q) : s.name # x.name PROVE NamesOnce(r)
  <2>1. \A i \in DOMAIN q : q[i].name # x.name
    BY <1>4 DEF Range
  <2>2. ASSUME NEW i \in DOMAIN r, NEW j \in DOMAIN r, r[i].name = r[j].name PROVE i = j
    <3>1. CASE i = n /\ j = n
      BY <3>1
    <3>2. CASE i = n /\ j \in DOMAIN q
      BY <1>1, <2>1, <2>2, <3>2
    <3>3. CASE j = n /\ i \in DOMAIN q
      BY <1>1, <2>1, <2>2, <3>3
    <3>4. CASE i \in DOMAIN q /\ j \in DOMAIN q
      BY <1>1, <1>4, <2>2, <3>4 DEF NamesOnce
    <3>5. QED
      BY <1>1, <3>1, <3>2, <3>3, <3>4
  <2>3. QED
    BY <2>2 DEF NamesOnce
<1>5. NamesOnce(r) <=> NamesOnce(q) /\ \A s \in Range(q) : s.name # x.name
  BY <1>3, <1>4
<1>6. QED
  BY <1>2, <1>5

LEMMA NamesOnceNone == NamesOnce(<<>>)
BY DEF NamesOnce

LEMMA OnlyNamesOnce ==
  ASSUME NEW E, NEW S
  PROVE  \A q \in Seq(E) : NamesOnce(q) => NamesOnce(Only(q, S))
<1> DEFINE T == {q \in Seq(E) : NamesOnce(q) => NamesOnce(Only(q, S))}
<1>1. <<>> \in T
  BY OnlyNone, NamesOnceNone
<1>2. ASSUME NEW q \in T, NEW x \in E PROVE Append(q, x) \in T
  <2> DEFINE o == Only(q, S)
  <2>1. q \in Seq(E) /\ Append(q, x) \in Seq(E) /\ o \in Seq(E) /\ Range(o) = Range(q) \cap S
    BY OnlyAre
  <2>2. Only(Append(q, x), S) = IF x \in S THEN Append(o, x) ELSE o
    BY <2>1, OnlyNext
  <2>3. NamesOnce(q) => NamesOnce(o)
    OBVIOUS
  <2> HIDE DEF o
  <2>4. ASSUME NamesOnce(Append(q, x)) PROVE NamesOnce(Only(Append(q, x), S))
    <3>1. NamesOnce(o) /\ \A s \in Range(o) : s.name # x.name
      BY <2>1, <2>3, <2>4, NamesOnceNext
    <3>2. NamesOnce(Append(o, x))
      BY <2>1, <3>1, NamesOnceNext
    <3>3. QED
      BY <2>2, <3>1, <3>2
  <2>5. QED
    BY <2>1, <2>4
<1>3. \A q \in Seq(E) : q \in T
  <2>1. T \subseteq Seq(E)
    OBVIOUS
  <2> HIDE DEF T
  <2>2. QED
    BY <1>1, <1>2, <2>1, AllSequences
<1>4. QED
  BY <1>3

LEMMA BothNamesOnce ==
  ASSUME NEW E, NEW q \in Seq(E), NamesOnce(q)
  PROVE  \A r \in Seq(E) :
           NamesOnce(r) /\ (\A s \in Range(q), t \in Range(r) : s.name # t.name)
             => NamesOnce(q \o r) /\ Range(q \o r) = Range(q) \cup Range(r)
<1> DEFINE Apart(r) == NamesOnce(r) /\ \A s \in Range(q), t \in Range(r) : s.name # t.name
           T == {r \in Seq(E) : Apart(r) => NamesOnce(q \o r) /\ Range(q \o r) = Range(q) \cup Range(r)}
<1>1. <<>> \in T
  <2>1. q \o <<>> = q /\ Range(<<>>) = {}
    BY RangeNone
  <2>2. QED
    BY <2>1
<1>2. ASSUME NEW r \in T, NEW x \in E PROVE Append(r, x) \in T
  <2>1. /\ r \in Seq(E) /\ q \o r \in Seq(E) /\ Append(r, x) \in Seq(E)
        /\ q \o Append(r, x) = Append(q \o r, x)
    BY ConcatNext
  <2>2. Range(Append(r, x)) = Range(r) \cup {x} /\ Range(Append(q \o r, x)) = Range(q \o r) \cup {x}
    <3>1. PICK b \in Seq(E) : b = q \o r
      BY <2>1
    <3>2. Range(Append(b, x)) = Range(b) \cup {x}
      BY RangeNext
    <3>3. Range(Append(r, x)) = Range(r) \cup {x}
      BY <2>1, RangeNext
    <3>4. QED
      BY <3>1, <3>2, <3>3
  <2>3. ASSUME Apart(Append(r, x))
        PROVE  /\ NamesOnce(q \o Append(r, x))
               /\ Range(q \o Append(r, x)) = Range(q) \cup Range(Append(r, x))
    <3>1. NamesOnce(r) /\ \A s \in Range(r) : s.name # x.name
      BY <2>1, <2>3, NamesOnceNext
    <3>2. \A s \in Range(q) : s.name # x.name /\ \A t \in Range(r) : s.name # t.name
      BY <2>2, <2>3
    <3>3. NamesOnce(q \o r) /\ Range(q \o r) = Range(q) \cup Range(r)
      BY <3>1, <3>2
    <3>4. \A s \in Range(q \o r) : s.name # x.name
      BY <3>1, <3>2, <3>3
    <3>5. NamesOnce(Append(q \o r, x))
      BY <2>1, <3>3, <3>4, NamesOnceNext
    <3>6. QED
      BY <2>1, <2>2, <3>3, <3>5
  <2>4. QED
    BY <2>1, <2>3
<1>3. \A r \in Seq(E) : r \in T
  <2>1. T \subseteq Seq(E)
    OBVIOUS
  <2> HIDE DEF T
  <2>2. QED
    BY <1>1, <1>2, <2>1, AllSequences
<1>4. QED
  BY <1>3

LEMMA WithoutIs ==
  ASSUME NEW E, NEW q \in Seq(E), NEW keys
  PROVE  Without(q, keys) = Only(q, {s \in E : Key(s) \notin keys})
<1> DEFINE S == {s \in Range(q) : Key(s) \notin keys}
           V == {s \in E : Key(s) \notin keys}
<1>1. Range(q) \cap S = Range(q) \cap V
  BY RangeOf
<1>2. Without(q, keys) = Only(q, S)
  BY DEF Without
<1> HIDE DEF S, V
<1>3. Only(q, S) = Only(q, V)
  BY <1>1, OnlyAlike
<1>4. Without(q, keys) = Only(q, V)
  BY <1>2, <1>3
<1>5. QED
  BY <1>4 DEF V

(* Taking sections that are all different replaces those of the same key,  *)
(* and puts them last.                                                     *)
LEMMA TakeAllReplaces ==
  ASSUME NEW E, NEW items \in Seq(E)
  PROVE  \A q \in Seq(E) :
           NamesOnce(q) => TakeAll(items, q) = Without(items, {Key(s) : s \in Range(q)}) \o q
<1> DEFINE Rest(q) == Without(items, {Key(s) : s \in Range(q)})
           T == {q \in Seq(E) : NamesOnce(q) => TakeAll(items, q) = Rest(q) \o q}
<1>0. \A q \in Seq(E) : Rest(q) \in Seq(E)
  BY OnlyAre DEF Without
<1>1. <<>> \in T
  <2>1. Rest(<<>>) = items
    <3>1. Without(items, {}) = Only(items, {s \in E : Key(s) \notin {}})
      BY WithoutIs
    <3>2. {s \in E : Key(s) \notin {}} = E /\ {Key(s) : s \in Range(<<>>)} = {}
      BY RangeNone
    <3>3. QED
      BY <3>1, <3>2, OnlyAll
  <2>2. TakeAll(items, <<>>) = items /\ items \o <<>> = items /\ <<>> \in Seq(E)
    BY TakeAllNone
  <2> HIDE DEF Rest
  <2>3. TakeAll(items, <<>>) = Rest(<<>>) \o <<>>
    BY <2>1, <2>2
  <2>4. QED
    BY <2>2, <2>3
<1>2. ASSUME NEW q \in T, NEW x \in E PROVE Append(q, x) \in T
  <2> DEFINE r == Append(q, x)
             rest == Rest(q)
             K == {Key(s) : s \in Range(q)}
             NotQ == {s \in E : Key(s) \notin K}
             NotX == {s \in E : Key(s) \notin {Key(x)}}
  <2>1. q \in Seq(E) /\ r \in Seq(E) /\ rest \in Seq(E) /\ Range(r) = Range(q) \cup {x}
    BY <1>0, RangeNext
  <2>2. ASSUME NamesOnce(r) PROVE TakeAll(items, r) = Rest(r) \o r
    <3>1. NamesOnce(q) /\ \A s \in Range(q) : s.name # x.name
      BY <2>1, <2>2, NamesOnceNext
    <3>2. TakeAll(items, q) = rest \o q
      BY <3>1
    <3>3. TakeAll(items, r) = Take(rest \o q, x)
      BY <2>1, <3>2, TakeAllNext
    <3>4. Take(rest \o q, x) = Append(Only(rest \o q, NotX), x)
      <4>1. PICK c : c = rest \o q
        OBVIOUS
      <4>2. c \in Seq(E)
        BY <2>1, <4>1
      <4>3. Without(c, {Key(x)}) = Only(c, NotX)
        BY <4>2, WithoutIs
      <4>4. QED
        BY <4>1, <4>3 DEF Take
    <3>5. Only(rest \o q, NotX) = Only(rest, NotX) \o Only(q, NotX)
      <4>1. PICK z \in Seq(E) : z = rest
        BY <2>1
      <4> HIDE DEF NotX
      <4>2. Only(z \o q, NotX) = Only(z, NotX) \o Only(q, NotX)
        BY <2>1, OnlyOfBoth
      <4>3. QED
        BY <4>1, <4>2
    <3>6. Only(q, NotX) = q
      <4>1. \A s \in Range(q) : s \in E /\ Key(s) # Key(x)
        BY <2>1, <3>1, RangeOf DEF Key
      <4>2. Range(q) \cap NotX = Range(q) \cap E
        BY <4>1
      <4> HIDE DEF NotX
      <4>3. Only(q, NotX) = Only(q, E)
        BY <2>1, <4>2, OnlyAlike
      <4>4. QED
        BY <2>1, <4>3, OnlyAll
    <3>7. Only(rest, NotX) = Rest(r)
      <4>1. rest = Only(items, NotQ)
        BY WithoutIs
      <4>2. Only(rest, NotX) = Only(items, NotQ \cap NotX)
        BY <4>1, OnlyOnly
      <4>3. Rest(r) = Only(items, {s \in E : Key(s) \notin {Key(t) : t \in Range(r)}})
        BY WithoutIs
      <4>4. NotQ \cap NotX = {s \in E : Key(s) \notin {Key(t) : t \in Range(r)}}
        BY <2>1
      <4>5. QED
        BY <4>2, <4>3, <4>4
    <3>8. TakeAll(items, r) = Append(Rest(r) \o q, x)
      BY <3>3, <3>4, <3>5, <3>6, <3>7
    <3>9. Append(Rest(r) \o q, x) = Rest(r) \o r
      <4>1. PICK z \in Seq(E) : z = Rest(r)
        BY <1>0, <2>1
      <4>2. z \o Append(q, x) = Append(z \o q, x)
        BY <2>1, ConcatNext
      <4>3. QED
        BY <4>1, <4>2
    <3>10. QED
      BY <3>8, <3>9
  <2> HIDE DEF r, rest, Rest
  <2>3. r \in T
    BY <2>1, <2>2
  <2>4. QED
    BY <2>3 DEF r
<1>3. \A q \in Seq(E) : q \in T
  <2>1. T \subseteq Seq(E)
    OBVIOUS
  <2> HIDE DEF T
  <2>2. QED
    BY <1>1, <1>2, <2>1, AllSequences
<1>4. QED
  BY <1>3

(* Each entry of an orderly project finds its own section.                 *)
LEMMA CopiesAreSame ==
  ASSUME NEW project, Orderly(project)
  PROVE  Copies(project) = project.sections
<1> DEFINE q == project.sections
<1>1. q \in Seq(SavedSections) /\ DOMAIN q = 1..Len(q) /\ q = [i \in DOMAIN q |-> q[i]]
  BY DEF Orderly
<1>2. ASSUME NEW i \in DOMAIN q PROVE [q[i] EXCEPT !.blob = Raw(project, q[i].name)] = q[i]
  <2> DEFINE I == {j \in 1..Len(q) : q[j].name = q[i].name}
  <2>1. I = {i}
    BY <1>1, <1>2 DEF Orderly, NamesOnce
  <2>2. EntryIndex(project, q[i].name) = Min(I)
    BY <2>1 DEF EntryIndex, SelectInSeq
  <2>3. Min({i}) = i
    BY <1>1 DEF Min
  <2>4. Raw(project, q[i].name) = q[i].blob
    BY <2>1, <2>2, <2>3 DEF Raw
  <2>5. q[i] \in SavedSections
    BY <1>1
  <2>6. q[i] = [kind |-> q[i].kind, name |-> q[i].name, tag |-> q[i].tag, blob |-> q[i].blob]
    BY <2>5, SavesAssumption DEF SavedSections
  <2> HIDE DEF q
  <2>7. QED
    BY <2>4, <2>6
<1>3. Copies(project) = [i \in DOMAIN q |-> q[i]]
  BY <1>2 DEF Copies
<1>4. QED
  BY <1>1, <1>3

LEMMA FilteredOrderly ==
  ASSUME NEW project, Orderly(project), NEW tag
  PROVE  Orderly(Filtered(project, tag))
<1> DEFINE S == {s \in Range(project.sections) : s.tag = tag}
<1>1. project.sections \in Seq(SavedSections) /\ NamesOnce(project.sections)
  BY DEF Orderly
<1>2. Filtered(project, tag) = [app |-> project.app, sections |-> Only(project.sections, S)]
  BY CopiesAreSame DEF Filtered
<1> HIDE DEF S
<1>3. Only(project.sections, S) \in Seq(SavedSections) /\ NamesOnce(Only(project.sections, S))
  BY <1>1, OnlyAre, OnlyNamesOnce
<1>4. QED
  BY <1>2, <1>3 DEF Orderly

LEMMA UnionIs ==
  ASSUME NEW a, NEW b, Orderly(a), Orderly(b)
  PROVE  Union(a, b) = Without(a.sections, {Key(s) : s \in Range(b.sections)}) \o b.sections
<1>1. /\ a.sections \in Seq(SavedSections) /\ NamesOnce(a.sections)
      /\ b.sections \in Seq(SavedSections) /\ NamesOnce(b.sections)
  BY DEF Orderly
<1>2. TakeAll(<<>>, a.sections) = a.sections
  <2>1. <<>> \in Seq(SavedSections)
    OBVIOUS
  <2>2. TakeAll(<<>>, a.sections) = Without(<<>>, {Key(s) : s \in Range(a.sections)}) \o a.sections
    BY <1>1, <2>1, TakeAllReplaces
  <2>3. Without(<<>>, {Key(s) : s \in Range(a.sections)}) = <<>>
    BY OnlyNone DEF Without
  <2>4. <<>> \o a.sections = a.sections
    BY <1>1
  <2>5. QED
    BY <2>2, <2>3, <2>4
<1>3. Union(a, b) = TakeAll(a.sections, b.sections)
  BY <1>2, CopiesAreSame DEF Union
<1>4. TakeAll(a.sections, b.sections)
        = Without(a.sections, {Key(s) : s \in Range(b.sections)}) \o b.sections
  BY <1>1, TakeAllReplaces
<1>5. QED
  BY <1>3, <1>4

LEMMA MergedOrderly ==
  ASSUME OrderlySaves, NEW a, NEW b, Orderly(a), Orderly(b)
  PROVE  Orderly(Merged(a, b))
<1> DEFINE K == {Key(s) : s \in Range(b.sections)}
           rest == Without(a.sections, K)
<1>1. /\ a.sections \in Seq(SavedSections) /\ NamesOnce(a.sections)
      /\ b.sections \in Seq(SavedSections) /\ NamesOnce(b.sections)
  BY DEF Orderly
<1> DEFINE S == {s \in SavedSections : Key(s) \notin K}
<1>2. rest = Only(a.sections, S) /\ \A s \in S : Key(s) \notin K
  BY <1>1, WithoutIs
<1> HIDE DEF S, rest
<1>3. /\ rest \in Seq(SavedSections) /\ NamesOnce(rest)
      /\ Range(rest) = Range(a.sections) \cap S
  BY <1>1, <1>2, OnlyAre, OnlyNamesOnce
<1>4. ASSUME NEW s \in Range(rest), NEW t \in Range(b.sections) PROVE s.name # t.name
  <2>1. s \in SavedSections /\ t \in SavedSections /\ Key(s) # Key(t)
    BY <1>1, <1>2, <1>3, <1>4, RangeOf
  <2>2. QED
    BY <2>1 DEF OrderlySaves, Key
<1> HIDE DEF K
<1>5. NamesOnce(rest \o b.sections) /\ rest \o b.sections \in Seq(SavedSections)
  BY <1>1, <1>3, <1>4, BothNamesOnce
<1>6. Union(a, b) = rest \o b.sections
  BY UnionIs DEF rest, K
<1>7. QED
  BY <1>5, <1>6 DEF Merged, Orderly

(* Every project there is, in a file or under way, is orderly.             *)
TidyFile(f) == f # NoFile => Orderly(f.project)
TidyCall(c) == c.step # "idle" => Orderly(c.project)

Tidy ==
  /\ \A path \in Path : TidyFile(file[path]) /\ TidyFile(disk[path])
  /\ \A p \in Process : TidyCall(call[p])

LEMMA InitTidy == OrderlySaves => (Init => Tidy)
<1> SUFFICES ASSUME OrderlySaves, Init PROVE Tidy
  OBVIOUS
<1>1. ASSUME NEW project \in Saves PROVE Orderly(project)
  <2>1. project.sections \in Seq(Range(project.sections)) /\ Range(project.sections) \subseteq SavedSections
    BY SavesAssumption DEF SavedSections
  <2>2. project.sections \in Seq(SavedSections)
    BY <2>1
  <2>3. QED
    BY <2>2 DEF Orderly, OrderlySaves
<1>2. ASSUME NEW path \in Path PROVE TidyFile(file[path])
  <2> SUFFICES ASSUME file[path] # NoFile PROVE Orderly(file[path].project)
    BY DEF TidyFile
  <2>1. PICK project \in Saves : file[path] = File(project, Pieces(project), TRUE)
    BY DEF Init
  <2>2. file[path].project = project
    BY <2>1 DEF File
  <2>3. QED
    BY <1>1, <2>2
<1>3. disk = file /\ \A p \in Process : call[p] = Idle
  BY DEF Init
<1>4. QED
  BY <1>2, <1>3 DEF Tidy, TidyCall, Idle

LEMMA TidyStep ==
  ASSUME Tidy, Inv, NEW p \in Process, NEW c, TidyCall(c), Set(p, c),
         \A path \in Path : TidyFile(file'[path]) /\ TidyFile(disk'[path])
  PROVE  Tidy'
<1>1. \A q \in Process : call'[q] = IF q = p THEN c ELSE call[q]
  BY DEF Set, Inv
<1>2. \A q \in Process : TidyCall(call'[q])
  BY <1>1 DEF Tidy
<1>3. QED
  BY <1>2 DEF Tidy, TidyFile, TidyCall

LEMMA BeginTidy ==
  ASSUME Tidy, Inv, NEW p \in Process, NEW c, Begin(p, c), Orderly(c.project)
  PROVE  Tidy'
<1>1. TidyCall(c) /\ Set(p, c) /\ UNCHANGED <<file, disk>>
  BY DEF Begin, TidyCall
<1>2. \A path \in Path : TidyFile(file'[path]) /\ TidyFile(disk'[path])
  BY <1>1 DEF Tidy
<1>3. QED
  BY <1>1, <1>2, TidyStep

LEMMA StepTidy == OrderlySaves => (Tidy /\ Inv /\ TypeOK /\ [Next]_vars => Tidy')
<1> SUFFICES ASSUME OrderlySaves, Tidy, Inv, TypeOK, [Next]_vars PROVE Tidy'
  OBVIOUS
<1>0. \A path \in Path : TidyFile(file[path]) /\ TidyFile(disk[path])
  BY DEF Tidy
<1>1. ASSUME NEW p \in Process, NEW dst \in Path, NEW project \in Saves, Write(p, dst, project)
      PROVE  Tidy'
  <2>1. Orderly(project)
    <3>1. /\ project.sections \in Seq(Range(project.sections))
          /\ Range(project.sections) \subseteq SavedSections
      BY SavesAssumption DEF SavedSections
    <3>2. project.sections \in Seq(SavedSections)
      BY <3>1
    <3>3. QED
      BY <3>2 DEF Orderly, OrderlySaves
  <2>2. QED
    BY <1>1, <2>1, BeginTidy DEF Write
<1>2. ASSUME NEW p \in Process, NEW src \in Path, NEW dst \in Path, NEW tag \in Keeps,
             FilterTo(p, src, dst, tag)
      PROVE  Tidy'
  <2>1. Orderly(file[src].project)
    BY <1>0, <1>2 DEF FilterTo, Whole, TidyFile
  <2>2. Orderly(Filtered(file[src].project, tag))
    BY <2>1, FilteredOrderly
  <2>3. QED
    BY <1>2, <2>2, BeginTidy DEF FilterTo
<1>3. ASSUME NEW p \in Process, NEW a \in Path, NEW b \in Path, NEW dst \in Path,
             MergeTo(p, a, b, dst)
      PROVE  Tidy'
  <2>1. Orderly(file[a].project)
    BY <1>0, <1>3 DEF MergeTo, Whole, TidyFile
  <2>2. QED
    BY <1>3, <2>1, BeginTidy DEF MergeTo
<1>4. ASSUME NEW p \in Process, OpenB(p) PROVE Tidy'
  <2>1. call[p] \in [step: {"openb"}, dst: Path, b: Path, project: AllProjects]
    BY <1>4 DEF OpenB, TypeOK, Idle
  <2>2. Orderly(call[p].project) /\ Orderly(file[call[p].b].project)
    BY <1>0, <1>4, <2>1 DEF OpenB, Whole, TidyFile, Tidy, TidyCall
  <2>3. Orderly(Merged(call[p].project, file[call[p].b].project))
    BY <2>2, MergedOrderly
  <2>4. PICK c : c = [step |-> "create", dst |-> call[p].dst,
                      project |-> Merged(call[p].project, file[call[p].b].project)]
    OBVIOUS
  <2>5. TidyCall(c) /\ Set(p, c)
    BY <1>4, <2>3, <2>4 DEF OpenB, TidyCall
  <2>6. QED
    BY <1>0, <1>4, <2>5, TidyStep DEF OpenB
<1>5. ASSUME NEW p \in Process, NEW c, Set(p, c), UNCHANGED <<file, disk>>,
             c.project = call[p].project, call[p].step # "idle"
      PROVE  Tidy'
  <2>1. TidyCall(c)
    BY <1>5 DEF Tidy, TidyCall
  <2>2. QED
    BY <1>0, <1>5, <2>1, TidyStep
<1>6. ASSUME NEW p \in Process, Create(p) PROVE Tidy'
  <2>1. PICK c : c = [call[p] EXCEPT !.step = "write"]
    OBVIOUS
  <2>2. call[p] = [step |-> call[p].step, dst |-> call[p].dst, project |-> call[p].project]
    BY <1>6, WritingCall DEF Create
  <2>3. c.project = call[p].project
    BY <2>1, <2>2
  <2>4. QED
    BY <1>5, <1>6, <2>1, <2>3 DEF Create
<1>7. ASSUME NEW p \in Process, SyncAll(p) PROVE Tidy'
  <2>1. PICK c : c = [call[p] EXCEPT !.step = "rename"]
    OBVIOUS
  <2>2. call[p] = [step |-> call[p].step, dst |-> call[p].dst, project |-> call[p].project]
    BY <1>7, WritingCall DEF SyncAll
  <2>3. c.project = call[p].project
    BY <2>1, <2>2
  <2>4. QED
    BY <1>5, <1>7, <2>1, <2>3 DEF SyncAll
<1>8. ASSUME NEW p \in Process, Rename(p) PROVE Tidy'
  <2>1. call[p].dst \in Path /\ TempFollowsCall(call[p])
    BY <1>8, WritingCall DEF Rename
  <2>2. Orderly(temp[call[p].dst].project)
    BY <1>8, <2>1 DEF Rename, TempFollowsCall, File, Tidy, TidyCall
  <2>3. \A path \in Path :
          file'[path] = IF path = call[p].dst THEN temp[call[p].dst] ELSE file[path]
    BY <1>8 DEF Rename, Inv
  <2>4. \A path \in Path : TidyFile(file'[path]) /\ TidyFile(disk'[path])
    BY <1>0, <1>8, <2>2, <2>3 DEF Rename, TidyFile
  <2>5. TidyCall(Idle)
    BY DEF TidyCall, Idle
  <2>6. QED
    BY <1>8, <2>4, <2>5, TidyStep DEF Rename
<1>9. ASSUME NEW p \in Process, Stop(p) PROVE Tidy'
  <2>1. TidyCall(Idle)
    BY DEF TidyCall, Idle
  <2>2. QED
    BY <1>0, <1>9, <2>1, TidyStep DEF Stop
<1>10. ASSUME NEW path \in Path, Settle(path) PROVE Tidy'
  <2>1. file' = file /\ call' = call
        /\ \A x \in Path : disk'[x] = IF x = path THEN file[path] ELSE disk[x]
    BY <1>10 DEF Settle, Inv
  <2>2. QED
    BY <2>1 DEF Tidy, TidyFile, TidyCall
<1>11. CASE PowerFailure
  <2>1. PICK left \in [Path -> UNION {Survivors(f) : f \in Range(file) \cup Range(disk)}] :
          /\ \A path \in Path : left[path] \in Survivors(file[path]) \cup Survivors(disk[path])
          /\ file' = left /\ disk' = left
    BY <1>11 DEF PowerFailure
  <2>2. \A path \in Path : left[path] = file[path] \/ left[path] = disk[path]
    BY <2>1, DurableSurvives DEF Inv
  <2>3. \A path \in Path : TidyFile(file'[path]) /\ TidyFile(disk'[path])
    BY <1>0, <2>1, <2>2
  <2>4. \A p \in Process : call'[p] = Idle
    BY <1>11 DEF PowerFailure
  <2>5. QED
    BY <2>3, <2>4 DEF Tidy, TidyFile, TidyCall, Idle
<1>12. CASE UNCHANGED <<file, disk, call>>
  BY <1>12 DEF Tidy, TidyFile, TidyCall
<1>13. QED
  BY <1>1, <1>2, <1>3, <1>4, <1>6, <1>7, <1>8, <1>9, <1>10, <1>11, <1>12
     DEF Next, WritePiece, vars

THEOREM StaysTidy == ASSUME OrderlySaves PROVE Spec => []Tidy
<1>1. Init => Tidy
  BY InitTidy
<1>2. Tidy /\ Inv /\ TypeOK /\ [Next]_vars => Tidy'
  BY StepTidy
<1>3. QED
  BY <1>1, <1>2, CallsInv, TypeCorrect, PTL DEF Spec

(* Every stored blob is the one that was saved for its entry, however      *)
(* often it was filtered and merged, if the callers keep a name to one     *)
(* section and one kind.                                                   *)
THEOREM BlobsStayMatched == ASSUME OrderlySaves PROVE Spec => []BlobsMatchEntries
<1>1. Tidy => BlobsMatchEntries
  <2> SUFFICES ASSUME Tidy, NEW path \in Path, file[path] # NoFile,
                      NEW i \in DOMAIN file[path].project.sections
               PROVE  file[path].project.sections[i].blob.of = Key(file[path].project.sections[i])
    BY DEF BlobsMatchEntries
  <2>1. file[path].project.sections \in Seq(SavedSections)
    BY DEF Tidy, TidyFile, Orderly
  <2>2. file[path].project.sections[i] \in SavedSections
    BY <2>1
  <2>3. QED
    BY <2>2 DEF OrderlySaves
<1>2. Spec => []Tidy
  BY StaysTidy
<1>3. QED
  BY <1>1, <1>2, PTL

(* A merge under way will write b's sections over a's: those of a that are *)
(* not replaced keep their order and come first.                           *)
THEOREM LastWriterAlwaysWins == ASSUME OrderlySaves PROVE Spec => []LastWriterWins
<1>1. Tidy /\ TypeOK => LastWriterWins
  <2> SUFFICES ASSUME Tidy, TypeOK, NEW p \in Process,
                      call[p].step = "openb", Whole(file[call[p].b])
               PROVE  LET a == call[p].project
                          b == file[call[p].b].project
                      IN Merged(a, b) =
                           [app |-> a.app,
                            sections |-> Without(a.sections, {Key(s) : s \in Range(b.sections)})
                                           \o b.sections]
    BY DEF LastWriterWins
  <2>1. call[p] \in [step: {"openb"}, dst: Path, b: Path, project: AllProjects]
    BY DEF TypeOK, Idle
  <2>2. Orderly(call[p].project) /\ Orderly(file[call[p].b].project)
    BY <2>1 DEF Whole, TidyFile, Tidy, TidyCall
  <2>3. QED
    BY <2>2, UnionIs DEF Merged
<1>2. Spec => []Tidy
  BY StaysTidy
<1>3. QED
  BY <1>1, <1>2, TypeCorrect, PTL
=============================================================================
