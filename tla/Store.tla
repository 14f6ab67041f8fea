------------------------------- MODULE Store --------------------------------
(***************************************************************************)
(* The memory-mapped lane store (src/store/writer.rs and reader.rs): one   *)
(* writer creates a store over whatever its path names, fills it region by *)
(* region and seals it, while the kernel writes its pages back in any      *)
(* order; the writer may fail or be killed and the power may fail at any   *)
(* step.  `open` is the operator Opens, what it then reads is Contents.    *)
(*                                                                         *)
(* A file is a function from byte offsets to bytes; a byte says what it is *)
(* part of, which value was written there and at which offset of it.       *)
(*                                                                         *)
(* What the writer flushes is the mapping: the file's bytes and length.    *)
(* Neither it nor its directory is fsynced, so the entry of a path that    *)
(* `create` made reaches the disk when the kernel likes, and a power       *)
(* failure before that takes the path away, finalized or not.              *)
(*                                                                         *)
(* Not the store's (mod.rs:80-81): a second writer, and a reader while the *)
(* writer is alive.                                                        *)
(***************************************************************************)
EXTENDS StoreLayout

CONSTANTS
  Schemas,      (* a sequence of schemas a caller may create             *)
  Values,       (* what a caller may write to a region                   *)
  PageSize,     (* of the page cache                                     *)
  MaxCreates,   (* bound: stores created                                 *)
  MaxWrites,    (* bound: writes to their regions                        *)
  MaxFailures   (* bound: power failures                                 *)

ASSUME BoundsAssumption == {MaxCreates, MaxWrites, MaxFailures, PageSize} \subseteq Nat
                           /\ PageSize > 0 /\ Values \subseteq Nat \ {0}

ASSUME SchemasAssumption == Schemas \in Seq(Schema)

VARIABLES
  cache,      (* what the path holds, through the page cache             *)
  disk,       (* what that file holds on disk                            *)
  committed,  (* whether that is the truncated file, not the one before  *)
  linked,     (* the path's directory entry is on disk                   *)
  writer,     (* "none", "filling" or "sealing"                          *)
  flushBehind,(* flush_behind of the writer                              *)
  made,       (* the store the writer makes, or made last: its schema,   *)
              (* what was given to it, and how far it came               *)
  before,     (* what opening the path could give before that, or could  *)
              (* give after a power failure                              *)
  creates, writes, failures

vars == <<cache, disk, committed, linked, writer, flushBehind, made, before, creates, writes, failures>>

-----------------------------------------------------------------------------
(* Bytes and files *)

Byte(of, v, at) == [of |-> of, v |-> v, at |-> at]
Zero == Byte("zero", 0, 0)

(* Byte b of a region that holds v, which starts at `start`. *)
DataByte(v, start, b) == IF v = 0 THEN Zero ELSE Byte("data", v, b - start)

NoBytes == [b \in {} |-> Zero]     (* an absent or an empty file *)

HeaderLen(n) == PrefixLen + Schemas[n].header_len

(* What `create` leaves in the file: all zero but for the header. *)
Fresh(n) == [b \in Bytes(0, TotalLen(Schemas[n])) |->
               IF b < HeaderLen(n) THEN Byte("header", n, b) ELSE Zero]

WithRegion(f, n, r, v) ==
  LET s == Schemas[n] IN
  [b \in DOMAIN f |-> IF b \in Region(s, r) THEN DataByte(v, RegionStart(s, r), b) ELSE f[b]]

(* Wrong on purpose: the seal goes after the length of the file.           *)
WithSealAppended(f, n) ==
  LET s == Schemas[n] IN
  [b \in DOMAIN f \cup Bytes(TotalLen(s), SealLen) |->
     IF b \in DOMAIN f THEN f[b] ELSE Byte("seal", n, b - TotalLen(s))]

(* write_seal *)
WithSeal(f, n) ==
  LET s == Schemas[n] IN
  [b \in DOMAIN f |-> IF b \in Bytes(SealOffset(s), SealLen)
                      THEN Byte("seal", n, b - SealOffset(s)) ELSE f[b]]

-----------------------------------------------------------------------------
(* The reader *)

(* Wrong on purpose: the header alone is taken for a finalized store.      *)
OpensAsUnsealed(f, n) == \A b \in Bytes(0, HeaderLen(n)) :
                           b \in DOMAIN f /\ f[b] = Byte("header", n, b)

(* open and verify_seal: the header parses as schema n, the file is long   *)
(* enough for it and ends in the seal that goes with it.                   *)
OpensAs(f, n) ==
  LET s == Schemas[n] IN
  /\ \A b \in Bytes(0, HeaderLen(n)) : b \in DOMAIN f /\ f[b] = Byte("header", n, b)
  /\ Bytes(0, TotalLen(s)) \subseteq DOMAIN f
  /\ \A b \in Bytes(SealOffset(s), SealLen) : f[b] = Byte("seal", n, b - SealOffset(s))

Opens(f) == \E n \in DOMAIN Schemas : OpensAs(f, n)

ReadRegion(f, s, r) == [j \in Bytes(0, RegionLen(s, r)) |-> f[RegionStart(s, r) + j]]

(* What a reader finds: the schema and the bytes of every region.          *)
Contents(f) ==
  LET n == CHOOSE n \in DOMAIN Schemas : OpensAs(f, n) IN
  [schema |-> n, data |-> [r \in Regions(Schemas[n]) |-> ReadRegion(f, Schemas[n], r)]]

Nothing == [schema |-> 0, data |-> <<>>]
Reading(f) == IF Opens(f) THEN Contents(f) ELSE Nothing

(* What a reader should find in a store that was given these values.       *)
Given(n, given) ==
  [schema |-> n,
   data |-> [r \in Regions(Schemas[n]) |->
               [j \in Bytes(0, RegionLen(Schemas[n], r)) |-> DataByte(given[r], 0, j)]]]

-----------------------------------------------------------------------------
Pages == 0..((CHOOSE m \in {TotalLen(Schemas[n]) : n \in DOMAIN Schemas} :
               \A n \in DOMAIN Schemas : TotalLen(Schemas[n]) <= m) \div PageSize)

PageOf(b) == b \div PageSize

(* What is on disk once these pages of file f, the cache's, are written.   *)
Written(f, pages) ==
  [b \in DOMAIN f |-> IF PageOf(b) \in pages THEN f[b]
                      ELSE IF committed THEN disk[b] ELSE Zero]

Sealed(n, v) ==
  LET s == Schemas[n] IN
  WithSeal([b \in Bytes(0, TotalLen(s)) |->
              IF \E r \in Regions(s) : b \in Region(s, r)
              THEN LET r == CHOOSE r \in Regions(s) : b \in Region(s, r)
                   IN DataByte(v, RegionStart(s, r), b)
              ELSE Fresh(n)[b]], n)

(* At first the path names nothing, an empty file, or a store that was     *)
(* finalized; what it names is on disk.                                    *)
Init ==
  /\ cache \in {NoBytes} \cup {Sealed(n, v) : n \in {m \in DOMAIN Schemas : Valid(Schemas[m])},
                                              v \in Values}
  /\ disk = cache /\ committed = TRUE
  /\ linked \in BOOLEAN /\ (cache # NoBytes => linked)
  /\ writer = "none" /\ flushBehind = FALSE
  /\ made = [schema |-> 0, given |-> <<>>, phase |-> "none"]
  /\ before = {Reading(cache)}
  /\ creates = 0 /\ writes = 0 /\ failures = 0

-----------------------------------------------------------------------------
(* The writer *)

(* The path is opened and the file truncated.  If the path was not there,  *)
(* or its entry is not on disk, then it still is not.                      *)
Begin(n) ==
  /\ writer = "none" /\ creates < MaxCreates /\ Valid(Schemas[n])
  /\ creates' = creates + 1
  /\ before' = {Reading(cache), Reading(disk)}
  /\ made' = [schema |-> n, given |-> [r \in Regions(Schemas[n]) |-> 0], phase |-> "filling"]
  /\ committed' = FALSE
  /\ UNCHANGED <<disk, linked, writes, failures>>

Create(n, behind) ==
  /\ Begin(n)
  /\ cache' = Fresh(n) /\ writer' = "filling" /\ flushBehind' = behind

(* The file is opened, and so truncated, but set_len or the mapping fails. *)
CreateFails(n) ==
  /\ Begin(n)
  /\ cache' = NoBytes
  /\ UNCHANGED <<writer, flushBehind>>

(* What an msync does: the file's pages and its length, not its entry.     *)
Sync(pages) == disk' = Written(cache', pages) /\ committed' = TRUE
NoSync      == UNCHANGED <<disk, committed>>

Fill(r, v) ==
  /\ writer = "filling" /\ writes < MaxWrites /\ r \in Regions(Schemas[made.schema])
  /\ writes' = writes + 1
  /\ cache' = WithRegion(cache, made.schema, r, v)
  /\ made' = [made EXCEPT !.given[r] = v]
  /\ UNCHANGED <<linked, writer, flushBehind, before, creates, failures>>

IsSlab(r) == Schemas[made.schema].lanes[r[1]].kind = "slab"
PagesOf(r) == {PageOf(b) : b \in Region(Schemas[made.schema], r)}

(* write_slab_*: with flush-behind the slab's pages are on disk when it    *)
(* returns, unless it returns the msync's error.  (Without flush-behind    *)
(* they may get there at any time, by Writeback.)                          *)
WriteSlab(r, v) ==
  /\ Fill(r, v) /\ IsSlab(r)
  /\ \/ NoSync
     \/ flushBehind /\ Sync(PagesOf(r))

(* write_flat_*, and the in-place views of a slab or a flat lane.          *)
WriteInPlace(r, v) == Fill(r, v) /\ NoSync

FlushBehindSlab(r) ==
  /\ writer = "filling" /\ r \in Regions(Schemas[made.schema]) /\ IsSlab(r)
  /\ UNCHANGED cache /\ Sync(PagesOf(r))
  /\ UNCHANGED <<linked, writer, flushBehind, made, before, creates, writes, failures>>

Flush ==
  /\ writer = "filling"
  /\ UNCHANGED cache /\ Sync(Pages)
  /\ UNCHANGED <<linked, writer, flushBehind, made, before, creates, writes, failures>>

(* finalize, up to its msync: the pages then reach the disk in any order.  *)
WriteSeal ==
  /\ writer = "filling"
  /\ cache' = WithSeal(cache, made.schema)
  /\ writer' = "sealing"
  /\ made' = [made EXCEPT !.phase = "sealing"]
  /\ UNCHANGED <<disk, committed, linked, flushBehind, before, creates, writes, failures>>

(* Wrong on purpose: finalize returns once the seal's page is on disk.     *)
FinalizedEarly ==
  /\ writer = "sealing" /\ committed
  /\ \A b \in Bytes(SealOffset(Schemas[made.schema]), SealLen) : disk[b] = cache[b]
  /\ writer' = "none"
  /\ made' = [made EXCEPT !.phase = "final"]
  /\ UNCHANGED <<cache, disk, committed, linked, flushBehind, before, creates, writes, failures>>

(* finalize returns Ok: its msync found every page written.                *)
Finalized ==
  /\ writer = "sealing" /\ committed /\ disk = cache
  /\ writer' = "none"
  /\ made' = [made EXCEPT !.phase = "final"]
  /\ UNCHANGED <<cache, disk, committed, linked, flushBehind, before, creates, writes, failures>>

(* The writer is dropped, its finalize fails, or its process is killed.    *)
(* (The cache keeps its bytes; a kernel that drops the pages of a failed   *)
(* msync is not modelled.)                                                 *)
WriterGone ==
  /\ writer # "none"
  /\ writer' = "none"
  /\ UNCHANGED <<cache, disk, committed, linked, flushBehind, made, before, creates, writes, failures>>

-----------------------------------------------------------------------------
(* The kernel: a dirty page, the truncated file itself or its directory    *)
(* entry reaches the disk whenever it likes; a power failure leaves what   *)
(* is on disk.                                                             *)

Writeback(pages) ==
  /\ ~committed \/ Written(cache, pages) # disk
  /\ UNCHANGED cache /\ Sync(pages)
  /\ UNCHANGED <<linked, writer, flushBehind, made, before, creates, writes, failures>>

EntryWritten ==
  /\ ~linked /\ made.phase \notin {"none", "lost"} /\ linked' = TRUE
  /\ UNCHANGED <<cache, disk, committed, writer, flushBehind, made, before, creates, writes, failures>>

(* What the power leaves when it fails.                                    *)
Survives == IF linked THEN disk ELSE NoBytes

(* A store whose path is gone is lost.                                     *)
PowerFailure ==
  /\ failures < MaxFailures /\ failures' = failures + 1
  /\ cache' = Survives /\ disk' = Survives /\ committed' = TRUE /\ writer' = "none"
  /\ made' = IF linked \/ made.phase = "none" THEN made ELSE [made EXCEPT !.phase = "lost"]
  /\ UNCHANGED <<linked, flushBehind, before, creates, writes>>

-----------------------------------------------------------------------------
Next ==
  \/ \E n \in DOMAIN Schemas : CreateFails(n) \/ \E behind \in BOOLEAN : Create(n, behind)
  \/ \E n \in DOMAIN Schemas : \E r \in Regions(Schemas[n]) :
       \/ \E v \in Values : WriteSlab(r, v) \/ WriteInPlace(r, v)
       \/ FlushBehindSlab(r)
  \/ Flush \/ WriteSeal \/ Finalized \/ WriterGone
  \/ \E p \in Pages : Writeback({p})
  \/ Writeback({}) \/ EntryWritten
  \/ PowerFailure

Spec == Init /\ [][Next]_vars
-----------------------------------------------------------------------------
TypeOK ==
  /\ committed \in BOOLEAN /\ linked \in BOOLEAN /\ flushBehind \in BOOLEAN
  /\ committed => DOMAIN disk = DOMAIN cache
  /\ writer \in {"none", "filling", "sealing"}
  /\ made.phase \in {"none", "filling", "sealing", "final", "lost"}
  /\ writer # "none" => DOMAIN cache = Bytes(0, TotalLen(Schemas[made.schema]))
                        /\ made.phase = writer
  /\ creates \in 0..MaxCreates /\ writes \in 0..MaxWrites /\ failures \in 0..MaxFailures

MadeContents == Given(made.schema, made.given)
ReadsBack(f) == Opens(f) /\ Contents(f) = MadeContents

(* A store whose finalize returned opens and every region reads back as it *)
(* was last written: lanes and slabs do not overlap (writer.rs:216-217).   *)
(* That holds after a power failure too once the path's directory entry is *)
(* on disk, which finalize does not see to: before that the power failure  *)
(* takes the path, and the store is lost.                                  *)
FinalizedReadsBack ==
  made.phase = "final" => ReadsBack(cache) /\ (linked => ReadsBack(Survives))

(* A store that was not sealed does not open, whatever was written back of *)
(* it: if the path opens, the store that was there before is back whole.   *)
(* (layout.rs:94-95)                                                       *)
UnsealedNeverOpens ==
  made.phase = "filling" => \A f \in {cache, Survives} : Opens(f) => Contents(f) \in before

(* A writer that is killed or fails in finalize does no harm: without a    *)
(* power failure what opens is whole.                                      *)
KilledFinalizeIsWhole ==
  failures = 0 /\ made.phase = "sealing" /\ Opens(cache) => Contents(cache) = MadeContents

(* "the partial-write / not-finalized detector" (layout.rs:94): what opens *)
(* is whole, the store that was there before or the new one.               *)
OpensWhole ==
  made.phase # "none" =>
    \A f \in {cache, Survives} : Opens(f) => Contents(f) \in before \cup {MadeContents}
=============================================================================
