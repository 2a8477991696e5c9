-------------------------- MODULE ArtifactCatalog --------------------------
(***************************************************************************)
(* Verified artifacts: crates/nxr-task/src/artifact.rs.  The commands of   *)
(* several checkouts share one catalog on the host.  A command brings an   *)
(* input into its checkout (materialize_inputs) or publishes its records   *)
(* after a run (publish_checkout_catalog); `nxr catalog retain` removes    *)
(* what is over the quota.  Records are guarded by a lock per record,      *)
(* objects by a lock per object that publication does not take.            *)
(*                                                                         *)
(* The content of a directory tree is the digest it verifies as, or Absent *)
(* or Damaged.  A name stands for a catalog key and a task name.           *)
(***************************************************************************)
EXTENDS Naturals, Sequences, FiniteSets

CONSTANTS
    ArtProcs,      \* commands, each in a checkout of its own
    ArtNames,
    ArtDigests,
    Absent, Damaged, OldTree, NoOne,
    Quotas,        \* quotas of retain
    MaxRot         \* how often something on disk is damaged

ASSUME ArtAssumption ==
    /\ Quotas \subseteq Nat /\ MaxRot \in Nat
    /\ ArtDigests \cap {Absent, Damaged, OldTree, "checkout", "dest"} = {}
    /\ Absent # Damaged

VARIABLES
    rec,        \* name -> digest of the catalog's record, Absent or Damaged
    trees,      \* path -> content
    pins,       \* pinned digests
    rec_lock,   \* name -> holder
    obj_lock,   \* digest -> holder
    art,        \* what each command is doing
    ret,        \* what retain is doing
    rot,
    overlap     \* a publication and a retention ran at the same time

art_vars == <<rec, trees, pins, rec_lock, obj_lock, art, ret, rot, overlap>>

CatalogPath(d) == <<"catalog", d>>
Path(p, t) == IF t = "catalog" THEN CatalogPath(art[p].digest) ELSE <<p, t>>

CatalogPaths == {CatalogPath(d) : d \in ArtDigests}
CheckoutPaths == ArtProcs \X {"checkout", "dest"}

ArtIdle == [pc |-> "idle"]

ArtInit ==
    /\ rec = [n \in ArtNames |-> Absent]
    /\ trees = [x \in CatalogPaths \cup CheckoutPaths |->
                  IF x[2] = "dest" THEN OldTree ELSE Absent]
    /\ pins \in SUBSET ArtDigests
    /\ rec_lock = [n \in ArtNames |-> NoOne]
    /\ obj_lock = [d \in ArtDigests |-> NoOne]
    /\ art = [p \in ArtProcs |-> ArtIdle]
    /\ ret = [pc |-> "idle"]
    /\ rot = 0
    /\ overlap = FALSE

verify_tree(path, d) == trees[path] = d

Publishing(p) == art[p].pc \in {"publish", "swap", "in", "verify", "end"}
Retaining == ret.pc \notin {"idle", "done"}

(* Ghost: recorded by every step that begins or goes on with a command.    *)
NoteOverlap == overlap' = (overlap \/ Retaining)

ArtStay == UNCHANGED <<rec, trees, pins, rec_lock, obj_lock, ret, rot>>

Released(lock, p) == [x \in DOMAIN lock |-> IF lock[x] = p THEN NoOne ELSE lock[x]]

ArtFail(p) == art' = [art EXCEPT ![p].pc = "failed"]

-----------------------------------------------------------------------------
(* materialize_inputs and publish_checkout_catalog                         *)

(* A command starts with its checkout's record; the checkout's own object  *)
(* is there or not, and the record has an attempt id or not.               *)
ArtBegin(p, op, n, d, attempt, object) ==
    /\ art[p].pc = "idle"
    /\ art' = [art EXCEPT ![p] = [pc |-> "plan", op |-> op, name |-> n, digest |-> d,
                                  attempt |-> attempt, todo |-> <<>>, backup |-> Absent]]
    /\ trees' = [trees EXCEPT ![<<p, "checkout">>] = object]
    /\ NoteOverlap
    /\ UNCHANGED <<rec, pins, rec_lock, obj_lock, ret, rot>>

catalog_object_ok(n, d) == rec[n] = d /\ verify_tree(CatalogPath(d), d)

(* What is copied where, in order: from the catalog, from the checkout's   *)
(* object (which is published on the way), or from a fetched bundle.       *)
MaterializePlans(p) ==
    LET a == art[p]
    IN  IF catalog_object_ok(a.name, a.digest)
        THEN {<< <<"catalog", "checkout">>, <<"checkout", "dest">> >>}
        ELSE IF verify_tree(Path(p, "checkout"), a.digest)
        THEN {<< <<"checkout", "catalog">>, <<"checkout", "dest">> >>}
        ELSE IF a.attempt
        THEN {<< <<"fetched", "dest">>, <<"dest", "checkout">>, <<"dest", "catalog">> >>}
        ELSE {}

materialize_inputs_from(p) ==
    /\ art[p].pc = "plan" /\ art[p].op = "materialize"
    /\ \/ \E plan \in MaterializePlans(p) :
             art' = [art EXCEPT ![p].pc = "publish", ![p].todo = plan]
       \/ MaterializePlans(p) = {} /\ ArtFail(p)
    /\ NoteOverlap /\ ArtStay

(* nixplane fails, or the bundle it fetched does not unpack or verify.     *)
fetch_remote_fails(p) ==
    /\ art[p].pc = "publish" /\ Head(art[p].todo)[1] = "fetched"
    /\ ArtFail(p)
    /\ NoteOverlap /\ ArtStay

(* An unverified object of the checkout is passed over.                    *)
publish_checkout_catalog(p) ==
    /\ art[p].pc = "plan" /\ art[p].op = "publish"
    /\ art' = [art EXCEPT ![p] =
          IF verify_tree(Path(p, "checkout"), @.digest)
          THEN [@ EXCEPT !.pc = "publish", !.todo = << <<"checkout", "catalog">> >>]
          ELSE [@ EXCEPT !.pc = "done"]]
    /\ NoteOverlap /\ ArtStay

From(p) == Head(art[p].todo)[1]
To(p) == Head(art[p].todo)[2]

(* with_exclusive_lock: the object's lock for a copy out of the catalog,   *)
(* the record's for a copy into it.                                        *)
MayEnter(p) ==
    /\ From(p) = "catalog" => obj_lock[art[p].digest] = NoOne
    /\ To(p) = "catalog" => rec_lock[art[p].name] = NoOne

Locked(p) ==
    /\ obj_lock' = IF From(p) = "catalog" THEN [obj_lock EXCEPT ![art[p].digest] = p] ELSE obj_lock
    /\ rec_lock' = IF To(p) = "catalog" THEN [rec_lock EXCEPT ![art[p].name] = p] ELSE rec_lock

(* publish_record_tree: the key is stored with another content.            *)
Conflict(p) == To(p) = "catalog" /\ rec[art[p].name] \notin {art[p].digest, Absent, Damaged}

(* accept_catalog_publish lets a materialization go on after a conflict.   *)
catalog_conflict(p) ==
    /\ art[p].pc = "publish" /\ MayEnter(p) /\ Conflict(p)
    /\ art' = [art EXCEPT ![p].pc = IF art[p].op # "materialize" THEN "failed"
                                    ELSE IF Len(art[p].todo) = 1 THEN "done" ELSE "publish",
                          ![p].todo = Tail(@)]
    /\ NoteOverlap /\ ArtStay

AlreadyThere(p) == verify_tree(Path(p, To(p)), art[p].digest)

(* publish_tree, first half: nothing to do, or the copy is staged and      *)
(* verified, or there is nothing good to copy.                             *)
publish_tree_stage(p) ==
    /\ art[p].pc = "publish" /\ MayEnter(p) /\ ~ Conflict(p)
    /\ LET d == art[p].digest
           good == From(p) = "fetched" \/ verify_tree(Path(p, From(p)), d)
           next == IF AlreadyThere(p) THEN "end"
                   ELSE IF good THEN "swap" ELSE "failed"
       IN  /\ art' = [art EXCEPT ![p].pc = next]
           /\ IF next = "failed" THEN UNCHANGED <<rec_lock, obj_lock>> ELSE Locked(p)
    /\ NoteOverlap
    /\ UNCHANGED <<rec, trees, pins, ret, rot>>

(* The previous tree steps aside ...                                       *)
publish_tree_backup(p) ==
    /\ art[p].pc = "swap"
    /\ art' = [art EXCEPT ![p].pc = "in", ![p].backup = trees[Path(p, To(p))]]
    /\ trees' = [trees EXCEPT ![Path(p, To(p))] = Absent]
    /\ NoteOverlap
    /\ UNCHANGED <<rec, pins, rec_lock, obj_lock, ret, rot>>

ArtRelease(p) == /\ rec_lock' = Released(rec_lock, p)
                 /\ obj_lock' = Released(obj_lock, p)

(* ... and the staged one takes its place, unless another command was      *)
(* faster.                                                                 *)
publish_tree_rename(p) ==
    /\ art[p].pc = "in"
    /\ LET to == Path(p, To(p))
       IN  IF trees[to] = Absent
           THEN /\ trees' = [trees EXCEPT ![to] = art[p].digest]
                /\ art' = [art EXCEPT ![p].pc = "verify"]
                /\ UNCHANGED <<rec_lock, obj_lock>>
           ELSE ArtFail(p) /\ ArtRelease(p) /\ UNCHANGED trees
    /\ NoteOverlap
    /\ UNCHANGED <<rec, pins, ret, rot>>

(* A tree that does not verify gives way to the previous one.              *)
Restored(p) == [trees EXCEPT ![Path(p, To(p))] = art[p].backup]

publish_tree_verify(p) ==
    /\ art[p].pc = "verify"
    /\ IF verify_tree(Path(p, To(p)), art[p].digest)
       THEN /\ art' = [art EXCEPT ![p].pc = "end"]
            /\ UNCHANGED <<trees, rec_lock, obj_lock>>
       ELSE trees' = Restored(p) /\ ArtFail(p) /\ ArtRelease(p)
    /\ NoteOverlap
    /\ UNCHANGED <<rec, pins, ret, rot>>

(* The record is written, the lock released, and the next copy begins.     *)
publish_end(p) ==
    /\ art[p].pc = "end"
    /\ rec' = IF To(p) = "catalog" THEN [rec EXCEPT ![art[p].name] = art[p].digest] ELSE rec
    /\ ArtRelease(p)
    /\ art' = [art EXCEPT ![p].todo = Tail(@),
                          ![p].pc = IF Len(art[p].todo) = 1 THEN "done" ELSE "publish"]
    /\ NoteOverlap
    /\ UNCHANGED <<trees, pins, ret, rot>>

ArtCrash(p) ==
    /\ art[p].pc \notin {"idle", "done", "failed", "crashed"}
    /\ art' = [art EXCEPT ![p].pc = "crashed"]
    /\ ArtRelease(p)
    /\ UNCHANGED <<rec, trees, pins, ret, rot, overlap>>

-----------------------------------------------------------------------------
(* retain_catalog                                                          *)

Recorded(d) == \E n \in ArtNames : rec[n] = d

(* record_files; an unreadable record makes it, and retain, fail.          *)
record_files == {<<n, rec[n]>> : n \in {n \in ArtNames : rec[n] # Absent}}
Unreadable == \E n \in ArtNames : rec[n] = Damaged

RetStay == UNCHANGED <<pins, rec_lock, obj_lock, art, rot>>
              /\ overlap' = (overlap \/ \E p \in ArtProcs : Publishing(p) \/ art[p].pc = "plan")
RetGoto(pc, todo) == ret' = [ret EXCEPT !.pc = pc, !.todo = todo]

(* Unreadable records are put aside first; more pins than the quota has    *)
(* room for end the command.                                               *)
quarantine_corrupt_records(quota) ==
    /\ ret.pc = "idle"
    /\ rec' = [n \in ArtNames |-> IF rec[n] = Damaged THEN Absent ELSE rec[n]]
    /\ ret' = IF Cardinality(pins) > quota THEN [pc |-> "done"]
              ELSE [pc |-> "quarantine", quota |-> quota, left |-> 0, digest |-> Absent,
                    todo |-> {f \in record_files : f[2] # Damaged}]
    /\ UNCHANGED trees /\ RetStay

quarantine_unverified(f) ==
    /\ ret.pc = "quarantine"
    /\ f \in ret.todo
    /\ rec' = IF verify_tree(CatalogPath(f[2]), f[2]) THEN rec ELSE [rec EXCEPT ![f[1]] = Absent]
    /\ RetGoto("quarantine", ret.todo \ {f})
    /\ UNCHANGED trees /\ RetStay

retain_list ==
    /\ ret.pc = "quarantine" /\ ret.todo = {}
    /\ ret' = IF Unreadable THEN [pc |-> "done"]
              ELSE [ret EXCEPT !.pc = "expire", !.todo = record_files,
                               !.left = Cardinality(record_files)]
    /\ UNCHANGED <<rec, trees>> /\ RetStay

(* The oldest record that is not pinned goes; which is oldest is open.     *)
retain_expire(f) ==
    /\ ret.pc = "expire" /\ ret.left > ret.quota
    /\ f \in ret.todo /\ f[2] \notin pins
    /\ rec' = [rec EXCEPT ![f[1]] = Absent]
    /\ ret' = IF rec[f[1]] = Absent THEN [pc |-> "done"]   \* somebody removed it: error
              ELSE [ret EXCEPT !.pc = "delete", !.todo = @ \ {f}, !.left = @ - 1, !.digest = f[2]]
    /\ UNCHANGED trees /\ RetStay

(* delete_object_if_unlocked                                               *)
Deleted(d) == IF obj_lock[d] = NoOne THEN [trees EXCEPT ![CatalogPath(d)] = Absent] ELSE trees

(* Fault: the record was just removed, so nobody has the object.           *)
digest_still_recorded_no(d) == FALSE

digest_still_recorded(d) == ~ Unreadable /\ Recorded(d)

retain_delete ==
    /\ ret.pc = "delete"
    /\ trees' = IF digest_still_recorded(ret.digest) THEN trees ELSE Deleted(ret.digest)
    /\ RetGoto("expire", ret.todo)
    /\ UNCHANGED rec /\ RetStay

(* delete_orphan_objects: the records are listed once, for all objects.    *)
orphan_list ==
    /\ ret.pc = "expire"
    /\ ret.left <= ret.quota \/ \A f \in ret.todo : f[2] \in pins
    /\ IF Unreadable THEN ret' = [pc |-> "done"]
       ELSE RetGoto("orphans", {d \in ArtDigests : ~ Recorded(d) /\ trees[CatalogPath(d)] # Absent})
    /\ UNCHANGED <<rec, trees>> /\ RetStay

delete_orphan_objects(d) ==
    /\ ret.pc = "orphans"
    /\ d \in ret.todo
    /\ trees' = Deleted(d)
    /\ RetGoto("orphans", ret.todo \ {d})
    /\ UNCHANGED rec /\ RetStay

retain_done ==
    /\ ret.pc = "orphans" /\ ret.todo = {}
    /\ ret' = [pc |-> "done"]
    /\ UNCHANGED <<rec, trees>> /\ RetStay

(* Something on disk is damaged.                                           *)
Rot ==
    /\ rot < MaxRot
    /\ rot' = rot + 1
    /\ \/ /\ \E x \in CatalogPaths \cup (ArtProcs \X {"checkout"}) :
                trees[x] # Absent /\ trees' = [trees EXCEPT ![x] = Damaged]
          /\ UNCHANGED rec
       \/ /\ \E n \in ArtNames : rec[n] # Absent /\ rec' = [rec EXCEPT ![n] = Damaged]
          /\ UNCHANGED trees
       \/ /\ \E p \in ArtProcs : /\ art[p].pc = "verify"
                                 /\ trees' = [trees EXCEPT ![Path(p, To(p))] = Damaged]
          /\ UNCHANGED rec
    /\ UNCHANGED <<pins, rec_lock, obj_lock, art, ret, overlap>>

Retain ==
    \/ \E quota \in Quotas : quarantine_corrupt_records(quota)
    \/ \E n \in ArtNames, d \in ArtDigests :
          quarantine_unverified(<<n, d>>) \/ retain_expire(<<n, d>>)
    \/ retain_list \/ retain_delete \/ orphan_list
    \/ \E d \in ArtDigests : delete_orphan_objects(d)
    \/ retain_done

ArtCommand(p) ==
    \/ \E n \in ArtNames, d \in ArtDigests :
          \/ \E op \in {"materialize", "publish"} : ArtBegin(p, op, n, d, FALSE, d)
          \/ \E attempt \in BOOLEAN : ArtBegin(p, "materialize", n, d, attempt, Absent)
    \/ materialize_inputs_from(p) \/ publish_checkout_catalog(p) \/ fetch_remote_fails(p)
    \/ catalog_conflict(p) \/ publish_tree_stage(p) \/ publish_tree_backup(p)
    \/ publish_tree_rename(p) \/ publish_tree_verify(p) \/ publish_end(p)
    \/ ArtCrash(p)

ArtNext == Retain \/ Rot \/ \E p \in ArtProcs : ArtCommand(p)

ArtSpec == ArtInit /\ [][ArtNext]_art_vars

-----------------------------------------------------------------------------

(* A materialization that succeeds leaves a tree with the record's digest, *)
(* and a command that fails, at whichever check, leaves the destination as *)
(* it was.                                                                 *)
DeliveredVerified ==
    \A p \in ArtProcs :
        /\ art[p].pc = "done" /\ art[p].op = "materialize" => trees[<<p, "dest">>] = art[p].digest
        /\ art[p].pc = "failed" => trees[<<p, "dest">>] \in {OldTree, art[p].digest}

(* The object of every record verifies, unless it was damaged, or          *)
(* retention and publication ran at the same time (an object whose record  *)
(* is not yet written is an orphan to retention), or a command is between  *)
(* the two renames that replace it, or died there.                         *)
RecordedObjectVerifies ==
    rot = 0 /\ ~ overlap => \A n \in ArtNames : rec[n] \in ArtDigests =>
        \/ verify_tree(CatalogPath(rec[n]), rec[n])
        \/ \E p \in ArtProcs : art[p].pc \in {"in", "crashed"}

(* Whatever retention, other commands, crashes and damage do: what is      *)
(* delivered verifies, and what is recorded can be delivered.              *)
ArtifactsVerify == DeliveredVerified /\ RecordedObjectVerifies

=============================================================================
