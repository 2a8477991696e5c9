--------------------------- MODULE ArtifactProofs ---------------------------
(***************************************************************************)
(* Theorems about the artifact catalog that the commands of a host share,  *)
(* for any number of commands, names, digests and quotas; and about the    *)
(* snapshot of a dirty checkout, for all paths, texts, HEADs and edits.    *)
(***************************************************************************)
EXTENDS SourceSnapshot, Totals, ArtifactCatalog, SequenceTheorems, FiniteSetTheorems, TLAPS

-----------------------------------------------------------------------------
(* Verified artifacts                                                      *)

(* The lists of copies that are left to a command: to its destination and  *)
(* on, from the destination to the rest, or out of the checkout only.      *)
BeforeDest ==
    { << <<"catalog", "checkout">>, <<"checkout", "dest">> >>,
      << <<"checkout", "catalog">>, <<"checkout", "dest">> >>,
      << <<"checkout", "dest">> >>,
      << <<"fetched", "dest">>, <<"dest", "checkout">>, <<"dest", "catalog">> >> }
AfterDest ==
    { << <<"dest", "checkout">>, <<"dest", "catalog">> >>, << <<"dest", "catalog">> >> }
Outward == { << <<"checkout", "catalog">> >> }

ArtCopies == BeforeDest \cup AfterDest \cup Outward

ArtTrees == ArtDigests \cup {Absent, Damaged, OldTree}
Records == ArtDigests \cup {Absent, Damaged}
ArtPaths == CatalogPaths \cup CheckoutPaths

Copying == {"publish", "swap", "in", "verify", "end"}

ArtRecs ==
    [pc : {"plan", "done", "failed", "crashed"} \cup Copying,
     op : {"materialize", "publish"}, name : ArtNames, digest : ArtDigests,
     attempt : BOOLEAN, todo : ArtCopies \cup {<<>>}, backup : ArtTrees]

RetShape ==
    \/ ret.pc \in {"idle", "done"}
    \/ \E pc \in {"quarantine", "expire", "delete", "orphans"} :
          \E quota, left, todo, digest :
              /\ ret = [pc |-> pc, quota |-> quota, left |-> left, todo |-> todo, digest |-> digest]
              /\ pc = "delete" => digest \in ArtDigests

ArtTypeOK ==
    /\ rec \in [ArtNames -> Records]
    /\ trees \in [ArtPaths -> ArtTrees]
    /\ art \in [ArtProcs -> {ArtIdle} \cup ArtRecs]
    /\ rot \in Nat
    /\ overlap \in BOOLEAN
    /\ RetShape

Dest(p) == trees[<<p, "dest">>]

(* Where the destination of a command stands at each of its steps: a is    *)
(* what the command is doing, t the tree it finds there.                   *)
DestOK(a, t) ==
    /\ a.pc \in {"idle", "plan"} => t = OldTree
    /\ a.pc \in Copying =>
          /\ a.todo \in ArtCopies
          /\ a.op = "publish" => a.todo \in Outward /\ t = OldTree
          /\ a.op = "materialize" => a.todo \notin Outward
          /\ a.todo \in AfterDest => t = a.digest
          /\ a.todo \in BeforeDest /\ Head(a.todo)[2] # "dest" => t = OldTree
          /\ a.todo \in BeforeDest /\ Head(a.todo)[2] = "dest" =>
                /\ a.pc \in {"publish", "swap"} => t = OldTree
                /\ a.pc \in {"in", "verify"} => a.backup = OldTree
                /\ a.pc = "in" => t = Absent
                /\ a.pc = "end" => t = a.digest
    /\ a.pc = "done" /\ a.op = "materialize" => t = a.digest
    /\ a.pc = "failed" => t \in {OldTree, a.digest}

DestSound(p) == DestOK(art[p], Dest(p))

(* A command that puts its digest into the catalog.                        *)
Into(p, d, pcs) ==
    art[p].pc \in pcs /\ To(p) = "catalog" /\ art[p].digest = d

(* An object is missing only while a command replaces it, or died there.   *)
Covered(d) == \E p \in ArtProcs : art[p].pc = "crashed" \/ Into(p, d, {"in"})

CatalogSound ==
    /\ \A n \in ArtNames : rec[n] # Damaged
    /\ \A d \in ArtDigests :
          /\ trees[CatalogPath(d)] \in {d, Absent}
          /\ Recorded(d) \/ (\E p \in ArtProcs : Into(p, d, {"verify", "end"}))
                => trees[CatalogPath(d)] = d \/ Covered(d)
          /\ \A p \in ArtProcs : Into(p, d, {"in", "verify"}) => art[p].backup \in {d, Absent}
    /\ ret.pc = "orphans" => \A d \in ret.todo : ~ Recorded(d)

ArtInv ==
    /\ ArtTypeOK
    /\ \A p \in ArtProcs : DestSound(p)
    /\ rot = 0 /\ ~ overlap => CatalogSound

(* What is left of a list of copies, and whether it still goes to the      *)
(* destination.                                                            *)
LEMMA CopyList ==
    /\ \A t \in BeforeDest :
          \/ Head(t)[2] = "dest" /\ (Len(t) = 1 \/ (Len(t) # 1 /\ Tail(t) \in AfterDest))
          \/ Head(t)[2] \in {"checkout", "catalog"} /\ Len(t) # 1 /\ Tail(t) \in BeforeDest
    /\ \A t \in AfterDest :
          /\ Head(t)[2] \in {"checkout", "catalog"}
          /\ (Len(t) = 1 /\ Tail(t) = <<>>) \/ (Len(t) # 1 /\ Tail(t) \in AfterDest)
    /\ \A t \in Outward : Head(t)[2] = "catalog" /\ Len(t) = 1 /\ Tail(t) = <<>>
    /\ \A t \in ArtCopies : Len(t) = 1 => Tail(t) = <<>>
<1>1. /\ \A a : Head(<<a>>) = a /\ Len(<<a>>) = 1 /\ Tail(<<a>>) = <<>>
      /\ \A a, b : Head(<<a, b>>) = a /\ Len(<<a, b>>) = 2 /\ Tail(<<a, b>>) = <<b>>
      /\ \A a, b, c : Head(<<a, b, c>>) = a /\ Len(<<a, b, c>>) = 3 /\ Tail(<<a, b, c>>) = <<b, c>>
  OBVIOUS
<1>2. PICK ab, bd, ba, fd, db, da :
         /\ ab = <<"catalog", "checkout">> /\ bd = <<"checkout", "dest">>
         /\ ba = <<"checkout", "catalog">> /\ fd = <<"fetched", "dest">>
         /\ db = <<"dest", "checkout">> /\ da = <<"dest", "catalog">>
  OBVIOUS
<1>3. /\ ab[2] = "checkout" /\ bd[2] = "dest" /\ ba[2] = "catalog"
      /\ fd[2] = "dest" /\ db[2] = "checkout" /\ da[2] = "catalog"
  BY <1>2
<1>4. /\ BeforeDest = {<<ab, bd>>, <<ba, bd>>, <<bd>>, <<fd, db, da>>}
      /\ AfterDest = {<<db, da>>, <<da>>}
      /\ Outward = {<<ba>>}
  BY <1>2 DEF BeforeDest, AfterDest, Outward
<1> HIDE DEF BeforeDest, AfterDest, Outward
<1>5. \A t \in BeforeDest :
          \/ Head(t)[2] = "dest" /\ (Len(t) = 1 \/ (Len(t) # 1 /\ Tail(t) \in AfterDest))
          \/ Head(t)[2] \in {"checkout", "catalog"} /\ Len(t) # 1 /\ Tail(t) \in BeforeDest
  <2> SUFFICES ASSUME NEW t \in BeforeDest
               PROVE  \/ Head(t)[2] = "dest" /\ (Len(t) = 1 \/ (Len(t) # 1 /\ Tail(t) \in AfterDest))
                      \/ Head(t)[2] \in {"checkout", "catalog"} /\ Len(t) # 1 /\ Tail(t) \in BeforeDest
    OBVIOUS
  <2>1. CASE t = <<ab, bd>>
    <3>1. Head(t) = ab /\ Len(t) = 2 /\ Tail(t) = <<bd>>
      BY <2>1, <1>1
    <3> QED
      BY <3>1, <1>3, <1>4
  <2>2. CASE t = <<ba, bd>>
    <3>1. Head(t) = ba /\ Len(t) = 2 /\ Tail(t) = <<bd>>
      BY <2>2, <1>1
    <3> QED
      BY <3>1, <1>3, <1>4
  <2>3. CASE t = <<bd>>
    <3>1. Head(t) = bd /\ Len(t) = 1
      BY <2>3, <1>1
    <3> QED
      BY <3>1, <1>3
  <2>4. CASE t = <<fd, db, da>>
    <3>1. Head(t) = fd /\ Len(t) = 3 /\ Tail(t) = <<db, da>>
      BY <2>4, <1>1
    <3> QED
      BY <3>1, <1>3, <1>4
  <2> QED
    BY <1>4, <2>1, <2>2, <2>3, <2>4
<1>6. \A t \in AfterDest :
          /\ Head(t)[2] \in {"checkout", "catalog"}
          /\ (Len(t) = 1 /\ Tail(t) = <<>>) \/ (Len(t) # 1 /\ Tail(t) \in AfterDest)
  <2> SUFFICES ASSUME NEW t \in AfterDest
               PROVE  /\ Head(t)[2] \in {"checkout", "catalog"}
                      /\ (Len(t) = 1 /\ Tail(t) = <<>>) \/ (Len(t) # 1 /\ Tail(t) \in AfterDest)
    OBVIOUS
  <2>1. CASE t = <<db, da>>
    <3>1. Head(t) = db /\ Len(t) = 2 /\ Tail(t) = <<da>>
      BY <2>1, <1>1
    <3>2. Tail(t) \in AfterDest
      BY <3>1, <1>4
    <3>3. Len(t) # 1 /\ Head(t)[2] = "checkout"
      BY <3>1, <1>3
    <3> QED
      BY <3>2, <3>3
  <2>2. CASE t = <<da>>
    <3>1. Head(t) = da /\ Len(t) = 1 /\ Tail(t) = <<>>
      BY <2>2, <1>1
    <3> QED
      BY <3>1, <1>3
  <2> QED
    BY <1>4, <2>1, <2>2
<1>7. \A t \in Outward : Head(t)[2] = "catalog" /\ Len(t) = 1 /\ Tail(t) = <<>>
  <2> SUFFICES ASSUME NEW t \in Outward PROVE Head(t)[2] = "catalog" /\ Len(t) = 1 /\ Tail(t) = <<>>
    OBVIOUS
  <2>1. t = <<ba>>
    BY <1>4
  <2>2. Head(t) = ba /\ Len(t) = 1 /\ Tail(t) = <<>>
    BY <2>1, <1>1
  <2> QED
    BY <2>2, <1>3
<1>8. \A t \in BeforeDest : Len(t) = 1 => Tail(t) = <<>>
  <2> SUFFICES ASSUME NEW t \in BeforeDest, Len(t) = 1 PROVE Tail(t) = <<>>
    OBVIOUS
  <2>1. t # <<ab, bd>> /\ t # <<ba, bd>> /\ t # <<fd, db, da>>
    <3>1. Len(<<ab, bd>>) = 2 /\ Len(<<ba, bd>>) = 2 /\ Len(<<fd, db, da>>) = 3
      BY <1>1
    <3> QED
      BY <3>1
  <2>2. t = <<bd>>
    BY <2>1, <1>4
  <2> QED
    BY <2>2, <1>1
<1> QED
  BY <1>5, <1>6, <1>7, <1>8 DEF ArtCopies

(* The three kinds of list are told apart.                                 *)
LEMMA CopyKinds ==
    /\ BeforeDest \cap AfterDest = {} /\ BeforeDest \cap Outward = {} /\ AfterDest \cap Outward = {}
    /\ <<>> \notin ArtCopies
  BY DEF ArtCopies, BeforeDest, AfterDest, Outward

(* The catalog's objects, checkouts and destinations have paths of their   *)
(* own.                                                                    *)
LEMMA PathsApart ==
    /\ \A d \in ArtDigests : CatalogPath(d) \in ArtPaths /\ CatalogPath(d) \in CatalogPaths
    /\ \A p \in ArtProcs : <<p, "dest">> \in ArtPaths /\ <<p, "checkout">> \in ArtPaths
    /\ \A d \in ArtDigests, p \in ArtProcs :
          CatalogPath(d) # <<p, "dest">> /\ CatalogPath(d) # <<p, "checkout">>
    /\ \A d, e \in ArtDigests : CatalogPath(d) = CatalogPath(e) => d = e
    /\ \A p, q \in ArtProcs : <<p, "dest">> # <<q, "checkout">> /\ (<<p, "dest">> = <<q, "dest">> => p = q)
  BY ArtAssumption DEF CatalogPath, ArtPaths, CatalogPaths, CheckoutPaths

(* The path a command copies to.                                           *)
LEMMA CopyTarget ==
    ASSUME ArtTypeOK, NEW p \in ArtProcs, art[p] \in ArtRecs, art[p].todo \in ArtCopies
    PROVE  /\ To(p) \in {"dest", "checkout", "catalog"}
           /\ To(p) = "catalog" => Path(p, To(p)) = CatalogPath(art[p].digest)
           /\ To(p) = "dest" => Path(p, To(p)) = <<p, "dest">>
           /\ To(p) = "checkout" => Path(p, To(p)) = <<p, "checkout">>
           /\ Path(p, To(p)) \in ArtPaths
<1>1. To(p) \in {"dest", "checkout", "catalog"}
  BY CopyList DEF To, ArtCopies
<1>2. art[p].digest \in ArtDigests
  BY DEF ArtRecs
<1>3. /\ To(p) = "catalog" => Path(p, To(p)) = CatalogPath(art[p].digest)
      /\ To(p) = "dest" => Path(p, To(p)) = <<p, "dest">>
      /\ To(p) = "checkout" => Path(p, To(p)) = <<p, "checkout">>
  BY DEF Path
<1> QED
  BY <1>1, <1>2, <1>3, PathsApart

(* The catalog and the commands that copy into it are left alone, or end.  *)
LEMMA CatalogKept ==
    ASSUME CatalogSound,
           \A n \in ArtNames : rec'[n] = rec[n],
           \A d \in ArtDigests : trees'[CatalogPath(d)] = trees[CatalogPath(d)],
           NEW p \in ArtProcs, \A q \in ArtProcs \ {p} : art'[q] = art[q],
           art[p].pc # "crashed", ~ (art[p].pc = "in" /\ To(p) = "catalog"),
           \A d \in ArtDigests :
              /\ Into(p, d, {"verify", "end"})' => trees[CatalogPath(d)] = d \/ Covered(d)
              /\ Into(p, d, {"in", "verify"})' => art'[p].backup \in {d, Absent},
           ret' = ret
    PROVE  CatalogSound'
<1>1. \A q \in ArtProcs \ {p} : To(q)' = To(q)
  BY DEF To
<1>2. ASSUME NEW d \in ArtDigests PROVE Covered(d) => Covered(d)'
  BY <1>1 DEF Covered, Into
<1>3. ASSUME NEW d \in ArtDigests PROVE Recorded(d)' <=> Recorded(d)
  BY DEF Recorded
<1>4. ASSUME NEW d \in ArtDigests
      PROVE  Recorded(d)' \/ (\E q \in ArtProcs : Into(q, d, {"verify", "end"})')
                => trees'[CatalogPath(d)] = d \/ Covered(d)'
  <2>1. CASE Into(p, d, {"verify", "end"})'
    BY <2>1, <1>2
  <2>2. CASE ~ Into(p, d, {"verify", "end"})'
    BY <2>2, <1>1, <1>2, <1>3 DEF CatalogSound, Into
  <2> QED
    BY <2>1, <2>2
<1>5. ASSUME NEW d \in ArtDigests, NEW q \in ArtProcs, Into(q, d, {"in", "verify"})'
      PROVE  art'[q].backup \in {d, Absent}
  BY <1>1, <1>5 DEF CatalogSound, Into
<1>6. ret'.pc = "orphans" => \A d \in ret'.todo : ~ Recorded(d)'
  BY DEF CatalogSound, Recorded
<1> QED
  BY <1>4, <1>5, <1>6 DEF CatalogSound

(* A command that has begun is a record of a command.                      *)
LEMMA DestIsRec ==
    ASSUME ArtTypeOK, NEW p \in ArtProcs, art[p].pc # "idle" PROVE art[p] \in ArtRecs
  BY DEF ArtTypeOK, ArtIdle

(* A step of a command that writes neither into the catalog nor a record.  *)
LEMMA OwnStep ==
    ASSUME ArtInv, NEW p \in ArtProcs, NEW x \in ArtRecs, art' = [art EXCEPT ![p] = x],
           UNCHANGED <<rec, ret, rot>>, NoteOverlap,
           trees' \in [ArtPaths -> ArtTrees],
           \A d \in ArtDigests : trees'[CatalogPath(d)] = trees[CatalogPath(d)],
           \A q \in ArtProcs \ {p} : Dest(q)' = Dest(q),
           art[p].pc # "crashed", ~ (art[p].pc = "in" /\ To(p) = "catalog"),
           DestOK(x, Dest(p)'),
           CatalogSound => \A d \in ArtDigests :
              x.digest = d /\ Head(x.todo)[2] = "catalog" =>
                 /\ x.pc \in {"verify", "end"} => trees[CatalogPath(d)] = d \/ Covered(d)
                 /\ x.pc \in {"in", "verify"} => x.backup \in {d, Absent}
    PROVE  ArtInv'
<1>1. art'[p] = x /\ \A q \in ArtProcs \ {p} : art'[q] = art[q]
  BY DEF ArtInv, ArtTypeOK
<1>2. ArtTypeOK'
  <2>1. art' \in [ArtProcs -> {ArtIdle} \cup ArtRecs]
    BY DEF ArtInv, ArtTypeOK
  <2>2. RetShape' /\ overlap' \in BOOLEAN
    BY DEF ArtInv, ArtTypeOK, RetShape, NoteOverlap
  <2> QED
    BY <2>1, <2>2 DEF ArtInv, ArtTypeOK
<1>3. \A q \in ArtProcs : DestSound(q)'
  BY <1>1 DEF ArtInv, DestSound
<1>4. ASSUME rot' = 0, ~ overlap' PROVE CatalogSound'
  <2>1. CatalogSound
    BY <1>4 DEF ArtInv, NoteOverlap, ArtTypeOK
  <2>2. \A d \in ArtDigests :
              /\ Into(p, d, {"verify", "end"})' => trees[CatalogPath(d)] = d \/ Covered(d)
              /\ Into(p, d, {"in", "verify"})' => art'[p].backup \in {d, Absent}
    BY <2>1, <1>1 DEF Into, To
  <2> QED
    BY <2>1, <2>2, <1>1, CatalogKept
<1> QED
  BY <1>2, <1>3, <1>4 DEF ArtInv

(* A command begins; only its checkout's object is given.                  *)
LEMMA ArtBeginSound ==
    ASSUME ArtInv, NEW p \in ArtProcs, NEW n \in ArtNames, NEW d \in ArtDigests,
           NEW op \in {"materialize", "publish"}, NEW attempt \in BOOLEAN,
           NEW object \in {d, Absent}, ArtBegin(p, op, n, d, attempt, object)
    PROVE  ArtInv'
<1>1. PICK x : x = [pc |-> "plan", op |-> op, name |-> n, digest |-> d,
                    attempt |-> attempt, todo |-> <<>>, backup |-> Absent]
  OBVIOUS
<1>2. x \in ArtRecs /\ x.pc = "plan"
  BY <1>1 DEF ArtRecs, ArtTrees
<1>3. art' = [art EXCEPT ![p] = x] /\ art[p].pc = "idle" /\ NoteOverlap
      /\ UNCHANGED <<rec, ret, rot>>
  BY <1>1 DEF ArtBegin
<1>4. /\ trees' = [trees EXCEPT ![<<p, "checkout">>] = object]
      /\ trees' \in [ArtPaths -> ArtTrees]
  BY PathsApart DEF ArtBegin, ArtInv, ArtTypeOK, ArtTrees
<1>5. /\ \A e \in ArtDigests : trees'[CatalogPath(e)] = trees[CatalogPath(e)]
      /\ \A q \in ArtProcs : Dest(q)' = Dest(q)
  BY <1>4, PathsApart DEF ArtInv, ArtTypeOK, Dest
<1>6. DestOK(x, Dest(p)')
  <2>1. Dest(p)' = OldTree
    BY <1>3, <1>5 DEF ArtInv, DestSound, DestOK
  <2> QED
    BY <2>1, <1>2 DEF DestOK, Copying
<1> QED
  BY <1>2, <1>3, <1>4, <1>5, <1>6, OwnStep

(* A step that moves the command and nothing else.                         *)
LEMMA MoveStep ==
    ASSUME ArtInv, NEW p \in ArtProcs, NEW x \in ArtRecs, art' = [art EXCEPT ![p] = x],
           UNCHANGED <<rec, trees, ret, rot>>, NoteOverlap,
           art[p].pc \notin {"in", "crashed"},
           DestOK(x, Dest(p)),
           x.pc \notin {"in", "verify"},
           x.pc = "end" => AlreadyThere(p) /\ To(p) = Head(x.todo)[2] /\ x.digest = art[p].digest
    PROVE  ArtInv'
<1>1. trees' \in [ArtPaths -> ArtTrees]
  BY DEF ArtInv, ArtTypeOK
<1>2. \A q \in ArtProcs : Dest(q)' = Dest(q)
  BY DEF Dest
<1>3. \A d \in ArtDigests :
              x.digest = d /\ Head(x.todo)[2] = "catalog" /\ x.pc = "end"
                 => trees[CatalogPath(d)] = d
  BY DEF AlreadyThere, verify_tree, Path
<1> QED
  BY <1>1, <1>2, <1>3, OwnStep

(* What a materialization may copy goes to its destination.                *)
LEMMA PlansSound ==
    ASSUME NEW p \in ArtProcs PROVE MaterializePlans(p) \subseteq BeforeDest
  BY DEF MaterializePlans, BeforeDest

(* A materialization chooses where to copy from, or fails.                 *)
LEMMA MaterializeSound ==
    ASSUME ArtInv, NEW p \in ArtProcs, materialize_inputs_from(p) PROVE ArtInv'
<1>1. art[p].pc = "plan" /\ art[p].op = "materialize" /\ NoteOverlap /\ UNCHANGED <<rec, trees, ret, rot>>
  BY DEF materialize_inputs_from, ArtStay
<1>2. PICK a \in ArtRecs : a = art[p]
  BY <1>1, DestIsRec DEF ArtInv
<1>3. Dest(p) = OldTree
  BY <1>1 DEF ArtInv, DestSound, DestOK
<1>4. ASSUME NEW plan \in MaterializePlans(p),
             art' = [art EXCEPT ![p].pc = "publish", ![p].todo = plan]
      PROVE  ArtInv'
  <2>1. plan \in BeforeDest
    BY PlansSound
  <2>2. PICK x : x = [a EXCEPT !.pc = "publish", !.todo = plan]
    OBVIOUS
  <2>3. /\ x \in ArtRecs /\ x.pc = "publish" /\ x.todo = plan /\ x.op = "materialize"
    BY <1>1, <1>2, <2>1, <2>2 DEF ArtRecs, Copying, ArtCopies
  <2>4. art' = [art EXCEPT ![p] = x]
    BY <1>2, <1>4, <2>2 DEF ArtInv, ArtTypeOK
  <2>5. DestOK(x, Dest(p))
    BY <1>3, <2>1, <2>3, CopyKinds DEF DestOK, ArtCopies
  <2> QED
    BY <1>1, <2>3, <2>4, <2>5, MoveStep
<1>5. CASE ArtFail(p)
  <2>1. PICK x : x = [a EXCEPT !.pc = "failed"]
    OBVIOUS
  <2>2. x \in ArtRecs /\ x.pc = "failed"
    BY <1>2, <2>1 DEF ArtRecs
  <2>3. art' = [art EXCEPT ![p] = x]
    BY <1>2, <1>5, <2>1 DEF ArtFail, ArtInv, ArtTypeOK
  <2>4. DestOK(x, Dest(p))
    BY <1>3, <2>2 DEF DestOK, Copying
  <2> QED
    BY <1>1, <2>2, <2>3, <2>4, MoveStep
<1> QED
  BY <1>4, <1>5 DEF materialize_inputs_from

(* A command that fails before its copy has begun leaves its destination   *)
(* as it was, or as it is to be.                                           *)
LEMMA FailKeeps ==
    ASSUME NEW a, NEW x, NEW t, DestOK(a, t), a.pc \in {"publish", "swap"}, a.op \in {"materialize", "publish"},
           x.pc = "failed", x.digest = a.digest
    PROVE  DestOK(x, t)
<1>1. t \in {OldTree, a.digest}
  BY DEF DestOK, Copying, ArtCopies
<1> QED
  BY <1>1 DEF DestOK, Copying

(* A fetch that fails leaves the destination alone.                        *)
LEMMA FetchFailsSound ==
    ASSUME ArtInv, NEW p \in ArtProcs, fetch_remote_fails(p) PROVE ArtInv'
<1>1. art[p].pc = "publish" /\ NoteOverlap /\ UNCHANGED <<rec, trees, ret, rot>>
  BY DEF fetch_remote_fails, ArtStay
<1>2. PICK a \in ArtRecs : a = art[p]
  BY <1>1, DestIsRec DEF ArtInv
<1>3. PICK x : x = [a EXCEPT !.pc = "failed"]
  OBVIOUS
<1>4. x \in ArtRecs /\ x.pc = "failed" /\ x.digest = a.digest /\ a.op \in {"materialize", "publish"}
  BY <1>2, <1>3 DEF ArtRecs
<1>5. art' = [art EXCEPT ![p] = x]
  BY <1>2, <1>3 DEF fetch_remote_fails, ArtFail, ArtInv, ArtTypeOK
<1>6. DestOK(x, Dest(p))
  BY <1>1, <1>2, <1>4, FailKeeps DEF ArtInv, DestSound
<1> QED
  BY <1>1, <1>4, <1>5, <1>6, MoveStep

(* A publication begins, or passes its object over.                        *)
LEMMA PublishCheckoutSound ==
    ASSUME ArtInv, NEW p \in ArtProcs, publish_checkout_catalog(p) PROVE ArtInv'
<1>1. art[p].pc = "plan" /\ art[p].op = "publish" /\ NoteOverlap /\ UNCHANGED <<rec, trees, ret, rot>>
  BY DEF publish_checkout_catalog, ArtStay
<1>2. PICK a \in ArtRecs : a = art[p]
  BY <1>1, DestIsRec DEF ArtInv
<1>3. Dest(p) = OldTree
  BY <1>1 DEF ArtInv, DestSound, DestOK
<1>4. PICK x : x = IF verify_tree(Path(p, "checkout"), a.digest)
                   THEN [a EXCEPT !.pc = "publish", !.todo = << <<"checkout", "catalog">> >>]
                   ELSE [a EXCEPT !.pc = "done"]
  OBVIOUS
<1>5. << <<"checkout", "catalog">> >> \in Outward
  BY DEF Outward
<1>6. x \in ArtRecs /\ x.op = "publish" /\ (x.pc = "done" \/ (x.pc = "publish" /\ x.todo \in Outward))
  <2>1. << <<"checkout", "catalog">> >> \in ArtCopies \cup {<<>>}
    BY <1>5 DEF ArtCopies
  <2>2. CASE verify_tree(Path(p, "checkout"), a.digest)
    <3>1. x = [a EXCEPT !.pc = "publish", !.todo = << <<"checkout", "catalog">> >>]
      BY <1>4, <2>2
    <3>2. x.pc = "publish" /\ x.op = "publish" /\ x.todo = << <<"checkout", "catalog">> >>
      BY <1>1, <1>2, <3>1 DEF ArtRecs
    <3>3. x \in ArtRecs
      BY <2>1, <3>1 DEF ArtRecs, Copying
    <3> QED
      BY <1>5, <3>2, <3>3
  <2>3. CASE ~ verify_tree(Path(p, "checkout"), a.digest)
    BY <1>1, <1>2, <1>4, <2>3 DEF ArtRecs
  <2> QED
    BY <2>2, <2>3
<1>7. art' = [art EXCEPT ![p] = x]
  BY <1>2, <1>4 DEF publish_checkout_catalog, ArtInv, ArtTypeOK
<1>8. DestOK(x, Dest(p))
  BY <1>3, <1>6, CopyKinds DEF DestOK, Copying, ArtCopies
<1>9. x.pc \notin {"in", "verify", "end"}
  BY <1>6
<1> QED
  BY <1>1, <1>6, <1>7, <1>8, <1>9, MoveStep

(* One copy is over, or left out: the command goes on to the next, or is   *)
(* done.                                                                   *)
LEMMA NextCopy ==
    ASSUME NEW a \in ArtRecs, NEW x, NEW t, DestOK(a, t), a.pc \in Copying,
           Head(a.todo)[2] = "dest" => t = a.digest,
           x = [a EXCEPT !.todo = Tail(@), !.pc = IF Len(a.todo) = 1 THEN "done" ELSE "publish"]
    PROVE  x \in ArtRecs /\ x.pc \in {"done", "publish"} /\ DestOK(x, t)
<1>1. a.todo \in ArtCopies /\ a.op \in {"materialize", "publish"}
  BY DEF DestOK, ArtRecs
<1>2. /\ x.todo = Tail(a.todo) /\ x.op = a.op /\ x.digest = a.digest
      /\ x.pc = IF Len(a.todo) = 1 THEN "done" ELSE "publish"
  BY DEF ArtRecs
<1>3. Tail(a.todo) \in ArtCopies \cup {<<>>}
  BY <1>1, CopyList DEF ArtCopies
<1>4. x \in ArtRecs
  BY <1>2, <1>3 DEF ArtRecs, Copying
<1>5. CASE a.op = "publish"
  <2>1. t = OldTree /\ Len(a.todo) = 1
    BY <1>5, CopyList DEF DestOK
  <2> QED
    BY <1>2, <1>4, <1>5, <2>1 DEF DestOK, Copying
<1>6. CASE a.op = "materialize"
  <2>1. a.todo \in BeforeDest \cup AfterDest
    BY <1>1, <1>6 DEF DestOK, ArtCopies
  <2>2. CASE a.todo \in BeforeDest /\ Head(a.todo)[2] # "dest"
    <3>1. t = OldTree /\ Len(a.todo) # 1 /\ Tail(a.todo) \in BeforeDest
      BY <2>2, CopyList DEF DestOK
    <3>2. x.pc = "publish" /\ x.op = "materialize" /\ x.todo \in BeforeDest
      BY <1>2, <1>6, <3>1
    <3> QED
      BY <1>4, <3>1, <3>2, CopyKinds DEF DestOK, ArtCopies
  <2>3. CASE ~ (a.todo \in BeforeDest /\ Head(a.todo)[2] # "dest")
    <3>1. t = a.digest /\ (Len(a.todo) # 1 => Tail(a.todo) \in AfterDest)
      BY <2>1, <2>3, CopyList DEF DestOK
    <3>2. CASE Len(a.todo) = 1
      BY <1>2, <1>4, <3>1, <3>2 DEF DestOK, Copying
    <3>3. CASE Len(a.todo) # 1
      <4>1. x.pc = "publish" /\ x.op = "materialize" /\ x.todo \in AfterDest
        BY <1>2, <1>6, <3>1, <3>3
      <4> QED
        BY <1>2, <1>4, <3>1, <4>1, CopyKinds DEF DestOK, ArtCopies
    <3> QED
      BY <3>2, <3>3
  <2> QED
    BY <2>2, <2>3
<1> QED
  BY <1>1, <1>5, <1>6

(* A record with another digest ends a publication; a materialization goes *)
(* on.                                                                     *)
LEMMA ConflictSound ==
    ASSUME ArtInv, NEW p \in ArtProcs, catalog_conflict(p) PROVE ArtInv'
<1>1. /\ art[p].pc = "publish" /\ To(p) = "catalog" /\ NoteOverlap
      /\ UNCHANGED <<rec, trees, ret, rot>>
  BY DEF catalog_conflict, Conflict, ArtStay
<1>2. PICK a \in ArtRecs : a = art[p]
  BY <1>1, DestIsRec DEF ArtInv
<1>3. PICK t : t = Dest(p)
  OBVIOUS
<1>4. DestOK(a, t) /\ Head(a.todo)[2] = "catalog" /\ a.pc = "publish" /\ a.op \in {"materialize", "publish"}
  BY <1>1, <1>2, <1>3 DEF ArtInv, DestSound, To, ArtRecs
<1>5. CASE a.op = "publish"
  <2>1. PICK x : x = [a EXCEPT !.pc = "failed", !.todo = Tail(@)]
    OBVIOUS
  <2>2. Tail(a.todo) \in ArtCopies \cup {<<>>}
    BY <1>4, CopyList DEF DestOK, ArtCopies, Copying
  <2>3. x \in ArtRecs /\ x.pc = "failed" /\ x.digest = a.digest
    BY <2>1, <2>2 DEF ArtRecs
  <2>4. art' = [art EXCEPT ![p] = x]
    BY <1>2, <1>5, <2>1 DEF catalog_conflict, ArtInv, ArtTypeOK
  <2>5. DestOK(x, t)
    BY <1>4, <2>3, FailKeeps
  <2> QED
    BY <1>1, <1>3, <2>3, <2>4, <2>5, MoveStep
<1>6. CASE a.op = "materialize"
  <2>1. PICK x : x = [a EXCEPT !.todo = Tail(@), !.pc = IF Len(a.todo) = 1 THEN "done" ELSE "publish"]
    OBVIOUS
  <2>2. x \in ArtRecs /\ x.pc \in {"done", "publish"} /\ DestOK(x, t)
    BY ZenonT(60), <1>4, <2>1, NextCopy DEF Copying
  <2>3. art' = [art EXCEPT ![p] = x]
    BY <1>2, <1>6, <2>1 DEF catalog_conflict, ArtInv, ArtTypeOK
  <2> QED
    BY <1>1, <1>3, <2>2, <2>3, MoveStep
<1> QED
  BY <1>4, <1>5, <1>6

(* A copy is found in place, is staged, or cannot be made.                 *)
LEMMA StageSound ==
    ASSUME ArtInv, NEW p \in ArtProcs, publish_tree_stage(p) PROVE ArtInv'
<1>1. art[p].pc = "publish" /\ NoteOverlap /\ UNCHANGED <<rec, trees, ret, rot>>
  BY DEF publish_tree_stage
<1>2. PICK a \in ArtRecs : a = art[p]
  BY <1>1, DestIsRec DEF ArtInv
<1>3. PICK next \in {"end", "swap", "failed"} :
         art' = [art EXCEPT ![p].pc = next] /\ (next = "end" => AlreadyThere(p))
  BY DEF publish_tree_stage
<1>4. PICK x : x = [a EXCEPT !.pc = next]
  OBVIOUS
<1>5. /\ x \in ArtRecs /\ x.pc = next /\ x.digest = a.digest /\ x.todo = a.todo
      /\ x.op = a.op /\ x.backup = a.backup /\ a.op \in {"materialize", "publish"}
  BY <1>2, <1>4 DEF ArtRecs, Copying
<1>6. art' = [art EXCEPT ![p] = x]
  BY <1>2, <1>3, <1>4 DEF ArtInv, ArtTypeOK
<1>7. DestOK(a, Dest(p)) /\ a.pc = "publish" /\ a.todo \in ArtCopies
  BY <1>1, <1>2 DEF ArtInv, DestSound, DestOK, Copying
<1>8. DestOK(x, Dest(p))
  <2>1. CASE next = "failed"
    BY <1>5, <1>7, <2>1, FailKeeps
  <2>2. CASE next = "swap"
    BY <1>5, <1>7, <2>2 DEF DestOK, Copying
  <2>3. CASE next = "end"
    <3>1. Head(a.todo)[2] = "dest" => Dest(p) = a.digest
      BY <1>2, <1>3, <2>3 DEF AlreadyThere, verify_tree, Path, To, Dest
    <3> QED
      BY <1>5, <1>7, <2>3, <3>1 DEF DestOK, Copying
  <2> QED
    BY <2>1, <2>2, <2>3
<1>9. x.pc = "end" => AlreadyThere(p) /\ To(p) = Head(x.todo)[2] /\ x.digest = art[p].digest
  BY <1>2, <1>3, <1>5 DEF To
<1> QED
  BY <1>1, <1>5, <1>6, <1>8, <1>9, MoveStep

(* A step of a command that touches the catalog's objects or records: only *)
(* a quiet catalog need be looked at.                                      *)
LEMMA IntoStep ==
    ASSUME ArtInv, NEW p \in ArtProcs, NEW x \in ArtRecs, art' = [art EXCEPT ![p] = x],
           UNCHANGED <<ret, rot>>, NoteOverlap,
           rec' \in [ArtNames -> Records],
           trees' \in [ArtPaths -> ArtTrees],
           \A q \in ArtProcs : Dest(q)' = Dest(q),
           DestOK(x, Dest(p)),
           CatalogSound /\ ret.pc # "orphans" => CatalogSound'
    PROVE  ArtInv'
<1>1. art'[p] = x /\ \A q \in ArtProcs \ {p} : art'[q] = art[q]
  BY DEF ArtInv, ArtTypeOK
<1>2. ArtTypeOK'
  <2>1. art' \in [ArtProcs -> {ArtIdle} \cup ArtRecs]
    BY DEF ArtInv, ArtTypeOK
  <2>2. RetShape' /\ overlap' \in BOOLEAN
    BY DEF ArtInv, ArtTypeOK, RetShape, NoteOverlap
  <2> QED
    BY <2>1, <2>2 DEF ArtInv, ArtTypeOK
<1>3. \A q \in ArtProcs : DestSound(q)'
  BY <1>1 DEF ArtInv, DestSound
<1>4. ASSUME rot' = 0, ~ overlap' PROVE CatalogSound'
  BY <1>4 DEF ArtInv, NoteOverlap, ArtTypeOK, Retaining
<1> QED
  BY <1>2, <1>3, <1>4 DEF ArtInv

(* The other commands' copies into the catalog are not touched by p's.     *)
LEMMA OthersInto ==
    ASSUME NEW p \in ArtProcs, \A q \in ArtProcs \ {p} : art'[q] = art[q]
    PROVE  \A q \in ArtProcs \ {p}, d \in ArtDigests :
              /\ Into(q, d, {"in"})' <=> Into(q, d, {"in"})
              /\ Into(q, d, {"in", "verify"})' <=> Into(q, d, {"in", "verify"})
              /\ Into(q, d, {"verify", "end"})' <=> Into(q, d, {"verify", "end"})
  BY DEF Into, To

(* A command changes the catalog's object of its digest and nothing else   *)
(* in the catalog.                                                         *)
LEMMA ObjectStep ==
    ASSUME ArtInv, CatalogSound, ret.pc # "orphans", UNCHANGED <<rec, ret>>,
           NEW p \in ArtProcs, NEW x, art'[p] = x, \A q \in ArtProcs \ {p} : art'[q] = art[q],
           NEW e \in ArtDigests, art[p].digest = e, x.digest = e, art[p].pc # "crashed",
           NEW y \in {e, Absent},
           \A d \in ArtDigests : trees'[CatalogPath(d)] = IF d = e THEN y ELSE trees[CatalogPath(d)],
           y = e \/ Covered(e)',
           x.pc \in {"in", "verify"} => x.backup \in {e, Absent}
    PROVE  CatalogSound'
<1>1. \A d \in ArtDigests \ {e} : Covered(d) => Covered(d)'
  <2> SUFFICES ASSUME NEW d \in ArtDigests \ {e}, NEW q \in ArtProcs,
                      art[q].pc = "crashed" \/ Into(q, d, {"in"})
               PROVE  Covered(d)'
    BY DEF Covered
  <2>1. q # p
    BY DEF Into
  <2> QED
    BY <2>1, OthersInto DEF Covered
<1>2. \A d \in ArtDigests \ {e} : ~ Into(p, d, {"verify", "end"})' /\ ~ Into(p, d, {"in", "verify"})'
  BY DEF Into
<1>3. ASSUME NEW d \in ArtDigests
      PROVE  /\ trees'[CatalogPath(d)] \in {d, Absent}
             /\ Recorded(d)' \/ (\E q \in ArtProcs : Into(q, d, {"verify", "end"})')
                    => trees'[CatalogPath(d)] = d \/ Covered(d)'
  <2>1. trees'[CatalogPath(d)] \in {d, Absent}
    BY DEF CatalogSound
  <2>2. CASE d = e
    BY <2>1, <2>2
  <2>3. CASE d # e
    <3>1. trees'[CatalogPath(d)] = trees[CatalogPath(d)] /\ (Recorded(d)' <=> Recorded(d))
      BY <2>3 DEF Recorded
    <3>2. (\E q \in ArtProcs : Into(q, d, {"verify", "end"})')
             => \E q \in ArtProcs : Into(q, d, {"verify", "end"})
      BY <2>3, <1>2, OthersInto
    <3> QED
      BY <1>1, <2>1, <2>3, <3>1, <3>2 DEF CatalogSound
  <2> QED
    BY <2>2, <2>3
<1>4. ASSUME NEW d \in ArtDigests, NEW q \in ArtProcs, Into(q, d, {"in", "verify"})'
      PROVE  art'[q].backup \in {d, Absent}
  <2>1. CASE q = p
    BY <1>2, <1>4, <2>1 DEF Into
  <2>2. CASE q # p
    BY <1>4, <2>2, OthersInto DEF CatalogSound
  <2> QED
    BY <2>1, <2>2
<1> QED
  BY <1>3, <1>4 DEF CatalogSound

(* The previous tree steps aside: into the catalog its object is now       *)
(* covered, elsewhere nobody else looks.                                   *)
LEMMA BackupSound ==
    ASSUME ArtInv, NEW p \in ArtProcs, publish_tree_backup(p) PROVE ArtInv'
<1>1. art[p].pc = "swap" /\ NoteOverlap /\ UNCHANGED <<rec, ret, rot>>
  BY DEF publish_tree_backup
<1>2. PICK a \in ArtRecs : a = art[p]
  BY <1>1, DestIsRec DEF ArtInv
<1>3. DestOK(a, Dest(p)) /\ a.pc = "swap" /\ a.todo \in ArtCopies /\ a.op \in {"materialize", "publish"}
      /\ a.digest \in ArtDigests
  BY <1>1, <1>2 DEF ArtInv, DestSound, DestOK, Copying, ArtRecs
<1>4. PICK to \in ArtPaths : to = Path(p, To(p))
  BY <1>2, <1>3, CopyTarget DEF ArtInv
<1>5. PICK x : x = [a EXCEPT !.pc = "in", !.backup = trees[to]]
  OBVIOUS
<1>6. /\ x \in ArtRecs /\ x.pc = "in" /\ x.digest = a.digest /\ x.todo = a.todo
      /\ x.op = a.op /\ x.backup = trees[to]
  <2>1. trees[to] \in ArtTrees
    BY DEF ArtInv, ArtTypeOK
  <2> QED
    BY <1>5, <2>1 DEF ArtRecs, Copying
<1>7. /\ art' = [art EXCEPT ![p] = x]
      /\ trees' = [trees EXCEPT ![to] = Absent]
  BY <1>2, <1>4, <1>5 DEF publish_tree_backup, ArtInv, ArtTypeOK
<1>8. trees' \in [ArtPaths -> ArtTrees]
      /\ \A y \in ArtPaths : trees'[y] = IF y = to THEN Absent ELSE trees[y]
  BY <1>7 DEF ArtInv, ArtTypeOK, ArtTrees
<1>9. To(p) = Head(a.todo)[2] /\ To(p) \in {"dest", "checkout", "catalog"}
  BY <1>2, <1>3, CopyTarget DEF ArtInv, To
<1>10. CASE To(p) = "catalog"
  <2>1. to = CatalogPath(a.digest)
    BY <1>2, <1>3, <1>4, <1>10, CopyTarget DEF ArtInv
  <2>2. \A q \in ArtProcs : Dest(q)' = Dest(q)
    BY <1>8, <2>1, <1>3, PathsApart DEF Dest
  <2>3. DestOK(x, Dest(p))
    BY <1>3, <1>6, <1>9, <1>10 DEF DestOK, Copying
  <2>4. ASSUME CatalogSound, ret.pc # "orphans" PROVE CatalogSound'
    <3>1. art'[p] = x /\ \A q \in ArtProcs \ {p} : art'[q] = art[q]
      BY <1>7 DEF ArtInv, ArtTypeOK
    <3>2. Covered(a.digest)'
      BY <3>1, <1>6, <1>9, <1>10 DEF Covered, Into, To
    <3>3. \A d \in ArtDigests : trees'[CatalogPath(d)] = IF d = a.digest THEN Absent ELSE trees[CatalogPath(d)]
      BY <1>3, <1>8, <2>1, PathsApart
    <3>4. trees[to] \in {a.digest, Absent}
      BY <1>3, <2>1, <2>4 DEF CatalogSound
    <3>5. UNCHANGED <<rec, ret>> /\ art[p].digest = a.digest /\ art[p].pc # "crashed"
      BY <1>1, <1>2
    <3> QED
      BY <2>4, <3>1, <3>2, <3>3, <3>4, <3>5, <1>3, <1>6, ObjectStep
  <2>5. rec' \in [ArtNames -> Records]
    BY <1>1 DEF ArtInv, ArtTypeOK
  <2> QED
    BY <1>1, <1>6, <1>7, <1>8, <2>2, <2>3, <2>4, <2>5, IntoStep
<1>11. CASE To(p) # "catalog"
  <2>1. to = <<p, To(p)>> /\ To(p) \in {"dest", "checkout"}
    BY <1>4, <1>9, <1>11 DEF Path
  <2>2. /\ \A d \in ArtDigests : trees'[CatalogPath(d)] = trees[CatalogPath(d)]
        /\ \A q \in ArtProcs \ {p} : Dest(q)' = Dest(q)
        /\ Dest(p)' = IF To(p) = "dest" THEN Absent ELSE Dest(p)
    BY <1>8, <2>1, PathsApart DEF Dest
  <2>3. DestOK(x, Dest(p)')
    <3>1. CASE To(p) = "dest"
      <4>1. a.todo \in BeforeDest /\ a.op = "materialize"
        BY <1>3, <1>9, <3>1, CopyList DEF DestOK, Copying, ArtCopies
      <4>2. x.backup = OldTree /\ Dest(p)' = Absent
        BY <1>3, <1>6, <1>9, <2>1, <2>2, <3>1, <4>1 DEF DestOK, Copying, Dest
      <4> QED
        BY <1>3, <1>6, <1>9, <3>1, <4>1, <4>2, CopyKinds DEF DestOK, Copying
    <3>2. CASE To(p) # "dest"
      <4>1. Dest(p)' = Dest(p)
        BY <2>2, <3>2
      <4> QED
        BY <1>3, <1>6, <1>9, <3>2, <4>1 DEF DestOK, Copying
    <3> QED
      BY <3>1, <3>2
  <2>4. Head(x.todo)[2] # "catalog"
    BY <1>6, <1>9, <1>11
  <2> QED
    BY <1>1, <1>6, <1>7, <1>8, <2>2, <2>3, <2>4, OwnStep
<1> QED
  BY <1>10, <1>11

(* Where a command stands that copies into its destination.                *)
LEMMA IntoDest ==
    ASSUME NEW a, NEW t, DestOK(a, t), a.pc \in Copying, Head(a.todo)[2] = "dest",
           a.op \in {"materialize", "publish"}
    PROVE  a.todo \in BeforeDest /\ a.op = "materialize"
  BY CopyList DEF DestOK, ArtCopies

(* The staged tree takes the place, unless somebody took it; then that     *)
(* tree has the same digest.                                               *)
LEMMA RenameTreeSound ==
    ASSUME ArtInv, NEW p \in ArtProcs, publish_tree_rename(p) PROVE ArtInv'
<1>1. art[p].pc = "in" /\ NoteOverlap /\ UNCHANGED <<rec, ret, rot>>
  BY DEF publish_tree_rename
<1>2. PICK a \in ArtRecs : a = art[p]
  BY <1>1, DestIsRec DEF ArtInv
<1>3. DestOK(a, Dest(p)) /\ a.pc = "in" /\ a.todo \in ArtCopies /\ a.op \in {"materialize", "publish"}
      /\ a.digest \in ArtDigests
  BY <1>1, <1>2 DEF ArtInv, DestSound, DestOK, Copying, ArtRecs
<1>4. PICK to \in ArtPaths : to = Path(p, To(p))
  BY <1>2, <1>3, CopyTarget DEF ArtInv
<1>5. To(p) = Head(a.todo)[2] /\ To(p) \in {"dest", "checkout", "catalog"}
  BY <1>2, <1>3, CopyTarget DEF ArtInv, To
<1>6. PICK b \in BOOLEAN : b <=> trees[to] = Absent
  OBVIOUS
<1>7. PICK x : x = [a EXCEPT !.pc = IF b THEN "verify" ELSE "failed"]
  OBVIOUS
<1>8. /\ x \in ArtRecs /\ x.pc = (IF b THEN "verify" ELSE "failed") /\ x.digest = a.digest
      /\ x.todo = a.todo /\ x.op = a.op /\ x.backup = a.backup
  BY <1>7 DEF ArtRecs, Copying
<1>9. art' = [art EXCEPT ![p] = x]
  <2>1. CASE b
    BY <1>2, <1>4, <1>6, <1>7, <2>1 DEF publish_tree_rename, ArtInv, ArtTypeOK
  <2>2. CASE ~ b
    BY <1>2, <1>4, <1>6, <1>7, <2>2 DEF publish_tree_rename, ArtFail, ArtInv, ArtTypeOK
  <2> QED
    BY <2>1, <2>2
<1>10. \A y \in ArtPaths : trees'[y] = IF y = to /\ b THEN a.digest ELSE trees[y]
  BY <1>2, <1>4, <1>6 DEF publish_tree_rename, ArtInv, ArtTypeOK
<1>11. trees' \in [ArtPaths -> ArtTrees]
  BY <1>2, <1>3, <1>4, <1>6 DEF publish_tree_rename, ArtInv, ArtTypeOK, ArtTrees
<1>12. CASE To(p) = "catalog"
  <2>1. to = CatalogPath(a.digest)
    BY <1>2, <1>3, <1>4, <1>12, CopyTarget DEF ArtInv
  <2>2. \A q \in ArtProcs : Dest(q)' = Dest(q)
    BY <1>10, <2>1, <1>3, PathsApart DEF Dest
  <2>3. DestOK(x, Dest(p))
    <3>1. a.todo \notin BeforeDest \/ Dest(p) = OldTree
      BY <1>3, <1>5, <1>12 DEF DestOK, Copying
    <3>2. Dest(p) \in {OldTree, a.digest}
      BY <1>3, <3>1 DEF DestOK, Copying, ArtCopies
    <3>3. CASE b
      BY <1>3, <1>5, <1>8, <1>12, <3>3 DEF DestOK, Copying
    <3>4. CASE ~ b
      BY <1>8, <3>2, <3>4 DEF DestOK, Copying
    <3> QED
      BY <3>3, <3>4
  <2>4. ASSUME CatalogSound, ret.pc # "orphans" PROVE CatalogSound'
    <3>1. art'[p] = x /\ \A q \in ArtProcs \ {p} : art'[q] = art[q]
      BY <1>9 DEF ArtInv, ArtTypeOK
    <3>2. trees[to] \in {a.digest, Absent}
      BY <1>3, <2>1, <2>4 DEF CatalogSound
    <3>3. trees'[to] = a.digest
      BY <1>6, <1>10, <3>2
    <3>4. \A d \in ArtDigests : trees'[CatalogPath(d)] = IF d = a.digest THEN a.digest ELSE trees[CatalogPath(d)]
      BY <1>3, <1>10, <2>1, <3>3, PathsApart
    <3>5. a.backup \in {a.digest, Absent}
      BY <1>2, <1>3, <1>12, <2>4 DEF CatalogSound, Into
    <3>6. UNCHANGED <<rec, ret>> /\ art[p].digest = a.digest /\ art[p].pc # "crashed"
      BY <1>1, <1>2
    <3> QED
      BY <2>4, <3>1, <3>4, <3>5, <3>6, <1>3, <1>8, ObjectStep
  <2>5. rec' \in [ArtNames -> Records]
    BY <1>1 DEF ArtInv, ArtTypeOK
  <2> QED
    BY <1>1, <1>8, <1>9, <1>11, <2>2, <2>3, <2>4, <2>5, IntoStep
<1>13. CASE To(p) # "catalog"
  <2>1. to = <<p, To(p)>> /\ To(p) \in {"dest", "checkout"}
    BY <1>4, <1>5, <1>13 DEF Path
  <2>2. /\ \A d \in ArtDigests : trees'[CatalogPath(d)] = trees[CatalogPath(d)]
        /\ \A q \in ArtProcs \ {p} : Dest(q)' = Dest(q)
        /\ To(p) # "dest" => Dest(p)' = Dest(p)
    BY <1>10, <2>1, PathsApart DEF Dest
  <2>3. DestOK(x, Dest(p)')
    <3>1. CASE To(p) = "dest"
      <4>1. a.todo \in BeforeDest /\ a.op = "materialize"
        BY <1>3, <1>5, <3>1, IntoDest DEF Copying
      <4>2. a.backup = OldTree /\ Dest(p) = Absent /\ to = <<p, "dest">>
        BY <1>3, <1>5, <2>1, <3>1, <4>1 DEF DestOK, Copying
      <4>3. b
        BY <1>6, <4>2 DEF Dest
      <4> QED
        BY <1>3, <1>5, <1>8, <3>1, <4>1, <4>2, <4>3, CopyKinds DEF DestOK, Copying
    <3>2. CASE To(p) # "dest"
      <4>1. Dest(p)' = Dest(p)
        BY <2>2, <3>2
      <4>2. Dest(p) \in {OldTree, a.digest}
        BY <1>3, <1>5, <3>2 DEF DestOK, Copying, ArtCopies
      <4>3. CASE b
        BY <1>3, <1>5, <1>8, <3>2, <4>1, <4>3 DEF DestOK, Copying
      <4>4. CASE ~ b
        BY <1>8, <4>1, <4>2, <4>4 DEF DestOK, Copying
      <4> QED
        BY <4>3, <4>4
    <3> QED
      BY <3>1, <3>2
  <2>4. Head(x.todo)[2] # "catalog"
    BY <1>5, <1>8, <1>13
  <2> QED
    BY <1>1, <1>8, <1>9, <1>11, <1>13, <2>2, <2>3, <2>4, OwnStep
<1> QED
  BY <1>12, <1>13

(* A tree that does not verify gives way to the backup; in the catalog     *)
(* this happens only while another command replaces the object.            *)
LEMMA VerifySound ==
    ASSUME ArtInv, NEW p \in ArtProcs, publish_tree_verify(p) PROVE ArtInv'
<1>1. art[p].pc = "verify" /\ NoteOverlap /\ UNCHANGED <<rec, ret, rot>>
  BY DEF publish_tree_verify
<1>2. PICK a \in ArtRecs : a = art[p]
  BY <1>1, DestIsRec DEF ArtInv
<1>3. DestOK(a, Dest(p)) /\ a.pc = "verify" /\ a.todo \in ArtCopies /\ a.op \in {"materialize", "publish"}
      /\ a.digest \in ArtDigests /\ a.backup \in ArtTrees
  BY <1>1, <1>2 DEF ArtInv, DestSound, DestOK, Copying, ArtRecs
<1>4. PICK to \in ArtPaths : to = Path(p, To(p))
  BY <1>2, <1>3, CopyTarget DEF ArtInv
<1>5. To(p) = Head(a.todo)[2] /\ To(p) \in {"dest", "checkout", "catalog"}
  BY <1>2, <1>3, CopyTarget DEF ArtInv, To
<1>6. CASE trees[to] = a.digest
  <2>1. PICK x : x = [a EXCEPT !.pc = "end"]
    OBVIOUS
  <2>2. /\ x \in ArtRecs /\ x.pc = "end" /\ x.digest = a.digest
        /\ x.todo = a.todo /\ x.op = a.op /\ x.backup = a.backup
    BY <2>1 DEF ArtRecs, Copying
  <2>3. art' = [art EXCEPT ![p] = x] /\ trees' = trees
    BY <1>2, <1>4, <1>6, <2>1 DEF publish_tree_verify, verify_tree, ArtInv, ArtTypeOK
  <2>4. To(p) = "dest" => Dest(p) = a.digest
    BY <1>4, <1>6 DEF Path, Dest
  <2>5. DestOK(x, Dest(p))
    BY <1>3, <1>5, <2>2, <2>4 DEF DestOK, Copying
  <2>6. x.pc = "end" => AlreadyThere(p) /\ To(p) = Head(x.todo)[2] /\ x.digest = art[p].digest
    BY <1>2, <1>4, <1>5, <1>6, <2>2 DEF AlreadyThere, verify_tree
  <2> QED
    BY <1>1, <2>2, <2>3, <2>5, <2>6, MoveStep
<1>7. CASE trees[to] # a.digest
  <2>1. PICK x : x = [a EXCEPT !.pc = "failed"]
    OBVIOUS
  <2>2. /\ x \in ArtRecs /\ x.pc = "failed" /\ x.digest = a.digest
        /\ x.todo = a.todo /\ x.op = a.op /\ x.backup = a.backup
    BY <2>1 DEF ArtRecs
  <2>3. art' = [art EXCEPT ![p] = x] /\ trees' = [trees EXCEPT ![to] = a.backup]
    BY <1>2, <1>4, <1>7, <2>1 DEF publish_tree_verify, verify_tree, Restored, ArtFail, ArtInv, ArtTypeOK
  <2>4. trees' \in [ArtPaths -> ArtTrees]
        /\ \A y \in ArtPaths : trees'[y] = IF y = to THEN a.backup ELSE trees[y]
    BY <1>3, <2>3 DEF ArtInv, ArtTypeOK
  <2>5. CASE To(p) = "catalog"
    <3>1. to = CatalogPath(a.digest)
      BY <1>2, <1>3, <1>4, <2>5, CopyTarget DEF ArtInv
    <3>2. \A q \in ArtProcs : Dest(q)' = Dest(q)
      BY <2>4, <3>1, <1>3, PathsApart DEF Dest
    <3>3. DestOK(x, Dest(p))
      <4>1. Dest(p) \in {OldTree, a.digest}
        BY <1>3, <1>5, <2>5 DEF DestOK, Copying, ArtCopies
      <4> QED
        BY <2>2, <4>1 DEF DestOK, Copying
    <3>4. ASSUME CatalogSound, ret.pc # "orphans" PROVE CatalogSound'
      <4>1. art'[p] = x /\ \A q \in ArtProcs \ {p} : art'[q] = art[q]
        BY <2>3 DEF ArtInv, ArtTypeOK
      <4>2. a.backup \in {a.digest, Absent}
        BY <1>2, <1>3, <2>5, <3>4 DEF CatalogSound, Into
      <4>3. Covered(a.digest)
        BY <1>2, <1>3, <1>7, <2>5, <3>1, <3>4 DEF CatalogSound, Into
      <4>4. Covered(a.digest)'
        <5>1. PICK q \in ArtProcs : art[q].pc = "crashed" \/ Into(q, a.digest, {"in"})
          BY <4>3 DEF Covered
        <5>2. q # p
          BY <1>1, <5>1 DEF Into
        <5> QED
          BY <1>3, <4>1, <5>1, <5>2, OthersInto DEF Covered
      <4>5. \A d \in ArtDigests : trees'[CatalogPath(d)] = IF d = a.digest THEN a.backup ELSE trees[CatalogPath(d)]
        BY <1>3, <2>4, <3>1, PathsApart
      <4>6. UNCHANGED <<rec, ret>> /\ art[p].digest = a.digest /\ art[p].pc # "crashed"
        BY <1>1, <1>2
      <4> QED
        BY <3>4, <4>1, <4>2, <4>4, <4>5, <4>6, <1>3, <2>2, ObjectStep
    <3>5. rec' \in [ArtNames -> Records]
      BY <1>1 DEF ArtInv, ArtTypeOK
    <3> QED
      BY <1>1, <2>2, <2>3, <2>4, <3>2, <3>3, <3>4, <3>5, IntoStep
  <2>6. CASE To(p) # "catalog"
    <3>1. to = <<p, To(p)>> /\ To(p) \in {"dest", "checkout"}
      BY <1>4, <1>5, <2>6 DEF Path
    <3>2. /\ \A d \in ArtDigests : trees'[CatalogPath(d)] = trees[CatalogPath(d)]
          /\ \A q \in ArtProcs \ {p} : Dest(q)' = Dest(q)
          /\ Dest(p)' = IF To(p) = "dest" THEN a.backup ELSE Dest(p)
      BY <2>4, <3>1, PathsApart DEF Dest
    <3>3. Dest(p)' \in {OldTree, a.digest}
      <4>1. CASE To(p) = "dest"
        <5>1. a.todo \in BeforeDest
          BY <1>3, <1>5, <4>1, IntoDest DEF Copying
        <5> QED
          BY <1>3, <1>5, <3>2, <4>1, <5>1 DEF DestOK, Copying
      <4>2. CASE To(p) # "dest"
        BY <1>3, <1>5, <3>2, <4>2 DEF DestOK, Copying, ArtCopies
      <4> QED
        BY <4>1, <4>2
    <3>4. DestOK(x, Dest(p)')
      BY <2>2, <3>3 DEF DestOK, Copying
    <3> QED
      BY <1>1, <2>2, <2>3, <2>4, <2>6, <3>2, <3>4, OwnStep
  <2> QED
    BY <2>5, <2>6
<1> QED
  BY <1>6, <1>7

(* The record is written when its object is there or covered.              *)
LEMMA EndSound ==
    ASSUME ArtInv, NEW p \in ArtProcs, publish_end(p) PROVE ArtInv'
<1>1. art[p].pc = "end" /\ NoteOverlap /\ UNCHANGED <<trees, ret, rot>>
  BY DEF publish_end
<1>2. PICK a \in ArtRecs : a = art[p]
  BY <1>1, DestIsRec DEF ArtInv
<1>3. DestOK(a, Dest(p)) /\ a.pc = "end" /\ a.todo \in ArtCopies /\ a.op \in {"materialize", "publish"}
      /\ a.digest \in ArtDigests /\ a.name \in ArtNames
  BY <1>1, <1>2 DEF ArtInv, DestSound, DestOK, Copying, ArtRecs
<1>4. To(p) = Head(a.todo)[2] /\ To(p) \in {"dest", "checkout", "catalog"}
  BY <1>2, <1>3, CopyTarget DEF ArtInv, To
<1>5. PICK x : x = [a EXCEPT !.todo = Tail(@), !.pc = IF Len(a.todo) = 1 THEN "done" ELSE "publish"]
  OBVIOUS
<1>6. Head(a.todo)[2] = "dest" => Dest(p) = a.digest
  <2> SUFFICES ASSUME Head(a.todo)[2] = "dest" PROVE Dest(p) = a.digest
    OBVIOUS
  <2>1. a.todo \in BeforeDest
    BY <1>3, IntoDest DEF Copying
  <2> QED
    BY <1>3, <2>1 DEF DestOK, Copying
<1>7. x \in ArtRecs /\ x.pc \in {"done", "publish"} /\ DestOK(x, Dest(p))
  <2>1. PICK t : t = Dest(p)
    OBVIOUS
  <2> QED
    BY <1>3, <1>5, <1>6, <2>1, NextCopy DEF Copying
<1>8. art' = [art EXCEPT ![p] = x]
  BY <1>2, <1>5 DEF publish_end, ArtInv, ArtTypeOK
<1>9. CASE To(p) # "catalog"
  <2>1. rec' = rec
    BY <1>9 DEF publish_end
  <2>2. x.pc \notin {"in", "verify", "end"}
    BY <1>7
  <2> QED
    BY <1>1, <1>7, <1>8, <2>1, <2>2, MoveStep
<1>10. CASE To(p) = "catalog"
  <2>1. rec' = [rec EXCEPT ![a.name] = a.digest]
    BY <1>2, <1>10 DEF publish_end
  <2>2. rec' \in [ArtNames -> Records] /\ \A n \in ArtNames : rec'[n] = IF n = a.name THEN a.digest ELSE rec[n]
    BY <1>3, <2>1 DEF ArtInv, ArtTypeOK, Records
  <2>3. ASSUME CatalogSound, ret.pc # "orphans" PROVE CatalogSound'
    <3>1. art'[p] = x /\ \A q \in ArtProcs \ {p} : art'[q] = art[q]
      BY <1>8 DEF ArtInv, ArtTypeOK
    <3>2. \A d \in ArtDigests : Covered(d) => Covered(d)'
      <4> SUFFICES ASSUME NEW d \in ArtDigests, NEW q \in ArtProcs,
                          art[q].pc = "crashed" \/ Into(q, d, {"in"})
                   PROVE  Covered(d)'
        BY DEF Covered
      <4>1. q # p
        BY <1>1 DEF Into
      <4> QED
        BY <3>1, <4>1, OthersInto DEF Covered
    <3>3. \A d \in ArtDigests : ~ Into(p, d, {"verify", "end"})' /\ ~ Into(p, d, {"in", "verify"})'
      BY <1>7, <3>1 DEF Into
    <3>4. trees[CatalogPath(a.digest)] = a.digest \/ Covered(a.digest)
      BY <1>2, <1>3, <1>10, <2>3 DEF CatalogSound, Into
    <3>5. \A n \in ArtNames : rec'[n] # Damaged
      BY <1>3, <2>2, <2>3, ArtAssumption DEF CatalogSound
    <3>6. ASSUME NEW d \in ArtDigests,
                 Recorded(d)' \/ \E q \in ArtProcs : Into(q, d, {"verify", "end"})'
          PROVE  trees'[CatalogPath(d)] = d \/ Covered(d)'
      <4>1. CASE d = a.digest
        BY <1>1, <3>2, <3>4, <4>1
      <4>2. CASE d # a.digest
        <5>1. Recorded(d)' => Recorded(d)
          BY <2>2, <4>2 DEF Recorded
        <5>2. (\E q \in ArtProcs : Into(q, d, {"verify", "end"})')
                 => \E q \in ArtProcs : Into(q, d, {"verify", "end"})
          BY <3>1, <3>3, OthersInto
        <5> QED
          BY <1>1, <2>3, <3>2, <3>6, <5>1, <5>2 DEF CatalogSound
      <4> QED
        BY <4>1, <4>2
    <3>7. ASSUME NEW d \in ArtDigests, NEW q \in ArtProcs, Into(q, d, {"in", "verify"})'
          PROVE  art'[q].backup \in {d, Absent}
      <4>1. q # p
        BY <3>3, <3>7
      <4> QED
        BY <2>3, <3>1, <3>7, <4>1, OthersInto DEF CatalogSound
    <3>8. \A d \in ArtDigests : trees'[CatalogPath(d)] \in {d, Absent}
      BY <1>1, <2>3 DEF CatalogSound
    <3> QED
      BY <1>1, <2>3, <3>5, <3>6, <3>7, <3>8 DEF CatalogSound
  <2>4. trees' \in [ArtPaths -> ArtTrees] /\ \A q \in ArtProcs : Dest(q)' = Dest(q)
    BY <1>1 DEF ArtInv, ArtTypeOK, Dest
  <2> QED
    BY <1>1, <1>7, <1>8, <2>2, <2>3, <2>4, IntoStep
<1> QED
  BY <1>9, <1>10

(* A command that died covers whatever it left behind.                     *)
LEMMA ArtCrashSound ==
    ASSUME ArtInv, NEW p \in ArtProcs, ArtCrash(p) PROVE ArtInv'
<1>1. art[p].pc # "idle" /\ UNCHANGED <<rec, trees, ret, rot, overlap>>
  BY DEF ArtCrash
<1>2. PICK a \in ArtRecs : a = art[p]
  BY <1>1, DestIsRec DEF ArtInv
<1>3. PICK x : x = [a EXCEPT !.pc = "crashed"]
  OBVIOUS
<1>4. x \in ArtRecs /\ x.pc = "crashed"
  BY <1>3 DEF ArtRecs
<1>5. art' = [art EXCEPT ![p] = x]
  BY <1>2, <1>3 DEF ArtCrash, ArtInv, ArtTypeOK
<1>6. art'[p] = x /\ \A q \in ArtProcs \ {p} : art'[q] = art[q]
  BY <1>5 DEF ArtInv, ArtTypeOK
<1>7. ArtTypeOK'
  BY <1>1, <1>4, <1>5 DEF ArtInv, ArtTypeOK, RetShape
<1>8. \A q \in ArtProcs : DestSound(q)'
  BY ZenonT(60), <1>1, <1>4, <1>6 DEF ArtInv, DestSound, Dest, DestOK, Copying
<1>9. ASSUME CatalogSound PROVE CatalogSound'
  <2>1. \A d \in ArtDigests : Covered(d)'
    BY <1>4, <1>6 DEF Covered
  <2>2. \A d \in ArtDigests : ~ Into(p, d, {"in", "verify"})'
    BY <1>4, <1>6 DEF Into
  <2>3. ASSUME NEW d \in ArtDigests, NEW q \in ArtProcs, Into(q, d, {"in", "verify"})'
        PROVE  art'[q].backup \in {d, Absent}
    <3>1. q # p
      BY <2>2, <2>3
    <3> QED
      BY <1>6, <1>9, <2>3, <3>1, OthersInto DEF CatalogSound
  <2>4. ret'.pc = "orphans" => \A d \in ret'.todo : ~ Recorded(d)'
    BY <1>1, <1>9 DEF CatalogSound, Recorded
  <2> QED
    BY <1>1, <1>9, <2>1, <2>3, <2>4 DEF CatalogSound
<1> QED
  BY <1>1, <1>7, <1>8, <1>9 DEF ArtInv

(* Damage in the catalog, in a checkout's object or in a tree that is      *)
(* about to be verified reaches no destination that has been delivered.    *)
LEMMA RotSound ==
    ASSUME ArtInv, Rot PROVE ArtInv'
<1>1. rot' = rot + 1 /\ UNCHANGED <<art, ret, overlap>>
  BY DEF Rot
<1>2. rot' \in Nat /\ rot' # 0
  BY <1>1 DEF ArtInv, ArtTypeOK
<1>3. RetShape'
  BY <1>1 DEF ArtInv, ArtTypeOK, RetShape
<1>4. CASE \E x \in CatalogPaths \cup (ArtProcs \X {"checkout"}) :
              trees' = [trees EXCEPT ![x] = Damaged] /\ UNCHANGED rec
  <2>1. PICK x \in CatalogPaths \cup (ArtProcs \X {"checkout"}) :
              trees' = [trees EXCEPT ![x] = Damaged] /\ rec' = rec
    BY <1>4
  <2>2. \A p \in ArtProcs : x # <<p, "dest">>
    BY PathsApart DEF CatalogPaths
  <2>3. \A p \in ArtProcs : Dest(p)' = Dest(p)
    BY <2>1, <2>2, PathsApart DEF Dest, ArtInv, ArtTypeOK
  <2>4. trees' \in [ArtPaths -> ArtTrees]
    BY <2>1 DEF ArtInv, ArtTypeOK, ArtTrees
  <2> QED
    BY <1>1, <1>2, <1>3, <2>1, <2>3, <2>4 DEF ArtInv, ArtTypeOK, DestSound
<1>5. CASE \E n \in ArtNames : rec' = [rec EXCEPT ![n] = Damaged] /\ UNCHANGED trees
  <2>1. rec' \in [ArtNames -> Records]
    BY <1>5 DEF ArtInv, ArtTypeOK, Records
  <2>2. \A p \in ArtProcs : Dest(p)' = Dest(p)
    BY <1>5 DEF Dest
  <2> QED
    BY <1>1, <1>2, <1>3, <1>5, <2>1, <2>2 DEF ArtInv, ArtTypeOK, DestSound
<1>6. CASE \E p \in ArtProcs : /\ art[p].pc = "verify"
                               /\ trees' = [trees EXCEPT ![Path(p, To(p))] = Damaged]
                               /\ UNCHANGED rec
  <2>1. PICK p \in ArtProcs : /\ art[p].pc = "verify"
                              /\ trees' = [trees EXCEPT ![Path(p, To(p))] = Damaged]
                              /\ rec' = rec
    BY <1>6
  <2>2. PICK a \in ArtRecs : a = art[p]
    BY <2>1, DestIsRec DEF ArtInv
  <2>3. DestOK(a, Dest(p)) /\ a.pc = "verify" /\ a.todo \in ArtCopies /\ a.op \in {"materialize", "publish"}
        /\ a.digest \in ArtDigests
    BY <2>1, <2>2 DEF ArtInv, DestSound, DestOK, Copying, ArtRecs
  <2>4. PICK to \in ArtPaths : to = Path(p, To(p))
    BY <2>2, <2>3, CopyTarget DEF ArtInv
  <2>5. To(p) = Head(a.todo)[2] /\ To(p) \in {"dest", "checkout", "catalog"}
    BY <2>2, <2>3, CopyTarget DEF ArtInv, To
  <2>6. /\ To(p) = "catalog" => to = CatalogPath(a.digest)
        /\ To(p) # "catalog" => to = <<p, To(p)>>
    BY <2>2, <2>4 DEF Path
  <2>7. trees' \in [ArtPaths -> ArtTrees]
        /\ \A y \in ArtPaths : trees'[y] = IF y = to THEN Damaged ELSE trees[y]
    BY <2>1, <2>4 DEF ArtInv, ArtTypeOK, ArtTrees
  <2>8. ASSUME NEW q \in ArtProcs PROVE DestSound(q)'
    <3>1. CASE q = p /\ To(p) = "dest"
      <4>1. a.todo \in BeforeDest /\ a.op = "materialize"
        BY <2>3, <2>5, <3>1, IntoDest DEF Copying
      <4>2. DestOK(a, Dest(p)')
        BY <2>3, <2>5, <3>1, <4>1, CopyKinds DEF DestOK, Copying
      <4> QED
        BY <1>1, <2>2, <3>1, <4>2 DEF DestSound
    <3>2. CASE ~ (q = p /\ To(p) = "dest")
      <4>1. to # <<q, "dest">>
        BY <2>3, <2>5, <2>6, <3>2, PathsApart
      <4>2. Dest(q)' = Dest(q)
        BY <2>7, <4>1, PathsApart DEF Dest
      <4> QED
        BY <1>1, <4>2 DEF ArtInv, DestSound
    <3> QED
      BY <3>1, <3>2
  <2> QED
    BY <1>1, <1>2, <1>3, <2>1, <2>7, <2>8 DEF ArtInv, ArtTypeOK
<1> QED
  BY <1>4, <1>5, <1>6 DEF Rot

(* Retention removes records, and objects that have none; while a command  *)
(* publishes it makes the two overlap.                                     *)
LEMMA RetainStep ==
    ASSUME ArtInv, RetStay, RetShape',
           rec' \in [ArtNames -> Records],
           \A n \in ArtNames : rec'[n] \in {rec[n], Absent},
           trees' \in [ArtPaths -> ArtTrees],
           \A q \in ArtProcs : Dest(q)' = Dest(q),
           CatalogSound => \A d \in ArtDigests :
              trees'[CatalogPath(d)] = trees[CatalogPath(d)] \/ (trees'[CatalogPath(d)] = Absent /\ ~ Recorded(d)'),
           CatalogSound => (ret'.pc = "orphans" => \A d \in ret'.todo : ~ Recorded(d)')
    PROVE  ArtInv'
<1>1. art' = art /\ rot' = rot /\ overlap' \in BOOLEAN
  BY DEF RetStay, ArtInv, ArtTypeOK
<1>2. ArtTypeOK'
  BY <1>1 DEF ArtInv, ArtTypeOK
<1>3. \A q \in ArtProcs : DestSound(q)'
  BY <1>1 DEF ArtInv, DestSound
<1>4. ASSUME rot' = 0, ~ overlap' PROVE CatalogSound'
  <2>1. CatalogSound /\ \A p \in ArtProcs : ~ Publishing(p)
    BY <1>1, <1>4 DEF RetStay, ArtInv, ArtTypeOK
  <2>2. \A p \in ArtProcs, d \in ArtDigests : ~ Into(p, d, {"verify", "end"})' /\ ~ Into(p, d, {"in", "verify"})'
    BY <1>1, <2>1 DEF Into, Publishing
  <2>3. \A d \in ArtDigests : Recorded(d)' => Recorded(d)
    BY ArtAssumption DEF Recorded
  <2>4. \A d \in ArtDigests : Covered(d)' <=> Covered(d)
    BY <1>1 DEF Covered, Into, To
  <2>5. \A n \in ArtNames : rec'[n] # Damaged
    BY <2>1, ArtAssumption DEF CatalogSound
  <2>6. ASSUME NEW d \in ArtDigests
        PROVE  /\ trees'[CatalogPath(d)] \in {d, Absent}
               /\ Recorded(d)' => trees'[CatalogPath(d)] = d \/ Covered(d)'
    BY <2>1, <2>3, <2>4 DEF CatalogSound
  <2> QED
    BY <2>1, <2>2, <2>5, <2>6 DEF CatalogSound
<1> QED
  BY <1>2, <1>3, <1>4 DEF ArtInv

(* An object that is deleted, or not, because it was locked.               *)
LEMMA DeletedOne ==
    ASSUME ArtInv, NEW e \in ArtDigests, trees' = Deleted(e)
    PROVE  /\ trees' \in [ArtPaths -> ArtTrees]
           /\ \A q \in ArtProcs : Dest(q)' = Dest(q)
           /\ \A d \in ArtDigests : trees'[CatalogPath(d)] = trees[CatalogPath(d)]
                                    \/ (d = e /\ trees'[CatalogPath(d)] = Absent)
<1>1. CASE trees' = trees
  BY <1>1 DEF ArtInv, ArtTypeOK, Dest
<1>2. CASE trees' = [trees EXCEPT ![CatalogPath(e)] = Absent]
  BY <1>2, PathsApart DEF ArtInv, ArtTypeOK, Dest, ArtTrees
<1> QED
  BY <1>1, <1>2 DEF Deleted

(* What RetGoto leaves of the command's record.                            *)
LEMMA GotoShape ==
    ASSUME RetShape, ret.pc \notin {"idle", "done"}, NEW pc \in {"quarantine", "expire", "orphans"},
           NEW t, RetGoto(pc, t)
    PROVE  RetShape' /\ ret'.pc = pc /\ ret'.todo = t
<1>1. PICK pc0, quota, left, todo, digest :
         ret = [pc |-> pc0, quota |-> quota, left |-> left, todo |-> todo, digest |-> digest]
  BY DEF RetShape
<1>2. ret' = [pc |-> pc, quota |-> quota, left |-> left, todo |-> t, digest |-> digest]
  BY <1>1 DEF RetGoto
<1>3. RetShape'
  BY <1>2 DEF RetShape
<1> QED
  BY <1>2, <1>3

(* Every step of retention is one that RetainStep allows.                  *)
LEMMA RetainSound ==
    ASSUME ArtInv, Retain PROVE ArtInv'
<1>1. RetShape /\ rec \in [ArtNames -> Records] /\ trees \in [ArtPaths -> ArtTrees]
  BY DEF ArtInv, ArtTypeOK
<1>2. CASE UNCHANGED trees /\ RetStay
  <2>1. trees' \in [ArtPaths -> ArtTrees] /\ \A q \in ArtProcs : Dest(q)' = Dest(q)
    BY <1>1, <1>2 DEF Dest
  <2>2. ASSUME RetShape', rec' \in [ArtNames -> Records], \A n \in ArtNames : rec'[n] \in {rec[n], Absent},
               CatalogSound => (ret'.pc = "orphans" => \A d \in ret'.todo : ~ Recorded(d)')
        PROVE  ArtInv'
    BY <1>2, <2>1, <2>2, RetainStep
  <2>3. ASSUME NEW quota \in Quotas, quarantine_corrupt_records(quota) PROVE ArtInv'
    <3>1. rec' \in [ArtNames -> Records] /\ \A n \in ArtNames : rec'[n] \in {rec[n], Absent}
      BY <1>1, <2>3 DEF quarantine_corrupt_records, Records
    <3>2. RetShape' /\ ret'.pc # "orphans"
      BY <2>3 DEF quarantine_corrupt_records, RetShape
    <3> QED
      BY <2>2, <3>1, <3>2
  <2>4. ASSUME NEW f \in ArtNames \X ArtDigests, quarantine_unverified(f) PROVE ArtInv'
    <3>1. rec' \in [ArtNames -> Records] /\ \A n \in ArtNames : rec'[n] \in {rec[n], Absent}
      BY <1>1, <2>4 DEF quarantine_unverified, Records
    <3>2. RetShape' /\ ret'.pc = "quarantine"
      BY <1>1, <2>4, GotoShape DEF quarantine_unverified
    <3> QED
      BY <2>2, <3>1, <3>2
  <2>5. ASSUME NEW f \in ArtNames \X ArtDigests, retain_expire(f) PROVE ArtInv'
    <3>1. rec' \in [ArtNames -> Records] /\ \A n \in ArtNames : rec'[n] \in {rec[n], Absent}
      BY <1>1, <2>5 DEF retain_expire, Records
    <3>2. RetShape' /\ ret'.pc # "orphans"
      <4>1. PICK pc0, quota, left, todo, digest :
              ret = [pc |-> pc0, quota |-> quota, left |-> left, todo |-> todo, digest |-> digest]
        BY <1>1, <2>5 DEF RetShape, retain_expire
      <4>2. CASE rec[f[1]] = Absent
        BY <2>5, <4>2 DEF retain_expire, RetShape
      <4>3. CASE rec[f[1]] # Absent
        <5>1. ret' = [pc |-> "delete", quota |-> quota, left |-> left - 1, todo |-> todo \ {f}, digest |-> f[2]]
          BY <2>5, <4>1, <4>3 DEF retain_expire
        <5> QED
          BY <5>1 DEF RetShape
      <4> QED
        BY <4>2, <4>3
    <3> QED
      BY <2>2, <3>1, <3>2
  <2>6. CASE retain_list
    <3>1. rec' \in [ArtNames -> Records] /\ \A n \in ArtNames : rec'[n] \in {rec[n], Absent}
      BY <1>1, <2>6 DEF retain_list
    <3>2. RetShape' /\ ret'.pc # "orphans"
      <4>1. PICK pc0, quota, left, todo, digest :
              ret = [pc |-> pc0, quota |-> quota, left |-> left, todo |-> todo, digest |-> digest]
        BY <1>1, <2>6 DEF RetShape, retain_list
      <4>2. CASE Unreadable
        BY <2>6, <4>2 DEF retain_list, RetShape
      <4>3. CASE ~ Unreadable
        <5>1. ret' = [pc |-> "expire", quota |-> quota, left |-> Cardinality(record_files),
                      todo |-> record_files, digest |-> digest]
          BY <2>6, <4>1, <4>3 DEF retain_list
        <5> QED
          BY <5>1 DEF RetShape
      <4> QED
        BY <4>2, <4>3
    <3> QED
      BY <2>2, <3>1, <3>2
  <2>7. CASE orphan_list
    <3>1. rec' \in [ArtNames -> Records] /\ \A n \in ArtNames : rec'[n] \in {rec[n], Absent}
      BY <1>1, <2>7 DEF orphan_list
    <3>2. CASE Unreadable
      <4>1. RetShape' /\ ret'.pc # "orphans"
        BY <2>7, <3>2 DEF orphan_list, RetShape
      <4> QED
        BY <2>2, <3>1, <4>1
    <3>3. CASE ~ Unreadable
      <4>1. PICK todo : todo = {d \in ArtDigests : ~ Recorded(d) /\ trees[CatalogPath(d)] # Absent}
        OBVIOUS
      <4>2. RetGoto("orphans", todo) /\ rec' = rec /\ ret.pc = "expire"
        BY <2>7, <3>3, <4>1 DEF orphan_list
      <4>3. RetShape' /\ ret'.todo = todo
        BY <1>1, <4>2, GotoShape
      <4>4. \A d \in ret'.todo : ~ Recorded(d)'
        BY <4>1, <4>2, <4>3 DEF Recorded
      <4> QED
        BY <2>2, <3>1, <4>3, <4>4
    <3> QED
      BY <3>2, <3>3
  <2>8. CASE retain_done
    <3>1. rec' = rec /\ RetShape' /\ ret'.pc # "orphans"
      BY <2>8 DEF retain_done, RetShape
    <3> QED
      BY <1>1, <2>2, <3>1
  <2>9. CASE retain_delete \/ \E d \in ArtDigests : delete_orphan_objects(d)
    <3>1. rec' = rec /\ ret.pc \in {"delete", "orphans"}
      BY <2>9 DEF retain_delete, delete_orphan_objects
    <3>2. CASE retain_delete
      <4>1. RetShape' /\ ret'.pc = "expire"
        BY <1>1, <3>2, GotoShape DEF retain_delete
      <4> QED
        BY <1>1, <2>2, <3>1, <4>1
    <3>3. ASSUME NEW e \in ArtDigests, delete_orphan_objects(e) PROVE ArtInv'
      <4>1. RetShape' /\ ret'.todo = ret.todo \ {e} /\ ret.pc = "orphans"
        BY <1>1, <3>3, GotoShape DEF delete_orphan_objects
      <4>2. CatalogSound => \A d \in ret'.todo : ~ Recorded(d)'
        BY <3>1, <4>1 DEF CatalogSound, Recorded
      <4> QED
        BY <1>1, <2>2, <3>1, <4>1, <4>2
    <3> QED
      BY <2>9, <3>2, <3>3
  <2> QED
    BY <2>3, <2>4, <2>5, <2>6, <2>7, <2>8, <2>9 DEF Retain
<1>3. CASE retain_delete
  <2>1. RetShape' /\ ret'.pc = "expire" /\ rec' = rec /\ RetStay
    BY <1>1, <1>3, GotoShape DEF retain_delete
  <2>2. CASE trees' = trees
    BY <1>2, <2>1, <2>2
  <2>3. CASE trees' # trees
    <3>1. trees' = Deleted(ret.digest) /\ ~ digest_still_recorded(ret.digest)
      BY <1>3, <2>3 DEF retain_delete
    <3>2. PICK e \in ArtDigests : e = ret.digest
      BY <1>1, <1>3 DEF RetShape, retain_delete
    <3>3. /\ trees' \in [ArtPaths -> ArtTrees]
          /\ \A q \in ArtProcs : Dest(q)' = Dest(q)
          /\ \A d \in ArtDigests : trees'[CatalogPath(d)] = trees[CatalogPath(d)]
                                   \/ (d = e /\ trees'[CatalogPath(d)] = Absent)
      BY <3>1, <3>2, DeletedOne
    <3>4. CatalogSound => ~ Recorded(e)'
      BY <2>1, <3>1, <3>2 DEF CatalogSound, digest_still_recorded, Unreadable, Recorded
    <3> QED
      BY <1>1, <2>1, <3>3, <3>4, RetainStep
  <2> QED
    BY <2>2, <2>3
<1>4. ASSUME NEW e \in ArtDigests, delete_orphan_objects(e) PROVE ArtInv'
  <2>1. RetShape' /\ ret'.todo = ret.todo \ {e} /\ rec' = rec /\ RetStay /\ ret.pc = "orphans" /\ e \in ret.todo
    BY <1>1, <1>4, GotoShape DEF delete_orphan_objects
  <2>2. /\ trees' \in [ArtPaths -> ArtTrees]
        /\ \A q \in ArtProcs : Dest(q)' = Dest(q)
        /\ \A d \in ArtDigests : trees'[CatalogPath(d)] = trees[CatalogPath(d)]
                                 \/ (d = e /\ trees'[CatalogPath(d)] = Absent)
    BY <1>4, DeletedOne DEF delete_orphan_objects
  <2>3. CatalogSound => ~ Recorded(e)' /\ \A d \in ret'.todo : ~ Recorded(d)'
    BY <2>1 DEF CatalogSound, Recorded
  <2> QED
    BY <1>1, <2>1, <2>2, <2>3, RetainStep
<1> QED
  BY <1>2, <1>3, <1>4 DEF Retain, quarantine_corrupt_records, quarantine_unverified, retain_list,
     retain_expire, orphan_list, retain_done

(* Every destination is as it was found, and nothing is recorded.          *)
LEMMA ArtStart == ASSUME ArtInit PROVE ArtInv
<1>1. \A p \in ArtProcs : Dest(p) = OldTree /\ art[p].pc = "idle"
  BY PathsApart DEF ArtInit, Dest, ArtPaths, ArtIdle
<1>2. \A d \in ArtDigests : trees[CatalogPath(d)] = Absent
  <2>1. \A d \in ArtDigests : CatalogPath(d)[2] # "dest"
    BY ArtAssumption DEF CatalogPath
  <2> QED
    BY <2>1, PathsApart DEF ArtInit, ArtPaths
<1>3. ArtTypeOK
  <2>1. trees \in [ArtPaths -> ArtTrees]
    BY DEF ArtInit, ArtPaths, ArtTrees
  <2> QED
    BY <2>1 DEF ArtInit, ArtTypeOK, Records, RetShape
<1>4. CatalogSound
  <2>1. \A d \in ArtDigests : ~ Recorded(d)
    BY ArtAssumption DEF ArtInit, Recorded
  <2>2. \A p \in ArtProcs, d \in ArtDigests : ~ Into(p, d, {"verify", "end"}) /\ ~ Into(p, d, {"in", "verify"})
    BY <1>1 DEF Into
  <2> QED
    BY <1>2, <2>1, <2>2, ArtAssumption DEF CatalogSound, ArtInit
<1>5. \A p \in ArtProcs : DestSound(p)
  BY <1>1 DEF DestSound, DestOK, Copying
<1> QED
  BY <1>3, <1>4, <1>5 DEF ArtInv

(* Every step keeps the invariant.                                         *)
LEMMA ArtStep == ASSUME ArtInv, [ArtNext]_art_vars PROVE ArtInv'
<1>1. ASSUME NEW p \in ArtProcs, ArtCommand(p) PROVE ArtInv'
  BY <1>1, ArtBeginSound, MaterializeSound, PublishCheckoutSound, FetchFailsSound, ConflictSound,
     StageSound, BackupSound, RenameTreeSound, VerifySound, EndSound, ArtCrashSound DEF ArtCommand
<1>2. CASE UNCHANGED art_vars
  BY <1>2 DEF art_vars, ArtInv, ArtTypeOK, RetShape, DestSound, Dest, CatalogSound, Recorded, Covered, Into, To
<1> QED
  BY <1>1, <1>2, RetainSound, RotSound DEF ArtNext

(* The invariant implies what the catalog promises.                        *)
LEMMA ArtVerified == ASSUME ArtInv PROVE ArtifactsVerify
<1>1. DeliveredVerified
  BY DEF ArtInv, DestSound, DestOK, DeliveredVerified, Dest
<1>2. RecordedObjectVerifies
  BY DEF ArtInv, CatalogSound, RecordedObjectVerifies, Recorded, verify_tree, Covered, Into
<1> QED
  BY <1>1, <1>2 DEF ArtifactsVerify

(* Whatever retention, other commands, crashes and damage do: what a       *)
(* materialization delivers has the record's digest, a command that fails  *)
(* leaves the destination as it was, and the object of every record        *)
(* verifies unless it was damaged or published while retention ran.        *)
THEOREM ArtifactsVerified == ArtSpec => []ArtifactsVerify
<1>1. ArtInit => ArtInv
  BY ArtStart
<1>2. ArtInv /\ [ArtNext]_art_vars => ArtInv'
  BY ArtStep
<1>3. ArtInv => ArtifactsVerify
  BY ArtVerified
<1> QED
  BY <1>1, <1>2, <1>3, PTL DEF ArtSpec

(* The dirty files of a checkout, captured and materialized                *)
(*                                                                         *)
(* SnapInv follows the files from the inventory to the destination: what   *)
(* has been staged is what one of the files of its path says, what has     *)
(* been moved is what was staged, what no file names is still as in HEAD,  *)
(* and a verification looked at all of it.                                 *)

(* The files of a path that are to be there, and whether a value is that   *)
(* of one of them.                                                         *)
WrittenPath(p) == \E i \in DOMAIN sn_files : sn_files[i].path = p /\ sn_files[i].value # Gone
NamedPath(p) == \E i \in DOMAIN sn_files : sn_files[i].path = p
HoldsOne(value, p, n) ==
    \E i \in 1..n : /\ sn_files[i].path = p /\ sn_files[i].value # Gone
                    /\ value.kind = sn_files[i].value.kind /\ value.mode = sn_files[i].value.mode
                    /\ value.kind = "symlink" => value = sn_files[i].value

FileTexts == SnapTexts \cup {"target", ""}
AnyValues == {Gone} \cup {RegularFile(t, m) : t \in FileTexts, m \in {"100644", "100755"}}
                    \cup {SymbolicLink(t) : t \in {"here", "none"}}
SnapEntries == [path : SnapPaths, value : SnapValues]
SnapFiles == [path : SnapPaths, value : SnapValues, bytes : FileTexts]
SnapRecords == [code : {"R"}, fields : SnapPaths \X SnapPaths]
               \cup [code : {"D", "M", "??"}, fields : {<<p>> : p \in SnapPaths}]

SnapTypeOK ==
    /\ sn_head \in [SnapPaths -> SnapValues] /\ sn_index \in [SnapPaths -> SnapValues]
    /\ sn_work \in [SnapPaths -> SnapValues] /\ sn_quiet \in BOOLEAN
    /\ sn_records \in Seq(SnapRecords) /\ sn_entries \in Seq(SnapEntries)
    /\ sn_expected \in Seq(SnapEntries) /\ sn_files \in Seq(SnapFiles)
    /\ sn_stage \in [SnapPaths -> AnyValues] /\ sn_dest \in [SnapPaths -> AnyValues]
    /\ sn_staged \in 0..Len(sn_files) /\ sn_left \in SUBSET SnapPaths

(* What has been staged of each path is what a file of it says.            *)
StagingOK ==
    /\ sn_pc \notin {"remove", "activate", "verify", "verified", "failed"} => sn_dest = sn_head
    /\ sn_pc \in {"idle", "identify", "status", "capture"} =>
          sn_staged = 0 /\ sn_stage = [p \in SnapPaths |-> Gone]
    /\ sn_pc \in {"idle", "identify", "status"} => sn_files = <<>>
    /\ sn_pc = "capture" => Len(sn_files) <= Len(sn_entries)
    /\ \A i \in 1..sn_staged : sn_head[sn_files[i].path].kind # "symlink"
    /\ sn_pc = "stage" => \A p \in SnapPaths :
        /\ sn_stage[p] = Gone =>
             \A i \in 1..sn_staged : sn_files[i].path = p => sn_files[i].value = Gone
        /\ sn_stage[p] # Gone => HoldsOne(sn_stage[p], p, sn_staged)

(* What is at the destination, while and after the staged paths are moved. *)
MovedOK ==
    sn_pc \in {"remove", "activate", "verify", "verified"} =>
        /\ sn_staged = Len(sn_files)
        /\ \A p \in SnapPaths :
            /\ sn_pc = "remove" /\ p \in sn_left => NamedPath(p) /\ sn_dest[p] = sn_head[p]
            /\ sn_pc # "remove" => (p \in sn_left <=> sn_stage[p] # Gone)
            /\ sn_pc \in {"verify", "verified"} => p \notin sn_left
            /\ sn_stage[p] # Gone => WrittenPath(p)
            /\ WrittenPath(p) => HoldsOne(IF sn_pc = "remove" \/ p \in sn_left
                                          THEN sn_stage[p] ELSE sn_dest[p], p, Len(sn_files))
            /\ NamedPath(p) /\ ~WrittenPath(p) =>
                  sn_dest[p] = Gone \/ (sn_pc = "remove" /\ p \in sn_left)
            /\ ~NamedPath(p) => sn_dest[p] = sn_head[p]

(* The inventory of an undisturbed checkout without renames: whatever      *)
(* differs from HEAD is in it, or has yet to be parsed.                    *)
Undisturbed == sn_quiet /\ MaybeRenamed = {}
NamesWork(e) == e = entry_for_worktree(e.path) \/ (e.value = Gone /\ ~Exists(sn_work[e.path]))
RecordOf(r, p) == r.code # "R" /\ r.fields = <<p>>
                  /\ (r.code = "D" => Exists(sn_work[p]) \/ sn_work[p] = Gone)

InventoryOK ==
    Undisturbed =>
        /\ sn_pc = "identify" =>
            /\ \A i \in DOMAIN sn_records : sn_records[i].code # "R"
            /\ \A i \in DOMAIN sn_entries : NamesWork(sn_entries[i])
            /\ \A p \in SnapPaths : sn_work[p] # sn_head[p] =>
                  \/ \E i \in DOMAIN sn_entries : sn_entries[i] = entry_for_worktree(p)
                  \/ \E i \in DOMAIN sn_records : RecordOf(sn_records[i], p)
        /\ sn_pc \in {"status", "capture", "stage", "remove", "activate", "verify", "verified"} =>
            /\ \A i \in DOMAIN sn_expected : NamesWork(sn_expected[i])
            /\ \A p \in SnapPaths : sn_work[p] # sn_head[p] =>
                  \E i \in DOMAIN sn_expected : sn_expected[i] = entry_for_worktree(p)

(* What a verification says.                                               *)
VerifiedOK ==
    sn_pc = "verified" =>
        dirty_files_digest(sn_files) = digest_source_entries(sn_expected) /\ AllVerify

SnapInv == SnapTypeOK /\ StagingOK /\ MovedOK /\ InventoryOK /\ VerifiedOK

(* A value is gone, a file or a symbolic link, and each is recognized.     *)
LEMMA ValueFacts ==
    /\ SnapValues \subseteq AnyValues /\ Gone \in SnapValues
    /\ \A v \in AnyValues : /\ v.kind \in {"deleted", "file", "symlink"}
                            /\ v.kind = "deleted" <=> v = Gone
                            /\ v.kind = "file" => v = RegularFile(v.payload, v.mode)
                                                  /\ v.mode \in {"100644", "100755"}
                            /\ Exists(v) => v # Gone
                            /\ ~Exists(v) /\ v # Gone => v.kind = "symlink"
  <1>1. \A t, m : /\ RegularFile(t, m).kind = "file" /\ RegularFile(t, m).payload = t
                  /\ RegularFile(t, m).mode = m
    BY DEF RegularFile
  <1>2. \A t : SymbolicLink(t).kind = "symlink"
    BY DEF SymbolicLink
  <1>3. Gone.kind = "deleted"
    BY DEF Gone
  <1>4. SnapValues \subseteq AnyValues /\ Gone \in SnapValues
    <2>1. \A t \in SnapTexts, m \in {"100644", "100755"} : RegularFile(t, m) \in AnyValues
      <3>1. \A t \in SnapTexts : t \in FileTexts
        BY DEF FileTexts
      <3>2. ASSUME NEW t \in FileTexts, NEW m \in {"100644", "100755"}
            PROVE  RegularFile(t, m) \in {RegularFile(x, y) : x \in FileTexts, y \in {"100644", "100755"}}
        BY SMT
      <3>3. {RegularFile(x, y) : x \in FileTexts, y \in {"100644", "100755"}} \subseteq AnyValues
        BY DEF AnyValues
      <3> QED
        BY <3>1, <3>2, <3>3
    <2>2. \A t \in {"here", "none"} : SymbolicLink(t) \in AnyValues
      BY DEF AnyValues
    <2>3. Gone \in AnyValues /\ Gone \in SnapValues
      BY DEF AnyValues, SnapValues
    <2> QED
      BY <2>1, <2>2, <2>3 DEF SnapValues
  <1>5. ASSUME NEW v \in AnyValues
        PROVE  /\ v.kind \in {"deleted", "file", "symlink"}
               /\ v.kind = "deleted" <=> v = Gone
               /\ v.kind = "file" => v = RegularFile(v.payload, v.mode)
                                     /\ v.mode \in {"100644", "100755"}
               /\ Exists(v) => v # Gone
               /\ ~Exists(v) /\ v # Gone => v.kind = "symlink"
    <2>1. CASE v = Gone
      BY <1>2, <1>3, <2>1 DEF Exists
    <2>2. ASSUME NEW t \in FileTexts, NEW m \in {"100644", "100755"}, v = RegularFile(t, m)
          PROVE  v.kind = "file" /\ v # Gone /\ v = RegularFile(v.payload, v.mode) /\ v.mode = m
      BY <1>1, <1>3, <2>2
    <2>3. ASSUME NEW t \in {"here", "none"}, v = SymbolicLink(t)
          PROVE  v.kind = "symlink" /\ v # Gone
      BY <1>2, <1>3, <2>3
    <2> QED
      BY <2>1, <2>2, <2>3 DEF AnyValues, Exists
  <1> QED
    BY <1>4, <1>5

(* The order that SetToSeq chooses has every member of a finite set.       *)
LEMMA SomeOrder ==
    ASSUME NEW S, IsFiniteSet(S)
    PROVE  SetToSeq(S) \in Seq(S) /\ \A x \in S : \E i \in DOMAIN SetToSeq(S) : SetToSeq(S)[i] = x
  <1> DEFINE D == 1..Cardinality(S)
             q == SetToSeq(S)
  <1>1. Cardinality(S) \in Nat /\ \E f \in Bijection(D, S) : TRUE
    BY FS_CardinalityType DEF ExistsBijection
  <1>2. PICK f \in Bijection(D, S) : TRUE
    BY <1>1
  <1>3. f \in [D -> S] /\ IsInjective(f)
    BY <1>2 DEF Bijection, Injection, IsInjective
  <1>4. q \in [D -> S] /\ IsInjective(q)
    BY <1>3 DEF SetToSeq
  <1> HIDE DEF q
  <1>5. q \in Injection(D, S)
    BY <1>4 DEF Injection, IsInjective
  <1>6. IsFiniteSet(D) /\ Cardinality(D) = Cardinality(S)
    <2>1. 1 \in Int /\ Cardinality(S) \in Int
      BY <1>1
    <2>2. Cardinality(D) = IF 1 > Cardinality(S) THEN 0 ELSE Cardinality(S) - 1 + 1
      BY <2>1, FS_Interval
    <2>3. IsFiniteSet(D)
      BY <2>1, FS_Interval
    <2> QED
      BY <1>1, <2>2, <2>3
  <1>7. q \in Surjection(D, S)
    BY <1>5, <1>6, FS_Injection
  <1>8. \A x \in S : \E i \in D : q[i] = x
    BY <1>7 DEF Surjection
  <1>9. DOMAIN q = D /\ q \in Seq(S)
    BY <1>1, <1>4
  <1> QED
    BY <1>8, <1>9 DEF q

(* The records of git status are well formed and finitely many.            *)
LEMMA StatusFacts ==
    ASSUME SnapTypeOK, NEW pairs \in RenamePairings
    PROVE  /\ StatusRecords(pairs) \in Seq(SnapRecords)
           /\ \A r \in TrackedRecords(pairs) \cup UntrackedRecords :
                 \E i \in DOMAIN StatusRecords(pairs) : StatusRecords(pairs)[i] = r
           /\ MaybeRenamed = {} => pairs = {} /\ \A i \in DOMAIN StatusRecords(pairs) :
                                                    StatusRecords(pairs)[i].code # "R"
  <1> DEFINE moved == RenameRecords(pairs)
             tracked == TrackedRecords(pairs)
             untracked == UntrackedRecords
             s == SetToSeq(moved \cup tracked)
             t == SetToSeq(untracked)
  <1>1. pairs \subseteq SnapPaths \X SnapPaths /\ (MaybeRenamed = {} => pairs = {})
    BY DEF RenamePairings, MaybeRenamed
  <1>2. IsFiniteSet(SnapPaths) /\ IsFiniteSet(pairs)
    BY <1>1, SnapAssumption, FS_Product, FS_Subset
  <1>3. IsFiniteSet(moved)
    <2> DEFINE f == [pair \in pairs |-> [code |-> "R", fields |-> <<pair[2], pair[1]>>]]
    <2>1. f \in Surjection(pairs, moved)
      BY DEF RenameRecords, Surjection
    <2> HIDE DEF f, moved
    <2> QED
      BY <1>2, <2>1, FS_Surjection
  <1>4. IsFiniteSet(tracked)
    <2> DEFINE T == {q \in SnapPaths : /\ \A pair \in pairs : q # pair[1] /\ q # pair[2]
                                       /\ \/ sn_head[q] # sn_index[q]
                                          \/ sn_index[q] # Gone /\ sn_index[q] # sn_work[q]}
               f == [p \in T |-> [code |-> IF DroppedPath(p) THEN "D" ELSE "M", fields |-> <<p>>]]
    <2>1. f \in Surjection(T, tracked)
      BY DEF TrackedRecords, Surjection
    <2>2. IsFiniteSet(T)
      <3>1. T \subseteq SnapPaths
        OBVIOUS
      <3> HIDE DEF T
      <3> QED
        BY <1>2, <3>1, FS_Subset
    <2> HIDE DEF f, T, tracked
    <2> QED
      BY <2>1, <2>2, FS_Surjection
  <1>5. IsFiniteSet(untracked)
    <2> DEFINE T == {q \in SnapPaths : sn_index[q] = Gone /\ sn_work[q] # Gone}
               f == [p \in T |-> [code |-> "??", fields |-> <<p>>]]
    <2>1. f \in Surjection(T, untracked)
      BY DEF UntrackedRecords, Surjection
    <2>2. IsFiniteSet(T)
      <3>1. T \subseteq SnapPaths
        OBVIOUS
      <3> HIDE DEF T
      <3> QED
        BY <1>2, <3>1, FS_Subset
    <2> HIDE DEF f, T, untracked
    <2> QED
      BY <2>1, <2>2, FS_Surjection
  <1>7. moved \subseteq SnapRecords
    <2>1. \A pair \in pairs : <<pair[2], pair[1]>> \in SnapPaths \X SnapPaths
      BY <1>1
    <2> QED
      BY <2>1 DEF RenameRecords, SnapRecords
  <1>8. tracked \subseteq SnapRecords /\ \A r \in tracked : r.code # "R"
    BY DEF TrackedRecords, SnapRecords
  <1>9. untracked \subseteq SnapRecords /\ \A r \in untracked : r.code # "R"
    BY DEF UntrackedRecords, SnapRecords
  <1>10. MaybeRenamed = {} => moved = {}
    BY <1>1 DEF RenameRecords
  <1> HIDE DEF moved, tracked, untracked
  <1>11. /\ s \in Seq(moved \cup tracked) /\ t \in Seq(untracked)
         /\ \A r \in tracked : \E i \in DOMAIN s : s[i] = r
         /\ \A r \in untracked : \E i \in DOMAIN t : t[i] = r
    BY <1>3, <1>4, <1>5, SomeOrder, FS_Union
  <1>12. StatusRecords(pairs) = s \o t
    BY DEF StatusRecords, moved, tracked, untracked
  <1> HIDE DEF s, t
  <1>13. s \in Seq(SnapRecords) /\ t \in Seq(SnapRecords)
    BY <1>7, <1>8, <1>9, <1>11, WiderSeq
  <1>14. /\ s \o t \in Seq(SnapRecords) /\ DOMAIN (s \o t) = 1..(Len(s) + Len(t))
         /\ DOMAIN s = 1..Len(s) /\ DOMAIN t = 1..Len(t) /\ Len(s) \in Nat /\ Len(t) \in Nat
         /\ \A i \in 1..(Len(s) + Len(t)) : (s \o t)[i] = IF i <= Len(s) THEN s[i] ELSE t[i - Len(s)]
    BY <1>13, ConcatProperties
  <1>15. \A i \in DOMAIN s : i \in DOMAIN (s \o t) /\ (s \o t)[i] = s[i]
    BY <1>14
  <1>16. \A i \in DOMAIN t : i + Len(s) \in DOMAIN (s \o t) /\ (s \o t)[i + Len(s)] = t[i]
    <2> SUFFICES ASSUME NEW i \in DOMAIN t
                 PROVE  i + Len(s) \in DOMAIN (s \o t) /\ (s \o t)[i + Len(s)] = t[i]
      OBVIOUS
    <2>1. i + Len(s) \in 1..(Len(s) + Len(t)) /\ ~(i + Len(s) <= Len(s)) /\ (i + Len(s)) - Len(s) = i
      BY <1>14
    <2> QED
      BY <1>14, <2>1
  <1>17. \A r \in tracked \cup untracked : \E i \in DOMAIN (s \o t) : (s \o t)[i] = r
    BY <1>11, <1>15, <1>16
  <1>18. MaybeRenamed = {} => \A i \in DOMAIN (s \o t) : (s \o t)[i].code # "R"
    <2> SUFFICES ASSUME MaybeRenamed = {}, NEW i \in DOMAIN (s \o t) PROVE (s \o t)[i].code # "R"
      OBVIOUS
    <2>1. CASE i <= Len(s)
      BY <1>8, <1>10, <1>11, <1>14, <2>1
    <2>2. CASE ~(i <= Len(s))
      <3>1. i - Len(s) \in 1..Len(t)
        BY <1>14, <2>2
      <3> QED
        BY <1>9, <1>11, <1>14, <2>2, <3>1
    <2> QED
      BY <2>1, <2>2
  <1> QED
    BY <1>1, <1>12, <1>14, <1>17, <1>18 DEF tracked, untracked

(* A record that is no rename adds one entry: what the path holds, or a    *)
(* tombstone.                                                              *)
LEMMA EntryFacts ==
    ASSUME SnapTypeOK, NEW r \in SnapRecords
    PROVE  /\ EntriesOf(r) \in Seq(SnapEntries)
           /\ r.code # "R" => \E e \in SnapEntries : EntriesOf(r) = <<e>> /\ NamesWork(e)
           /\ \A p \in SnapPaths : RecordOf(r, p) => EntriesOf(r) = <<entry_for_worktree(p)>>
  <1>1. \A p \in SnapPaths : /\ tombstone(p) \in SnapEntries /\ entry_for_worktree(p) \in SnapEntries
                             /\ tombstone(p).path = p /\ entry_for_worktree(p).path = p
                             /\ tombstone(p).value = Gone /\ entry_for_worktree(p).value = sn_work[p]
    BY ValueFacts DEF SnapTypeOK, SnapEntries, tombstone, entry_for_worktree
  <1>2. CASE r.code = "R"
    <2>1. r.fields[1] \in SnapPaths /\ r.fields[2] \in SnapPaths
      BY <1>2 DEF SnapRecords
    <2>2. EntriesOf(r) = <<tombstone(r.fields[1]), entry_for_worktree(r.fields[2])>>
      BY <1>2 DEF EntriesOf
    <2> QED
      BY <1>1, <1>2, <2>1, <2>2 DEF RecordOf
  <1>3. CASE r.code # "R"
    <2>1. PICK p \in SnapPaths : r.fields = <<p>>
      BY <1>3 DEF SnapRecords
    <2>2. r.fields[1] = p
      BY <2>1
    <2>3. EntriesOf(r) = IF r.code = "D" /\ ~Exists(sn_work[p]) THEN <<tombstone(p)>>
                         ELSE <<entry_for_worktree(p)>>
      BY <1>3, <2>2 DEF EntriesOf
    <2>4. NamesWork(entry_for_worktree(p)) /\ (~Exists(sn_work[p]) => NamesWork(tombstone(p)))
      BY <1>1 DEF NamesWork
    <2>5. sn_work[p] = Gone => tombstone(p) = entry_for_worktree(p)
      BY DEF tombstone, entry_for_worktree
    <2>6. \A q \in SnapPaths : RecordOf(r, q) => q = p /\ (r.code = "D" => Exists(sn_work[p]) \/ sn_work[p] = Gone)
      <3> SUFFICES ASSUME NEW q \in SnapPaths, RecordOf(r, q)
                   PROVE  q = p /\ (r.code = "D" => Exists(sn_work[p]) \/ sn_work[p] = Gone)
        OBVIOUS
      <3>1. <<q>> = <<p>>
        BY <2>1 DEF RecordOf
      <3> QED
        BY <3>1 DEF RecordOf
    <2> QED
      BY <1>1, <1>3, <2>3, <2>4, <2>5, <2>6
  <1> QED
    BY <1>2, <1>3

(* The user disturbs the identity, unless the command has not begun.       *)
LEMMA SnapEdits ==
    ASSUME SnapInv, UserEdit
    PROVE  SnapInv'
  <1> USE DEF SnapInv
  <1>1. /\ sn_pc \in {"idle", "identify", "status", "capture"} /\ sn_pc' = sn_pc
        /\ sn_quiet' = (sn_quiet /\ sn_pc = "idle")
        /\ UNCHANGED <<sn_head, sn_records, sn_entries, sn_expected, sn_files, sn_stage, sn_staged,
                       sn_left, sn_dest>>
    BY DEF UserEdit, sn_receiver
  <1>2. sn_work' \in [SnapPaths -> SnapValues] /\ sn_index' \in [SnapPaths -> SnapValues]
    <2>1. sn_work \in [SnapPaths -> SnapValues] /\ sn_index \in [SnapPaths -> SnapValues] /\ Gone \in SnapValues
      BY ValueFacts DEF SnapTypeOK
    <2> QED
      BY <2>1 DEF UserEdit
  <1>3. SnapTypeOK'
    BY <1>1, <1>2 DEF SnapTypeOK
  <1>4. StagingOK'
    BY <1>1 DEF StagingOK, HoldsOne
  <1>5. MovedOK' /\ VerifiedOK'
    BY <1>1 DEF MovedOK, VerifiedOK
  <1>6. InventoryOK'
    BY <1>1 DEF InventoryOK, Undisturbed
  <1> QED
    BY <1>3, <1>4, <1>5, <1>6

(* git status is asked.                                                    *)
LEMMA SnapAsks ==
    ASSUME SnapInv, dirty_entries
    PROVE  SnapInv'
  <1> USE DEF SnapInv
  <1>1. /\ sn_pc \in {"idle", "status"} /\ sn_pc' = IF sn_pc = "idle" THEN "identify" ELSE "capture"
        /\ sn_entries' = <<>>
        /\ UNCHANGED <<sn_head, sn_index, sn_work, sn_expected, sn_files, sn_stage, sn_staged,
                       sn_left, sn_dest>>
    BY DEF dirty_entries, sn_receiver, sn_tree
  <1>2. \/ sn_quiet' = sn_quiet /\ \E pairs \in RenamePairings : sn_records' = StatusRecords(pairs)
        \/ sn_quiet' = FALSE /\ sn_records' = <<>>
    BY DEF dirty_entries
  <1>3. SnapTypeOK'
    <2>1. <<>> \in Seq(SnapRecords) /\ <<>> \in Seq(SnapEntries)
      OBVIOUS
    <2>2. \A pairs \in RenamePairings : StatusRecords(pairs) \in Seq(SnapRecords)
      BY StatusFacts
    <2>3. sn_records' \in Seq(SnapRecords)
      BY <1>2, <2>1, <2>2
    <2>4. sn_entries' \in Seq(SnapEntries)
      BY <1>1, <2>1
    <2>5. sn_quiet' \in BOOLEAN
      BY <1>2 DEF SnapTypeOK
    <2> QED
      BY <1>1, <2>3, <2>4, <2>5 DEF SnapTypeOK
  <1>4. StagingOK'
    <2>1. sn_pc = "status" => sn_files = <<>> /\ sn_entries' = <<>> /\ Len(sn_files) <= Len(sn_entries')
      BY <1>1 DEF StagingOK
    <2> QED
      BY <1>1, <2>1 DEF StagingOK, HoldsOne
  <1>5. MovedOK' /\ VerifiedOK'
    BY <1>1 DEF MovedOK, VerifiedOK
  <1>6. MaybeRenamed' = MaybeRenamed
    BY <1>1 DEF MaybeRenamed
  <1>7. ASSUME Undisturbed', sn_pc = "status"
        PROVE  InventoryOK'
    BY <1>1, <1>2, <1>6, <1>7 DEF InventoryOK, Undisturbed, NamesWork, entry_for_worktree
  <1>8. ASSUME Undisturbed', sn_pc = "idle"
        PROVE  InventoryOK'
    <2>1. PICK pairs \in RenamePairings : sn_records' = StatusRecords(pairs)
      BY <1>2, <1>8 DEF Undisturbed
    <2>2. pairs = {} /\ \A i \in DOMAIN sn_records' : sn_records'[i].code # "R"
      BY <1>6, <1>8, <2>1, StatusFacts DEF Undisturbed
    <2>3. ASSUME NEW p \in SnapPaths, sn_work[p] # sn_head[p]
          PROVE  \E r \in TrackedRecords(pairs) \cup UntrackedRecords : RecordOf(r, p)
      <3>1. CASE sn_index[p] = Gone /\ sn_work[p] # Gone
        <4>1. [code |-> "??", fields |-> <<p>>] \in UntrackedRecords
          BY <3>1 DEF UntrackedRecords
        <4>2. RecordOf([code |-> "??", fields |-> <<p>>], p)
          BY DEF RecordOf
        <4> QED
          BY <4>1, <4>2
      <3>2. CASE ~(sn_index[p] = Gone /\ sn_work[p] # Gone)
        <4> DEFINE r == [code |-> IF DroppedPath(p) THEN "D" ELSE "M", fields |-> <<p>>]
        <4>1. sn_head[p] # sn_index[p] \/ (sn_index[p] # Gone /\ sn_index[p] # sn_work[p])
          BY <2>3, <3>2
        <4>2. r \in TrackedRecords(pairs)
          BY <2>2, <4>1 DEF TrackedRecords
        <4>3. DroppedPath(p) => sn_work[p] = Gone
          BY <3>2 DEF DroppedPath
        <4>4. RecordOf(r, p)
          BY <4>3 DEF RecordOf
        <4> QED
          BY <4>2, <4>4
      <3> QED
        BY <3>1, <3>2
    <2>4. \A p \in SnapPaths : sn_work[p] # sn_head[p] =>
             \E i \in DOMAIN sn_records' : RecordOf(sn_records'[i], p)
      BY <2>1, <2>3, StatusFacts
    <2>5. sn_pc' = "identify" /\ DOMAIN sn_entries' = {}
      BY <1>1, <1>8
    <2> QED
      BY <1>1, <2>2, <2>4, <2>5 DEF InventoryOK, RecordOf
  <1> QED
    BY <1>1, <1>3, <1>4, <1>5, <1>7, <1>8 DEF InventoryOK

(* One record is parsed.                                                   *)
LEMMA SnapParses ==
    ASSUME SnapInv, parse_porcelain
    PROVE  SnapInv'
  <1> USE DEF SnapInv
  <1> DEFINE r == Head(sn_records)
             es == EntriesOf(r)
  <1>1. /\ sn_pc \in {"identify", "capture"} /\ sn_records # <<>>
        /\ sn_entries' = sn_entries \o es /\ sn_records' = Tail(sn_records)
        /\ UNCHANGED <<sn_head, sn_index, sn_work, sn_quiet, sn_pc, sn_expected, sn_files, sn_stage,
                       sn_staged, sn_left, sn_dest>>
    BY DEF parse_porcelain, sn_receiver, sn_tree
  <1>2. /\ r \in SnapRecords /\ Tail(sn_records) \in Seq(SnapRecords)
        /\ r = sn_records[1] /\ DOMAIN sn_records = 1..Len(sn_records) /\ Len(sn_records) \in Nat
        /\ DOMAIN Tail(sn_records) = 1..(Len(sn_records) - 1)
        /\ \A i \in 1..(Len(sn_records) - 1) : Tail(sn_records)[i] = sn_records[i + 1]
    <2>1. sn_records \in Seq(SnapRecords)
      BY DEF SnapTypeOK
    <2> QED
      BY <1>1, <2>1
  <1>3. es \in Seq(SnapEntries)
    BY <1>2, EntryFacts
  <1>4. sn_entries \in Seq(SnapEntries)
    BY DEF SnapTypeOK
  <1>5. /\ sn_entries \o es \in Seq(SnapEntries)
        /\ DOMAIN (sn_entries \o es) = 1..(Len(sn_entries) + Len(es))
        /\ Len(sn_entries) \in Nat /\ Len(es) \in Nat /\ DOMAIN sn_entries = 1..Len(sn_entries)
        /\ \A i \in 1..(Len(sn_entries) + Len(es)) : (sn_entries \o es)[i] =
              IF i <= Len(sn_entries) THEN sn_entries[i] ELSE es[i - Len(sn_entries)]
    <2> HIDE DEF es
    <2> QED
      BY <1>3, <1>4, ConcatProperties
  <1>6. SnapTypeOK'
    BY <1>1, <1>2, <1>5 DEF SnapTypeOK
  <1>7. StagingOK'
    <2>1. Len(sn_entries \o es) = Len(sn_entries) + Len(es)
      <3> HIDE DEF es
      <3> QED
        BY <1>3, <1>4, ConcatProperties
    <2>2. \A a, b, c \in Nat : a <= b => a <= b + c
      OBVIOUS
    <2>3. Len(sn_files) \in Nat
      BY DEF SnapTypeOK
    <2>4. sn_pc = "capture" => Len(sn_files) <= Len(sn_entries')
      <3> HIDE DEF es
      <3> QED
        BY <1>1, <1>5, <2>1, <2>2, <2>3 DEF StagingOK
    <2> QED
      BY <1>1, <2>4 DEF StagingOK, HoldsOne
  <1>8. MovedOK' /\ VerifiedOK'
    BY <1>1 DEF MovedOK, VerifiedOK
  <1>9. MaybeRenamed' = MaybeRenamed
    BY <1>1 DEF MaybeRenamed
  <1>10. ASSUME sn_pc = "identify", Undisturbed
         PROVE  InventoryOK'
    <2>1. r.code # "R"
      BY <1>1, <1>2, <1>10 DEF InventoryOK
    <2>2. PICK e \in SnapEntries : es = <<e>> /\ NamesWork(e)
      BY <1>2, <2>1, EntryFacts
    <2>3. Len(es) = 1 /\ es[1] = e
      BY <2>2
    <2> HIDE DEF es
    <2>4. /\ DOMAIN sn_entries' = 1..(Len(sn_entries) + 1)
          /\ \A i \in 1..Len(sn_entries) : sn_entries'[i] = sn_entries[i]
          /\ sn_entries'[Len(sn_entries) + 1] = e
      <3>1. DOMAIN sn_entries' = 1..(Len(sn_entries) + 1)
        BY <1>1, <1>5, <2>3
      <3>2. \A i \in 1..Len(sn_entries) : sn_entries'[i] = sn_entries[i]
        BY <1>1, <1>5
      <3>3. /\ Len(sn_entries) + 1 \in 1..(Len(sn_entries) + Len(es)) /\ ~(Len(sn_entries) + 1 <= Len(sn_entries))
            /\ (Len(sn_entries) + 1) - Len(sn_entries) = 1
        BY <1>5, <2>3
      <3> QED
        BY <1>1, <1>5, <2>3, <3>1, <3>2, <3>3
    <2>5. \A i \in 1..(Len(sn_entries) + 1) : i \in 1..Len(sn_entries) \/ i = Len(sn_entries) + 1
      BY <1>5
    <2>6. \A i \in DOMAIN sn_entries' : NamesWork(sn_entries'[i])
      BY <1>5, <1>10, <2>2, <2>4, <2>5 DEF InventoryOK
    <2>7. \A i \in DOMAIN sn_records' : sn_records'[i].code # "R"
      <3> SUFFICES ASSUME NEW i \in 1..(Len(sn_records) - 1) PROVE sn_records[i + 1].code # "R"
        BY <1>1, <1>2
      <3>1. i + 1 \in 1..Len(sn_records)
        BY <1>2
      <3> QED
        BY <1>2, <1>10, <3>1 DEF InventoryOK
    <2>8. ASSUME NEW p \in SnapPaths, sn_work[p] # sn_head[p]
          PROVE  \/ \E i \in DOMAIN sn_entries' : sn_entries'[i] = entry_for_worktree(p)
                 \/ \E i \in DOMAIN sn_records' : RecordOf(sn_records'[i], p)
      <3>1. CASE \E i \in DOMAIN sn_entries : sn_entries[i] = entry_for_worktree(p)
        <4>1. PICK i \in 1..Len(sn_entries) : sn_entries[i] = entry_for_worktree(p)
          BY <1>5, <3>1
        <4>2. i \in 1..(Len(sn_entries) + 1)
          BY <1>5
        <4> QED
          BY <2>4, <4>1, <4>2
      <3>2. ASSUME NEW i \in DOMAIN sn_records, RecordOf(sn_records[i], p)
            PROVE  \/ \E j \in DOMAIN sn_entries' : sn_entries'[j] = entry_for_worktree(p)
                   \/ \E j \in DOMAIN sn_records' : RecordOf(sn_records'[j], p)
        <4>1. CASE i = 1
          <5>1. es = <<entry_for_worktree(p)>>
            BY <1>2, <3>2, <4>1, EntryFacts DEF es
          <5>2. e = entry_for_worktree(p)
            BY <2>2, <5>1
          <5>3. Len(sn_entries) + 1 \in 1..(Len(sn_entries) + 1)
            BY <1>5
          <5> QED
            BY <2>4, <5>2, <5>3
        <4>2. CASE i # 1
          <5>1. i - 1 \in 1..(Len(sn_records) - 1) /\ (i - 1) + 1 = i
            BY <1>2, <4>2
          <5> QED
            BY <1>1, <1>2, <3>2, <5>1
        <4> QED
          BY <4>1, <4>2
      <3> QED
        BY <1>10, <2>8, <3>1, <3>2 DEF InventoryOK
    <2> QED
      BY <1>1, <1>9, <1>10, <2>6, <2>7, <2>8 DEF InventoryOK, NamesWork, RecordOf, entry_for_worktree
  <1>11. ASSUME sn_pc # "identify" \/ ~Undisturbed
         PROVE  InventoryOK'
    BY <1>1, <1>9, <1>11 DEF InventoryOK, Undisturbed, NamesWork, entry_for_worktree
  <1> QED
    BY <1>6, <1>7, <1>8, <1>10, <1>11

(* The identity is computed, and the bytes of a file are read.             *)
LEMMA SnapCaptures ==
    ASSUME SnapInv, dirty_snapshot_id \/ capture_dirty_files
    PROVE  SnapInv'
  <1> USE DEF SnapInv
  <1>1. /\ sn_pc \in {"identify", "capture"} /\ sn_records = <<>>
        /\ UNCHANGED <<sn_head, sn_index, sn_work, sn_quiet, sn_records, sn_entries, sn_stage,
                       sn_staged, sn_left, sn_dest>>
    BY DEF dirty_snapshot_id, capture_dirty_files, sn_receiver, sn_tree
  <1>2. MaybeRenamed' = MaybeRenamed
    BY <1>1 DEF MaybeRenamed
  <1>3. sn_staged = 0 /\ sn_stage = [p \in SnapPaths |-> Gone] /\ sn_dest = sn_head /\ 1..0 = {}
    BY <1>1 DEF StagingOK
  <1>4. /\ dirty_snapshot_id => /\ sn_pc' = IF sn_entries = <<>> THEN "clean" ELSE "status"
                                /\ sn_files' = sn_files /\ sn_files = <<>>
                                /\ sn_pc = "identify" /\ sn_expected' = sn_entries
        /\ capture_dirty_files => /\ sn_pc' \in {"capture", "stage", "failed"} /\ sn_pc = "capture"
                                  /\ sn_expected' = sn_expected
    BY DEF dirty_snapshot_id, capture_dirty_files, StagingOK
  <1>5. /\ sn_files \in Seq(SnapFiles) /\ sn_entries \in Seq(SnapEntries) /\ sn_expected \in Seq(SnapEntries)
        /\ Len(sn_files) \in Nat /\ Len(sn_entries) \in Nat /\ DOMAIN sn_entries = 1..Len(sn_entries)
    BY DEF SnapTypeOK
  <1>6. ASSUME capture_dirty_files
        PROVE  /\ sn_files' \in Seq(SnapFiles) /\ Len(sn_files') \in Nat
               /\ sn_pc' = "capture" => Len(sn_files') <= Len(sn_entries)
    <2> DEFINE entry == sn_entries[Len(sn_files) + 1]
               bytes == IF entry.value.kind = "file" THEN ReadThrough(sn_work[entry.path]) ELSE ""
               file == [path |-> entry.path, value |-> entry.value, bytes |-> bytes]
    <2>1. \/ sn_files' = sn_files /\ sn_pc' # "capture"
          \/ /\ Len(sn_files) # Len(sn_entries) /\ sn_files' = Append(sn_files, file)
      BY <1>6 DEF capture_dirty_files
    <2>2. CASE sn_files' = sn_files /\ sn_pc' # "capture"
      BY <1>5, <2>2
    <2>3. CASE Len(sn_files) # Len(sn_entries) /\ sn_files' = Append(sn_files, file)
      <3>1. Len(sn_files) <= Len(sn_entries)
        BY <1>4, <1>6 DEF StagingOK
      <3>2. Len(sn_files) + 1 \in 1..Len(sn_entries) /\ Len(sn_files) + 1 <= Len(sn_entries)
        <4>1. \A a, b \in Nat : a <= b /\ a # b => a + 1 \in 1..b /\ a + 1 <= b
          OBVIOUS
        <4> HIDE DEF file
        <4> QED
          BY <1>5, <2>3, <3>1, <4>1
      <3>3. entry \in SnapEntries
        BY <1>5, <3>2
      <3> HIDE DEF entry
      <3>4. entry.path \in SnapPaths /\ entry.value \in SnapValues
        BY <3>3 DEF SnapEntries
      <3>5. bytes \in FileTexts
        <4>1. sn_work[entry.path] \in SnapValues
          BY <3>4 DEF SnapTypeOK
        <4>2. \A v \in SnapValues : v.kind = "file" => v.payload \in SnapTexts
          <5>1. \A t \in SnapTexts, m \in {"100644", "100755"} : RegularFile(t, m).payload = t
            BY DEF RegularFile
          <5>2. \A t : SymbolicLink(t).kind # "file"
            BY DEF SymbolicLink
          <5>3. Gone.kind # "file"
            BY DEF Gone
          <5> QED
            BY <5>1, <5>2, <5>3 DEF SnapValues
        <4>3. "" \in FileTexts /\ "target" \in FileTexts /\ SnapTexts \subseteq FileTexts
          BY DEF FileTexts
        <4> QED
          BY <4>1, <4>2, <4>3 DEF ReadThrough
      <3> HIDE DEF bytes
      <3>6. file \in SnapFiles
        BY <3>4, <3>5 DEF SnapFiles
      <3> HIDE DEF file
      <3>7. sn_files' \in Seq(SnapFiles) /\ Len(sn_files') = Len(sn_files) + 1
        BY <1>5, <2>3, <3>6, AppendProperties
      <3> QED
        BY <1>5, <3>2, <3>7
    <2> QED
      BY <2>1, <2>2, <2>3
  <1>7. sn_files' \in Seq(SnapFiles) /\ sn_expected' \in Seq(SnapEntries) /\ Len(sn_files') \in Nat
    BY <1>4, <1>5, <1>6
  <1>8. SnapTypeOK'
    <2>1. sn_staged' \in 0..Len(sn_files')
      BY <1>1, <1>3, <1>7
    <2> QED
      BY <1>1, <1>7, <2>1 DEF SnapTypeOK
  <1>9. StagingOK'
    <2>1. \A p \in SnapPaths : sn_stage'[p] = Gone
      BY <1>1, <1>3
    <2> QED
      BY <1>1, <1>3, <1>4, <1>6, <2>1 DEF StagingOK
  <1>10. MovedOK' /\ VerifiedOK'
    BY <1>4 DEF MovedOK, VerifiedOK
  <1>11. InventoryOK'
    <2> SUFFICES ASSUME Undisturbed PROVE InventoryOK'
      BY <1>1, <1>2 DEF InventoryOK, Undisturbed
    <2>1. CASE dirty_snapshot_id
      <3>1. DOMAIN sn_records = {}
        BY <1>1
      <3> QED
        BY <1>1, <1>4, <2>1, <3>1 DEF InventoryOK, NamesWork, entry_for_worktree
    <2>2. CASE capture_dirty_files
      BY <1>1, <1>4, <2>2 DEF InventoryOK, NamesWork, entry_for_worktree
    <2> QED
      BY <2>1, <2>2
  <1> QED
    BY <1>8, <1>9, <1>10, <1>11

(* What one more file does to the staging directory.                       *)
LEMMA StageOneFacts ==
    ASSUME NEW stage \in [SnapPaths -> AnyValues], NEW file \in SnapFiles,
           file.value.kind = "symlink" => stage[file.path] = Gone
    PROVE  /\ StageOne(stage, file) \in [SnapPaths -> AnyValues]
           /\ \A p \in SnapPaths : p # file.path => StageOne(stage, file)[p] = stage[p]
           /\ file.value = Gone => StageOne(stage, file) = stage
           /\ file.value # Gone => \E old \in {file.value, stage[file.path]} :
                 LET new == StageOne(stage, file)[file.path]
                 IN  /\ old # Gone /\ new # Gone /\ new.kind = old.kind /\ new.mode = old.mode
                     /\ new.kind = "symlink" => new = old
  <1> DEFINE p == file.path
             v == file.value
             old == stage[p]
             mode == IF v.mode # "100755" /\ old.kind = "file" THEN old.mode ELSE v.mode
             new == RegularFile(file.bytes, mode)
  <1>1. p \in SnapPaths /\ v \in AnyValues /\ file.bytes \in FileTexts /\ old \in AnyValues
    BY ValueFacts DEF SnapFiles
  <1>2. /\ v.kind \in {"deleted", "file", "symlink"} /\ (v.kind = "deleted" <=> v = Gone)
        /\ v.kind = "file" => v.mode \in {"100644", "100755"}
        /\ old.kind = "deleted" <=> old = Gone
        /\ old.kind = "file" => old.mode \in {"100644", "100755"}
    BY <1>1, ValueFacts
  <1>3. CASE v.kind = "deleted"
    BY <1>2, <1>3 DEF StageOne
  <1>4. CASE v.kind = "symlink"
    <2>1. StageOne(stage, file) = [stage EXCEPT ![p] = v]
      BY <1>4 DEF StageOne
    <2>2. StageOne(stage, file) \in [SnapPaths -> AnyValues] /\ StageOne(stage, file)[p] = v
      BY <1>1, <2>1
    <2>3. \A q \in SnapPaths : q # p => StageOne(stage, file)[q] = stage[q]
      BY <1>1, <2>1
    <2>4. v # Gone
      BY <1>2, <1>4
    <2> QED
      BY <1>1, <1>4, <2>2, <2>3, <2>4
  <1>5. CASE v.kind = "file" /\ old.kind = "symlink"
    <2>1. StageOne(stage, file) = stage
      BY <1>5 DEF StageOne
    <2> QED
      BY <1>2, <1>5, <2>1
  <1>6. CASE v.kind = "file" /\ old.kind # "symlink"
    <2>1. StageOne(stage, file) = [stage EXCEPT ![p] = new]
      BY <1>6 DEF StageOne
    <2>2. mode \in {"100644", "100755"}
      BY <1>2, <1>6
    <2>3. mode = v.mode \/ (mode = old.mode /\ old.kind = "file")
      OBVIOUS
    <2> HIDE DEF mode
    <2>4. new \in AnyValues /\ new.kind = "file" /\ new.mode = mode /\ new # Gone
      <3>1. new \in {RegularFile(x, y) : x \in FileTexts, y \in {"100644", "100755"}}
        BY <1>1, <2>2
      <3>2. {RegularFile(x, y) : x \in FileTexts, y \in {"100644", "100755"}} \subseteq AnyValues
        BY DEF AnyValues
      <3>3. new.kind = "file" /\ new.mode = mode /\ Gone.kind = "deleted"
        BY DEF RegularFile, Gone
      <3> QED
        BY <3>1, <3>2, <3>3
    <2> HIDE DEF new
    <2>5. StageOne(stage, file) \in [SnapPaths -> AnyValues] /\ StageOne(stage, file)[p] = new
      BY <1>1, <2>1, <2>4
    <2>6. \A q \in SnapPaths : q # p => StageOne(stage, file)[q] = stage[q]
      BY <1>1, <2>1
    <2>7. v # Gone /\ (old.kind = "file" => old # Gone)
      BY <1>2, <1>6
    <2>8. CASE mode = v.mode
      BY <1>6, <2>4, <2>5, <2>6, <2>7, <2>8
    <2>9. CASE mode = old.mode /\ old.kind = "file"
      BY <1>6, <2>4, <2>5, <2>6, <2>7, <2>9
    <2> QED
      BY <2>3, <2>8, <2>9
  <1> QED
    BY <1>2, <1>3, <1>4, <1>5, <1>6

(* One file is staged.                                                     *)
LEMMA SnapStages ==
    ASSUME SnapInv, materialize_stage
    PROVE  SnapInv'
  <1> USE DEF SnapInv
  <1> DEFINE n == sn_staged
             file == sn_files[n + 1]
  <1>1. /\ sn_pc = "stage" /\ n < Len(sn_files)
        /\ UNCHANGED <<sn_head, sn_index, sn_work, sn_quiet, sn_records, sn_entries, sn_expected,
                       sn_files, sn_left, sn_dest>>
        /\ \/ sn_pc' = "failed" /\ sn_stage' = sn_stage /\ sn_staged' = n
           \/ /\ sn_dest[file.path].kind # "symlink"
              /\ file.value.kind = "symlink" => sn_stage[file.path] = Gone
              /\ sn_stage' = StageOne(sn_stage, file) /\ sn_staged' = n + 1 /\ sn_pc' = sn_pc
    BY DEF materialize_stage, sn_tree
  <1>2. /\ sn_files \in Seq(SnapFiles) /\ Len(sn_files) \in Nat /\ DOMAIN sn_files = 1..Len(sn_files)
        /\ n \in 0..Len(sn_files) /\ sn_stage \in [SnapPaths -> AnyValues]
    BY DEF SnapTypeOK
  <1>3. n \in Nat /\ n + 1 \in 1..Len(sn_files) /\ n + 1 \in 0..Len(sn_files)
        /\ 1..(n + 1) = 1..n \cup {n + 1} /\ 1..n \subseteq 1..Len(sn_files)
    BY <1>1, <1>2
  <1>4. file \in SnapFiles
    BY <1>2, <1>3
  <1> HIDE DEF n, file
  <1>5. sn_dest = sn_head
    BY <1>1 DEF StagingOK
  <1>6. MaybeRenamed' = MaybeRenamed
    BY <1>1 DEF MaybeRenamed
  <1>7. InventoryOK'
    BY <1>1, <1>6 DEF InventoryOK, Undisturbed, NamesWork, entry_for_worktree
  <1>8. MovedOK' /\ VerifiedOK'
    BY <1>1 DEF MovedOK, VerifiedOK
  <1>9. ASSUME sn_pc' = "failed", sn_stage' = sn_stage, sn_staged' = n
        PROVE  SnapTypeOK' /\ StagingOK'
    BY <1>1, <1>9 DEF SnapTypeOK, StagingOK, n
  <1>10. ASSUME sn_dest[file.path].kind # "symlink",
                file.value.kind = "symlink" => sn_stage[file.path] = Gone,
                sn_stage' = StageOne(sn_stage, file), sn_staged' = n + 1, sn_pc' = sn_pc
         PROVE  SnapTypeOK' /\ StagingOK'
    <2> DEFINE q == file.path
               new == sn_stage'[q]
    <2>1. /\ sn_stage' \in [SnapPaths -> AnyValues]
          /\ \A p \in SnapPaths : p # q => sn_stage'[p] = sn_stage[p]
          /\ file.value = Gone => sn_stage' = sn_stage
          /\ file.value # Gone => \E old \in {file.value, sn_stage[q]} :
                /\ old # Gone /\ new # Gone /\ new.kind = old.kind /\ new.mode = old.mode
                /\ new.kind = "symlink" => new = old
      BY <1>2, <1>4, <1>10, StageOneFacts
    <2>2. SnapTypeOK'
      BY <1>1, <1>3, <1>10, <2>1 DEF SnapTypeOK
    <2>3. /\ \A i \in 1..n : sn_head[sn_files[i].path].kind # "symlink"
          /\ \A p \in SnapPaths :
              /\ sn_stage[p] = Gone => \A i \in 1..n : sn_files[i].path = p => sn_files[i].value = Gone
              /\ sn_stage[p] # Gone => HoldsOne(sn_stage[p], p, n)
      BY <1>1 DEF StagingOK, n
    <2>4. sn_files[n + 1] = file /\ q \in SnapPaths
      BY <1>4 DEF file, SnapFiles
    <2> HIDE DEF q
    <2>5. \A i \in 1..(n + 1) : sn_head[sn_files[i].path].kind # "symlink"
      BY <1>3, <1>5, <1>10, <2>3, <2>4 DEF q
    <2>6. \A u, p : HoldsOne(u, p, n) => HoldsOne(u, p, n + 1)
      BY <1>3 DEF HoldsOne
    <2>7. ASSUME NEW p \in SnapPaths
          PROVE  /\ sn_stage'[p] = Gone =>
                      \A i \in 1..(n + 1) : sn_files[i].path = p => sn_files[i].value = Gone
                 /\ sn_stage'[p] # Gone => HoldsOne(sn_stage'[p], p, n + 1)
      <3>1. CASE p # q
        <4>1. sn_stage'[p] = sn_stage[p] /\ sn_files[n + 1].path # p
          BY <2>1, <2>4, <3>1 DEF q
        <4> QED
          BY <1>3, <2>3, <2>6, <4>1
      <3>2. CASE p = q /\ file.value = Gone
        BY <1>3, <2>1, <2>3, <2>4, <2>6, <3>2
      <3>3. CASE p = q /\ file.value # Gone
        <4>1. PICK old \in {file.value, sn_stage[q]} :
                /\ old # Gone /\ new # Gone /\ new.kind = old.kind /\ new.mode = old.mode
                /\ new.kind = "symlink" => new = old
          BY <2>1, <3>3
        <4>2. CASE old = file.value
          <5>1. sn_files[n + 1].path = p /\ n + 1 \in 1..(n + 1)
            BY <1>3, <2>4, <3>3 DEF q
          <5>2. HoldsOne(new, p, n + 1)
            BY <2>4, <3>3, <4>1, <4>2, <5>1 DEF HoldsOne
          <5> QED
            BY <3>3, <4>1, <5>2
        <4>3. CASE old = sn_stage[q]
          <5>1. HoldsOne(old, p, n)
            BY <2>3, <3>3, <4>1, <4>3
          <5>2. HoldsOne(new, p, n)
            BY <4>1, <5>1 DEF HoldsOne
          <5> QED
            BY <2>6, <3>3, <4>1, <5>2
        <4> QED
          BY <4>1, <4>2, <4>3
      <3> QED
        BY <3>1, <3>2, <3>3
    <2>8. StagingOK'
      BY <1>1, <1>5, <1>10, <2>5, <2>7 DEF StagingOK, HoldsOne
    <2> QED
      BY <2>2, <2>8
  <1> QED
    BY <1>1, <1>7, <1>8, <1>9, <1>10

(* The captured files.                                                     *)
LEMMA FileFacts ==
    ASSUME SnapTypeOK
    PROVE  /\ sn_files \in Seq(SnapFiles) /\ DOMAIN sn_files = 1..Len(sn_files)
           /\ \A i \in DOMAIN sn_files :
                 /\ sn_files[i].path \in SnapPaths /\ sn_files[i].value \in AnyValues
                 /\ sn_files[i].value.kind \in {"deleted", "file", "symlink"}
                 /\ sn_files[i].value.kind = "deleted" <=> sn_files[i].value = Gone
  <1>1. sn_files \in Seq(SnapFiles) /\ DOMAIN sn_files = 1..Len(sn_files)
    BY DEF SnapTypeOK
  <1>2. ASSUME NEW i \in DOMAIN sn_files
        PROVE  sn_files[i].path \in SnapPaths /\ sn_files[i].value \in AnyValues
    <2>1. sn_files[i] \in SnapFiles
      BY <1>1
    <2> QED
      BY <2>1, ValueFacts DEF SnapFiles
  <1> QED
    BY <1>1, <1>2, ValueFacts

(* Everything is staged, and what is deleted is known.                     *)
LEMMA SnapStaged ==
    ASSUME SnapInv, materialize_staged
    PROVE  SnapInv'
  <1> USE DEF SnapInv
  <1>1. /\ sn_pc = "stage" /\ sn_staged = Len(sn_files) /\ sn_pc' = "remove"
        /\ sn_left' = {file.path : file \in {f \in ToSet(sn_files) : f.value.kind = "deleted"}}
        /\ UNCHANGED <<sn_head, sn_index, sn_work, sn_quiet, sn_records, sn_entries, sn_expected,
                       sn_files, sn_stage, sn_staged, sn_dest>>
    BY DEF materialize_staged, sn_tree
  <1>2. /\ sn_files \in Seq(SnapFiles) /\ DOMAIN sn_files = 1..Len(sn_files)
        /\ \A i \in DOMAIN sn_files : /\ sn_files[i].path \in SnapPaths
                                      /\ sn_files[i].value.kind = "deleted" <=> sn_files[i].value = Gone
    <2> QED
      BY FileFacts
  <1>3. \A p \in SnapPaths : p \in sn_left' <=>
            \E i \in DOMAIN sn_files : sn_files[i].path = p /\ sn_files[i].value = Gone
    BY <1>1, <1>2 DEF ToSet
  <1>4. sn_left' \in SUBSET SnapPaths
    BY <1>1, <1>2 DEF ToSet
  <1>5. SnapTypeOK'
    BY <1>1, <1>4 DEF SnapTypeOK
  <1>6. StagingOK'
    BY <1>1 DEF StagingOK
  <1>7. VerifiedOK'
    BY <1>1 DEF VerifiedOK
  <1>8. MaybeRenamed' = MaybeRenamed
    BY <1>1 DEF MaybeRenamed
  <1>9. InventoryOK'
    BY <1>1, <1>8 DEF InventoryOK, Undisturbed, NamesWork, entry_for_worktree
  <1>10. /\ sn_dest = sn_head
         /\ \A p \in SnapPaths :
              /\ sn_stage[p] = Gone => \A i \in DOMAIN sn_files : sn_files[i].path = p => sn_files[i].value = Gone
              /\ sn_stage[p] # Gone => HoldsOne(sn_stage[p], p, Len(sn_files))
    BY <1>1, <1>2 DEF StagingOK
  <1>11. ASSUME NEW p \in SnapPaths
         PROVE  /\ p \in sn_left' => NamedPath(p) /\ sn_dest[p] = sn_head[p]
                /\ sn_stage[p] # Gone => WrittenPath(p)
                /\ WrittenPath(p) => HoldsOne(sn_stage[p], p, Len(sn_files))
                /\ NamedPath(p) /\ ~WrittenPath(p) => p \in sn_left'
                /\ ~NamedPath(p) => sn_dest[p] = sn_head[p]
    BY <1>2, <1>3, <1>10 DEF NamedPath, WrittenPath, HoldsOne
  <1>12. MovedOK'
    BY <1>1, <1>11 DEF MovedOK, NamedPath, WrittenPath, HoldsOne
  <1> QED
    BY <1>5, <1>6, <1>7, <1>9, <1>12

(* A path is removed, or all are.                                          *)
LEMMA SnapRemoves ==
    ASSUME SnapInv, materialize_remove
    PROVE  SnapInv'
  <1> USE DEF SnapInv
  <1>1. /\ sn_pc = "remove" /\ sn_pc' \in {"remove", "activate"}
        /\ UNCHANGED <<sn_head, sn_index, sn_work, sn_quiet, sn_records, sn_entries, sn_expected,
                       sn_files, sn_stage, sn_staged>>
    BY DEF materialize_remove, sn_tree
  <1>2. StagingOK'
    BY <1>1 DEF StagingOK
  <1>3. VerifiedOK'
    BY <1>1 DEF VerifiedOK
  <1>4. MaybeRenamed' = MaybeRenamed
    BY <1>1 DEF MaybeRenamed
  <1>5. InventoryOK'
    BY <1>1, <1>4 DEF InventoryOK, Undisturbed, NamesWork, entry_for_worktree
  <1>6. \A p : NamedPath(p)' = NamedPath(p) /\ WrittenPath(p)' = WrittenPath(p)
    BY <1>1 DEF NamedPath, WrittenPath
  <1>7. \A v, p, n : HoldsOne(v, p, n)' = HoldsOne(v, p, n)
    BY <1>1 DEF HoldsOne
  <1>8. /\ sn_staged = Len(sn_files)
        /\ \A p \in SnapPaths :
            /\ p \in sn_left => NamedPath(p) /\ sn_dest[p] = sn_head[p]
            /\ sn_stage[p] # Gone => WrittenPath(p)
            /\ WrittenPath(p) => HoldsOne(sn_stage[p], p, Len(sn_files))
            /\ NamedPath(p) /\ ~WrittenPath(p) => sn_dest[p] = Gone \/ p \in sn_left
            /\ ~NamedPath(p) => sn_dest[p] = sn_head[p]
    BY <1>1 DEF MovedOK
  <1>9. /\ sn_dest \in [SnapPaths -> AnyValues] /\ sn_files \in Seq(SnapFiles)
        /\ DOMAIN sn_files = 1..Len(sn_files)
        /\ \A i \in DOMAIN sn_files : sn_files[i].value \in AnyValues
    BY FileFacts DEF SnapTypeOK
  <1>10. ASSUME sn_left = {}, sn_pc' = "activate", sn_left' = {p \in SnapPaths : sn_stage[p] # Gone},
                UNCHANGED sn_dest
         PROVE  SnapTypeOK' /\ MovedOK'
    <2>1. SnapTypeOK'
      BY <1>1, <1>10 DEF SnapTypeOK
    <2>2. \A p \in SnapPaths : WrittenPath(p) => p \in sn_left'
      <3> SUFFICES ASSUME NEW p \in SnapPaths, WrittenPath(p) PROVE sn_stage[p] # Gone
        BY <1>10
      <3>1. HoldsOne(sn_stage[p], p, Len(sn_files)) /\ DOMAIN sn_files = 1..Len(sn_files)
        BY <1>8, <1>9
      <3>2. PICK i \in DOMAIN sn_files : sn_files[i].value # Gone /\ sn_stage[p].kind = sn_files[i].value.kind
        BY <3>1 DEF HoldsOne
      <3>3. sn_stage[p].kind # "deleted" /\ Gone.kind = "deleted"
        BY <1>9, <3>2, ValueFacts
      <3> QED
        BY <3>3
    <2>3. \A p \in SnapPaths :
            /\ p \in sn_left' <=> sn_stage'[p] # Gone
            /\ sn_stage'[p] # Gone => WrittenPath(p)
            /\ WrittenPath(p) => HoldsOne(IF p \in sn_left' THEN sn_stage'[p] ELSE sn_dest'[p], p, Len(sn_files))
            /\ NamedPath(p) /\ ~WrittenPath(p) => sn_dest'[p] = Gone
            /\ ~NamedPath(p) => sn_dest'[p] = sn_head'[p]
      BY <1>1, <1>8, <1>10, <2>2
    <2>4. MovedOK'
      BY <1>1, <1>6, <1>7, <1>8, <1>10, <2>3 DEF MovedOK
    <2> QED
      BY <2>1, <2>4
  <1>11. ASSUME NEW q \in sn_left, sn_pc' = sn_pc, sn_left' = sn_left \ {q},
                sn_dest' = IF Exists(sn_dest[q]) THEN [sn_dest EXCEPT ![q] = Gone] ELSE sn_dest
         PROVE  SnapTypeOK' /\ MovedOK'
    <2>1. q \in SnapPaths /\ sn_left' \in SUBSET SnapPaths
      BY <1>11 DEF SnapTypeOK
    <2>2. /\ sn_dest' \in [SnapPaths -> AnyValues]
          /\ \A p \in SnapPaths : p # q => sn_dest'[p] = sn_dest[p]
          /\ sn_dest'[q] = IF Exists(sn_dest[q]) THEN Gone ELSE sn_dest[q]
      <3>1. Gone \in AnyValues
        BY ValueFacts
      <3> QED
        BY <1>9, <1>11, <2>1, <3>1
    <2>3. SnapTypeOK'
      BY <1>1, <1>11, <2>1, <2>2 DEF SnapTypeOK
    <2>4. NamedPath(q) /\ sn_head[q].kind # "symlink" /\ sn_dest[q] = sn_head[q]
      <3>1. PICK i \in DOMAIN sn_files : sn_files[i].path = q
        BY <1>8, <2>1 DEF NamedPath
      <3>2. i \in 1..sn_staged
        BY <1>8, <1>9
      <3> QED
        BY <1>8, <2>1, <3>1, <3>2 DEF StagingOK
    <2>5. sn_dest'[q] = Gone
      BY <1>9, <2>1, <2>2, <2>4, ValueFacts
    <2>6. \A p \in SnapPaths :
            /\ p \in sn_left' => NamedPath(p) /\ sn_dest'[p] = sn_head'[p]
            /\ NamedPath(p) /\ ~WrittenPath(p) => sn_dest'[p] = Gone \/ p \in sn_left'
            /\ ~NamedPath(p) => sn_dest'[p] = sn_head'[p]
      BY <1>1, <1>8, <1>11, <2>2, <2>4, <2>5
    <2>7. MovedOK'
      BY <1>1, <1>6, <1>7, <1>8, <1>11, <2>6 DEF MovedOK
    <2> QED
      BY <2>3, <2>7
  <1> QED
    BY <1>2, <1>3, <1>5, <1>10, <1>11 DEF materialize_remove

(* A staged path is moved, or all are.                                     *)
LEMMA SnapMovesOne ==
    ASSUME SnapInv, move_tree
    PROVE  SnapInv'
  <1> USE DEF SnapInv
  <1>1. /\ sn_pc = "activate" /\ sn_pc' \in {"activate", "verify"}
        /\ UNCHANGED <<sn_head, sn_index, sn_work, sn_quiet, sn_records, sn_entries, sn_expected,
                       sn_files, sn_staged>>
    BY DEF move_tree, sn_tree
  <1>2. StagingOK'
    BY <1>1 DEF StagingOK
  <1>3. VerifiedOK'
    BY <1>1 DEF VerifiedOK
  <1>4. MaybeRenamed' = MaybeRenamed
    BY <1>1 DEF MaybeRenamed
  <1>5. InventoryOK'
    BY <1>1, <1>4 DEF InventoryOK, Undisturbed, NamesWork, entry_for_worktree
  <1>6. \A p : NamedPath(p)' = NamedPath(p) /\ WrittenPath(p)' = WrittenPath(p)
    BY <1>1 DEF NamedPath, WrittenPath
  <1>7. \A v, p, n : HoldsOne(v, p, n)' = HoldsOne(v, p, n)
    BY <1>1 DEF HoldsOne
  <1>8. /\ sn_staged = Len(sn_files)
        /\ \A p \in SnapPaths :
            /\ p \in sn_left <=> sn_stage[p] # Gone
            /\ sn_stage[p] # Gone => WrittenPath(p)
            /\ WrittenPath(p) => HoldsOne(IF p \in sn_left THEN sn_stage[p] ELSE sn_dest[p], p, Len(sn_files))
            /\ NamedPath(p) /\ ~WrittenPath(p) => sn_dest[p] = Gone
            /\ ~NamedPath(p) => sn_dest[p] = sn_head[p]
    BY <1>1 DEF MovedOK
  <1>9. \A p : WrittenPath(p) => NamedPath(p)
    BY DEF WrittenPath, NamedPath
  <1>10. ASSUME sn_left = {}, sn_pc' = "verify", UNCHANGED <<sn_left, sn_dest, sn_stage>>
         PROVE  SnapTypeOK' /\ MovedOK'
    <2>1. SnapTypeOK'
      BY <1>1, <1>10 DEF SnapTypeOK
    <2>2. MovedOK'
      BY <1>1, <1>6, <1>7, <1>8, <1>10 DEF MovedOK
    <2> QED
      BY <2>1, <2>2
  <1>11. ASSUME NEW q \in sn_left, sn_left' = sn_left \ {q}, sn_dest' = [sn_dest EXCEPT ![q] = sn_stage[q]],
                sn_stage' = [sn_stage EXCEPT ![q] = Gone], sn_pc' = sn_pc
         PROVE  SnapTypeOK' /\ MovedOK'
    <2>1. /\ q \in SnapPaths /\ sn_left' \in SUBSET SnapPaths
          /\ sn_dest \in [SnapPaths -> AnyValues] /\ sn_stage \in [SnapPaths -> AnyValues]
      BY <1>11 DEF SnapTypeOK
    <2>2. /\ sn_dest' \in [SnapPaths -> AnyValues] /\ sn_stage' \in [SnapPaths -> AnyValues]
          /\ \A p \in SnapPaths : p # q => sn_dest'[p] = sn_dest[p] /\ sn_stage'[p] = sn_stage[p]
          /\ sn_dest'[q] = sn_stage[q] /\ sn_stage'[q] = Gone
      <3>1. Gone \in AnyValues
        BY ValueFacts
      <3> QED
        BY <1>11, <2>1, <3>1
    <2>3. SnapTypeOK'
      BY <1>1, <1>11, <2>1, <2>2 DEF SnapTypeOK
    <2>4. WrittenPath(q) /\ NamedPath(q)
      BY <1>8, <1>9, <1>11, <2>1
    <2>5. \A p \in SnapPaths :
            /\ p \in sn_left' <=> sn_stage'[p] # Gone
            /\ sn_stage'[p] # Gone => WrittenPath(p)
            /\ WrittenPath(p) => HoldsOne(IF p \in sn_left' THEN sn_stage'[p] ELSE sn_dest'[p], p, Len(sn_files))
            /\ NamedPath(p) /\ ~WrittenPath(p) => sn_dest'[p] = Gone
            /\ ~NamedPath(p) => sn_dest'[p] = sn_head'[p]
      BY <1>1, <1>8, <1>11, <2>2, <2>4
    <2>6. MovedOK'
      BY <1>1, <1>6, <1>7, <1>8, <1>11, <2>5 DEF MovedOK
    <2> QED
      BY <2>3, <2>6
  <1> QED
    BY <1>2, <1>3, <1>5, <1>10, <1>11 DEF move_tree

(* The verification, a failure, and the end.                               *)
LEMMA SnapEnds ==
    ASSUME SnapInv, verify_materialized_dirty_files \/ MaterializeFails \/ SnapDone \/ UNCHANGED sn_vars
    PROVE  SnapInv'
  <1> USE DEF SnapInv
  <1>1. /\ UNCHANGED <<sn_head, sn_index, sn_work, sn_quiet, sn_records, sn_entries, sn_expected,
                       sn_files, sn_stage, sn_staged, sn_left, sn_dest>>
        /\ sn_pc' = sn_pc \/ sn_pc' = "failed" \/ (sn_pc = "verify" /\ sn_pc' = "verified")
    BY DEF verify_materialized_dirty_files, MaterializeFails, SnapDone, sn_vars, sn_tree, sn_receiver
  <1>2. MaybeRenamed' = MaybeRenamed
    BY <1>1 DEF MaybeRenamed
  <1>3. SnapTypeOK'
    BY <1>1 DEF SnapTypeOK
  <1>4. StagingOK'
    BY <1>1 DEF StagingOK, HoldsOne
  <1>5. MovedOK'
    BY <1>1 DEF MovedOK, HoldsOne, NamedPath, WrittenPath
  <1>6. InventoryOK'
    BY <1>1, <1>2 DEF InventoryOK, Undisturbed, NamesWork, RecordOf, entry_for_worktree
  <1>7. VerifiedOK'
    <2> SUFFICES ASSUME sn_pc' = "verified"
                 PROVE  dirty_files_digest(sn_files) = digest_source_entries(sn_expected) /\ AllVerify
      BY <1>1 DEF VerifiedOK, AllVerify, FileVerifies
    <2>1. CASE sn_pc = "verified"
      BY <2>1 DEF VerifiedOK
    <2>2. CASE verify_materialized_dirty_files
      BY <2>2 DEF verify_materialized_dirty_files
    <2>3. CASE MaterializeFails
      BY <2>3 DEF MaterializeFails
    <2> QED
      BY <1>1, <2>1, <2>2, <2>3 DEF SnapDone, sn_vars
  <1> QED
    BY <1>3, <1>4, <1>5, <1>6, <1>7

(* Equal digests have equal entries.                                       *)
LEMMA DigestFacts ==
    ASSUME NEW xs, NEW ys, digest_source_entries(xs) = digest_source_entries(ys), NEW i \in DOMAIN xs
    PROVE  \E j \in DOMAIN ys : ys[j] = xs[i]
  <1> DEFINE rank(s, k) == Cardinality({j \in 1..k : s[j].path = s[k].path})
  <1>1. <<rank(xs, i), xs[i]>> \in digest_source_entries(xs)
    BY DEF digest_source_entries
  <1>2. \E j \in DOMAIN ys : <<rank(xs, i), xs[i]>> = <<rank(ys, j), ys[j]>>
    BY <1>1 DEF digest_source_entries
  <1> HIDE DEF rank
  <1> QED
    BY <1>2

(* A destination that has been verified holds what the identity says.      *)
LEMMA SnapVerified ==
    ASSUME SnapInv
    PROVE  SnapshotFaithful
  <1> SUFFICES ASSUME sn_pc = "verified"
               PROVE  /\ \A path \in {sn_expected[i].path : i \in DOMAIN sn_expected} :
                            \E i \in DOMAIN sn_expected :
                               /\ sn_expected[i].path = path
                               /\ IF sn_expected[i].value = Gone THEN ~Exists(sn_dest[path])
                                  ELSE sn_dest[path] = sn_expected[i].value
                      /\ sn_quiet /\ MaybeRenamed = {} => sn_dest = sn_work
    BY DEF SnapshotFaithful
  <1> USE DEF SnapInv
  <1> DEFINE fs == [i \in DOMAIN sn_files |-> WithBytes(sn_files[i])]
  <1>1. digest_source_entries(fs) = digest_source_entries(sn_expected) /\ AllVerify
    BY DEF VerifiedOK, dirty_files_digest
  <1>2. \A i \in DOMAIN sn_expected : \E j \in DOMAIN sn_files : WithBytes(sn_files[j]) = sn_expected[i]
    <2> SUFFICES ASSUME NEW i \in DOMAIN sn_expected
                 PROVE  \E j \in DOMAIN sn_files : WithBytes(sn_files[j]) = sn_expected[i]
      OBVIOUS
    <2>1. \E j \in DOMAIN fs : fs[j] = sn_expected[i]
      <3> HIDE DEF fs
      <3> QED
        BY <1>1, DigestFacts
    <2> QED
      BY <2>1
  <1>3. \A j \in DOMAIN sn_files : \E i \in DOMAIN sn_expected : sn_expected[i] = WithBytes(sn_files[j])
    <2> SUFFICES ASSUME NEW j \in DOMAIN sn_files
                 PROVE  \E i \in DOMAIN sn_expected : sn_expected[i] = WithBytes(sn_files[j])
      OBVIOUS
    <2>1. fs[j] = WithBytes(sn_files[j]) /\ j \in DOMAIN fs
      OBVIOUS
    <2> HIDE DEF fs
    <2> QED
      BY <1>1, <2>1, DigestFacts
  <1>4. \A p \in SnapPaths :
            /\ WrittenPath(p) => HoldsOne(sn_dest[p], p, Len(sn_files))
            /\ NamedPath(p) /\ ~WrittenPath(p) => sn_dest[p] = Gone
            /\ ~NamedPath(p) => sn_dest[p] = sn_head[p]
    BY DEF MovedOK
  <1>5. /\ sn_dest \in [SnapPaths -> AnyValues] /\ sn_work \in [SnapPaths -> SnapValues]
        /\ sn_head \in [SnapPaths -> SnapValues]
    BY DEF SnapTypeOK
  <1>6. \A j \in DOMAIN sn_files : /\ WithBytes(sn_files[j]).path = sn_files[j].path
                                   /\ sn_files[j].value = Gone <=> WithBytes(sn_files[j]).value = Gone
    <2> SUFFICES ASSUME NEW j \in DOMAIN sn_files
                 PROVE  /\ WithBytes(sn_files[j]).path = sn_files[j].path
                        /\ sn_files[j].value = Gone <=> WithBytes(sn_files[j]).value = Gone
      OBVIOUS
    <2>1. \A t, m : RegularFile(t, m) # Gone
      BY DEF RegularFile, Gone
    <2>2. sn_files[j].value.kind = "file" => sn_files[j].value # Gone
      BY FileFacts
    <2> QED
      BY <2>1, <2>2 DEF WithBytes
  <1>7. ASSUME NEW p \in SnapPaths, WrittenPath(p)
        PROVE  \E j \in DOMAIN sn_files : /\ sn_files[j].path = p /\ sn_files[j].value # Gone
                                          /\ WithBytes(sn_files[j]).value = sn_dest[p]
    <2>1. PICK j \in DOMAIN sn_files :
              /\ sn_files[j].path = p /\ sn_files[j].value # Gone
              /\ sn_dest[p].kind = sn_files[j].value.kind /\ sn_dest[p].mode = sn_files[j].value.mode
              /\ sn_dest[p].kind = "symlink" => sn_dest[p] = sn_files[j].value
      BY <1>4, <1>7, FileFacts DEF HoldsOne
    <2>2. sn_files[j].value.kind \in {"file", "symlink"}
      BY <2>1, FileFacts
    <2>3. CASE sn_files[j].value.kind = "symlink"
      <3>1. WithBytes(sn_files[j]).value = sn_files[j].value
        BY <2>3 DEF WithBytes
      <3> QED
        BY <2>1, <2>3, <3>1
    <2>4. CASE sn_files[j].value.kind = "file"
      <3>1. sn_dest[p].payload = sn_files[j].bytes
        BY <1>1, <2>1, <2>4 DEF AllVerify, FileVerifies
      <3>2. sn_dest[p] = RegularFile(sn_dest[p].payload, sn_dest[p].mode)
        BY <1>5, <2>1, <2>4, ValueFacts
      <3>3. WithBytes(sn_files[j]).value = RegularFile(sn_files[j].bytes, sn_files[j].value.mode)
        BY <2>4 DEF WithBytes
      <3> QED
        BY <2>1, <3>1, <3>2, <3>3
    <2> QED
      BY <2>2, <2>3, <2>4
  <1>8. ASSUME NEW k \in DOMAIN sn_expected
        PROVE  \E i \in DOMAIN sn_expected :
                  /\ sn_expected[i].path = sn_expected[k].path
                  /\ IF sn_expected[i].value = Gone THEN ~Exists(sn_dest[sn_expected[k].path])
                     ELSE sn_dest[sn_expected[k].path] = sn_expected[i].value
    <2> DEFINE p == sn_expected[k].path
    <2>1. PICK j \in DOMAIN sn_files : WithBytes(sn_files[j]) = sn_expected[k]
      BY <1>2
    <2>2. sn_files[j].path = p /\ p \in SnapPaths /\ NamedPath(p)
      BY <1>6, <2>1, FileFacts DEF NamedPath
    <2> HIDE DEF p
    <2>3. CASE WrittenPath(p)
      <3>1. PICK u \in DOMAIN sn_files : /\ sn_files[u].path = p /\ sn_files[u].value # Gone
                                         /\ WithBytes(sn_files[u]).value = sn_dest[p]
        BY <1>7, <2>2, <2>3
      <3>2. PICK i \in DOMAIN sn_expected : sn_expected[i] = WithBytes(sn_files[u])
        BY <1>3
      <3>3. sn_expected[i].path = p /\ sn_expected[i].value # Gone /\ sn_expected[i].value = sn_dest[p]
        BY <1>6, <3>1, <3>2
      <3> QED
        BY <3>3 DEF p
    <2>4. CASE ~WrittenPath(p)
      <3>1. sn_files[j].value = Gone /\ sn_dest[p] = Gone
        BY <1>4, <2>2, <2>4 DEF WrittenPath
      <3>2. sn_expected[k].value = Gone /\ ~Exists(Gone)
        BY <1>6, <2>1, <3>1, ValueFacts
      <3> QED
        BY <3>1, <3>2 DEF p
    <2> QED
      BY <2>3, <2>4
  <1>9. ASSUME Undisturbed, NEW p \in SnapPaths
        PROVE  sn_dest[p] = sn_work[p]
    <2>1. /\ \A i \in DOMAIN sn_expected : NamesWork(sn_expected[i])
          /\ sn_work[p] # sn_head[p] => \E i \in DOMAIN sn_expected : sn_expected[i] = entry_for_worktree(p)
      BY <1>9 DEF InventoryOK
    <2>2. entry_for_worktree(p).path = p /\ entry_for_worktree(p).value = sn_work[p]
      BY DEF entry_for_worktree
    <2>3. CASE WrittenPath(p)
      <3>1. PICK u \in DOMAIN sn_files : /\ sn_files[u].path = p /\ sn_files[u].value # Gone
                                         /\ WithBytes(sn_files[u]).value = sn_dest[p]
        BY <1>7, <2>3
      <3>2. PICK i \in DOMAIN sn_expected : sn_expected[i] = WithBytes(sn_files[u])
        BY <1>3
      <3>3. sn_expected[i].path = p /\ sn_expected[i].value # Gone /\ sn_expected[i].value = sn_dest[p]
        BY <1>6, <3>1, <3>2
      <3>4. sn_expected[i] = entry_for_worktree(p)
        BY <2>1, <3>3 DEF NamesWork
      <3> QED
        BY <2>2, <3>3, <3>4
    <2>4. CASE NamedPath(p) /\ ~WrittenPath(p)
      <3>1. sn_dest[p] = Gone
        BY <1>4, <2>4
      <3>2. PICK u \in DOMAIN sn_files : sn_files[u].path = p /\ sn_files[u].value = Gone
        BY <2>4 DEF NamedPath, WrittenPath
      <3>3. PICK i \in DOMAIN sn_expected : sn_expected[i] = WithBytes(sn_files[u])
        BY <1>3
      <3>4. sn_expected[i].path = p /\ sn_expected[i].value = Gone
        BY <1>6, <3>2, <3>3
      <3>5. sn_work[p] = Gone \/ ~Exists(sn_work[p])
        BY <2>1, <2>2, <3>4 DEF NamesWork
      <3>6. sn_work[p] # sn_head[p] => sn_work[p] = Gone
        <4> SUFFICES ASSUME sn_work[p] # sn_head[p], sn_work[p] # Gone PROVE FALSE
          OBVIOUS
        <4>1. PICK k \in DOMAIN sn_expected : sn_expected[k] = entry_for_worktree(p)
          BY <2>1
        <4>2. PICK j \in DOMAIN sn_files : WithBytes(sn_files[j]) = sn_expected[k]
          BY <1>2
        <4>3. sn_files[j].path = p /\ sn_files[j].value # Gone
          BY <1>6, <2>2, <4>1, <4>2
        <4> QED
          BY <2>4, <4>3 DEF WrittenPath
      <3>7. sn_head[p].kind # "symlink"
        <4>1. u \in 1..sn_staged
          BY FileFacts DEF MovedOK
        <4> QED
          BY <3>2, <4>1 DEF StagingOK
      <3> QED
        BY <1>5, <3>1, <3>5, <3>6, <3>7, ValueFacts
    <2>5. CASE ~NamedPath(p)
      <3>1. sn_dest[p] = sn_head[p]
        BY <1>4, <2>5
      <3>2. sn_work[p] = sn_head[p]
        <4> SUFFICES ASSUME sn_work[p] # sn_head[p] PROVE FALSE
          OBVIOUS
        <4>1. PICK k \in DOMAIN sn_expected : sn_expected[k] = entry_for_worktree(p)
          BY <2>1
        <4>2. PICK j \in DOMAIN sn_files : WithBytes(sn_files[j]) = sn_expected[k]
          BY <1>2
        <4> QED
          BY <1>6, <2>2, <2>5, <4>1, <4>2 DEF NamedPath
      <3> QED
        BY <3>1, <3>2
    <2> QED
      BY <2>3, <2>4, <2>5
  <1>10. Undisturbed => sn_dest = sn_work
    BY <1>5, <1>9
  <1> QED
    BY <1>8, <1>10 DEF Undisturbed

(* Nothing has been read at first.                                         *)
LEMMA SnapBegins ==
    ASSUME SnapInit
    PROVE  SnapInv
  <1> USE DEF SnapInit
  <1>1. sn_head \in [SnapPaths -> SnapValues] /\ 1..0 = {}
    BY SnapAssumption
  <1>2. SnapTypeOK
    <2>1. <<>> \in Seq(SnapRecords) /\ <<>> \in Seq(SnapEntries) /\ <<>> \in Seq(SnapFiles) /\ Len(<<>>) = 0
      OBVIOUS
    <2>2. SnapValues \subseteq AnyValues /\ Gone \in AnyValues
      BY ValueFacts
    <2>3. sn_dest \in [SnapPaths -> AnyValues] /\ sn_stage \in [SnapPaths -> AnyValues]
      BY <1>1, <2>2
    <2> QED
      BY <1>1, <2>1, <2>3 DEF SnapTypeOK
  <1>3. StagingOK /\ MovedOK /\ InventoryOK /\ VerifiedOK
    BY <1>1 DEF StagingOK, MovedOK, InventoryOK, VerifiedOK
  <1> QED
    BY <1>2, <1>3 DEF SnapInv

(* Whatever the user does while the checkout is identified and read, for   *)
(* every set of paths and contents and every tree of HEAD.                 *)
THEOREM SnapshotsFaithful == SnapSpec => []SnapshotFaithful
  <1>1. SnapInv /\ [SnapNext]_sn_vars => SnapInv'
    BY SnapEdits, SnapAsks, SnapParses, SnapCaptures, SnapStages, SnapStaged, SnapRemoves,
       SnapMovesOne, SnapEnds DEF SnapNext
  <1> QED
    BY <1>1, SnapBegins, SnapVerified, PTL DEF SnapSpec

=============================================================================
