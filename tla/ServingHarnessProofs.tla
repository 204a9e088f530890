------------------------ MODULE ServingHarnessProofs ------------------------
(***************************************************************************)
(* Proofs about ServingHarness, for any paths, trees, answers and faults.  *)
(***************************************************************************)
EXTENDS ServingHarness, SequenceTheorems, TLAPS

(* Nothing is written before the paths have been checked, and what is      *)
(* written then has passed the check.                                      *)
Untouched == pc \in {"prompt", "check"} => tree = start
NoEdits   == pc \in {"idle", "prompt"} => edits = <<>>
Checked   == pc \in {"apply", "rollback", "ok"} =>
                 \A k \in DOMAIN edits : edits[k].path \notin Escaping

(* Drive asks for an answer only while it has attempts left, and applies   *)
(* no more edits than it has.                                              *)
Bounded   == /\ pc = "prompt" => attempt <= MaxParseRetries
             /\ Len(prior) <= Len(edits)

IInv == TypeOK /\ Untouched /\ NoEdits /\ Checked /\ Bounded /\ SandboxAllOrNothing

-----------------------------------------------------------------------------
(* The edits of a well-formed answer are edits. *)
LEMMA ParsedEdits ==
    ASSUME NEW answer \in Seq(Block), WellFormed(answer)
    PROVE  parseEdits(answer) \in Seq(Edit)
  <1>0. \A k \in DOMAIN answer : answer[k].path # NoPath
      BY Zenon DEF WellFormed
  <1>1. \A k \in 1..Len(answer) :
            [path |-> answer[k].path, content |-> answer[k].content] \in Edit
    <2> TAKE k \in 1..Len(answer)
    <2>1. answer[k] \in Block
        BY ElementOfSeq
    <2>2. answer[k].path \in Paths /\ answer[k].content \in Contents
        BY <1>0, <2>1 DEF Block
    <2> QED BY <2>2 DEF Edit
  <1>2. parseEdits(answer) =
            [k \in 1..Len(answer) |-> [path |-> answer[k].path, content |-> answer[k].content]]
      BY DEF parseEdits
  <1> QED BY <1>1, <1>2

(* The file operations yield trees, and what is remembered is a record. *)
LEMMA TreeOps ==
    ASSUME NEW t \in Trees, NEW p \in Paths
    PROVE  /\ MkdirAll(t, p) \in Trees
           /\ \A c \in Files : [t EXCEPT ![p] = c] \in Trees
           /\ Remove(t, p) \in Trees
           /\ NotFound(p) \in Prior
           /\ IsFile(t, p) => Found(t, p) \in Prior
  <1>1. MkdirAll(t, p) \in Trees
      BY DEF MkdirAll, Trees
  <1>2. \A c \in Files : [t EXCEPT ![p] = c] \in Trees
      BY DEF Trees
  <1>3. Remove(t, p) \in Trees
      BY DEF Remove, Trees
  <1>4. NotFound(p) \in Prior
      BY DEF NotFound, Prior, Files
  <1>5. IsFile(t, p) => Found(t, p) \in Prior
      BY DEF IsFile, Found, Prior
  <1> QED BY <1>1, <1>2, <1>3, <1>4, <1>5

(* Dropping the last element of a sequence. *)
LEMMA WithoutLast ==
    ASSUME NEW S, NEW s \in Seq(S), Len(s) \in 1..Len(s)
    PROVE  SubSeq(s, 1, Len(s) - 1) \in Seq(S) /\ Len(SubSeq(s, 1, Len(s) - 1)) = Len(s) - 1
  <1> DEFINE f == [k \in 1..(Len(s) - 1) |-> s[k]]
  <1>1. SubSeq(s, 1, Len(s) - 1) = f
      OBVIOUS
  <1>2. f \in Seq(S) /\ Len(f) = Len(s) - 1
      OBVIOUS
  <1> QED BY <1>1, <1>2, Zenon

(* Before the first Drive nothing has been written. *)
LEMMA InitIInv == Init => IInv
  <1> SUFFICES ASSUME Init PROVE IInv
      OBVIOUS
  <1> USE HarnessAssumption
  <1>1. TypeOK
      BY DEF Init, TypeOK, Returned
  <1> QED BY <1>1 DEF Init, IInv, Untouched, NoEdits, Checked, Bounded, SandboxAllOrNothing

(* Every step of Drive keeps IInv. *)
LEMMA NextIInv == IInv /\ [Next]_vars => IInv'
  <1> SUFFICES ASSUME IInv, [Next]_vars PROVE IInv'
      OBVIOUS
  <1> USE HarnessAssumption
  <1> USE DEF IInv, Returned
  <1>1. CASE Call
    <2>1. TypeOK'
        BY <1>1 DEF Call, TypeOK
    <2> QED BY <1>1, <2>1 DEF Call, TypeOK, Untouched, NoEdits, Checked, Bounded, SandboxAllOrNothing
  <1>2. CASE Complete
    <2>1. edits' \in Seq(Edit) /\ pc' \in {"prompt", "check", "failed"}
        BY <1>2, ParsedEdits DEF Complete, TypeOK
    <2>2. attempt' \in 0..(MaxParseRetries + 1)
        BY <1>2 DEF Complete, TypeOK, Bounded
    <2>3. TypeOK'
        BY <1>2, <2>1, <2>2 DEF Complete, TypeOK
    <2>4. Untouched' /\ Checked' /\ SandboxAllOrNothing'
        BY <1>2, <2>1 DEF Complete, Untouched, Checked, SandboxAllOrNothing
    <2>5. NoEdits'
        BY <1>2 DEF Complete, NoEdits
    <2>6. Bounded'
      <3>1. Len(prior) = 0
          BY <1>2 DEF Complete, NoEdits, Bounded, TypeOK
      <3>2. pc' = "prompt" => attempt < MaxParseRetries
          BY <1>2 DEF Complete
      <3> QED BY <1>2, <2>1, <3>1, <3>2 DEF Complete, Bounded, TypeOK
    <2> QED BY <2>3, <2>4, <2>5, <2>6
  <1>3. CASE CheckPaths
    <2>1. TypeOK'
        BY <1>3 DEF CheckPaths, TypeOK
    <2> QED BY <1>3, <2>1 DEF CheckPaths, safePath, Untouched, NoEdits, Checked, Bounded,
                SandboxAllOrNothing
  <1>4. CASE ApplyEdit
    <2> DEFINE e == edits[Len(prior) + 1]
               made == MkdirAll(tree, e.path)
    <2>a. Len(prior) < Len(edits) /\ prior \in Seq(Prior) /\ edits \in Seq(Edit)
        BY <1>4 DEF ApplyEdit, TypeOK
    <2>b. Len(prior) + 1 \in 1..Len(edits)
        BY <2>a, LenProperties
    <2>c. e \in Edit
        BY <2>a, <2>b, ElementOfSeq
    <2>1. e \in Edit /\ e.path \in Paths /\ e.content \in Files /\ Torn \in Files
        BY <2>c DEF Edit, Files
    <2>2. made \in Trees /\ (\A c \in Files : [made EXCEPT ![e.path] = c] \in Trees)
        BY <2>1, TreeOps DEF TypeOK
    <2>3. tree' \in Trees
        BY <1>4, <2>1, <2>2 DEF ApplyEdit, TypeOK
    <2>4. \E pf \in Prior : prior' = Append(prior, pf)
        BY <1>4, <2>1, TreeOps DEF ApplyEdit, TypeOK
    <2>5. prior' \in Seq(Prior) /\ Len(prior') = Len(prior) + 1
        BY <2>4, AppendProperties DEF TypeOK
    <2>6. pc' \in {"apply", "rollback"} /\ hurt' \subseteq Paths
        BY <1>4, <2>1 DEF ApplyEdit, TypeOK
    <2>7. TypeOK'
        BY <1>4, <2>3, <2>5, <2>6 DEF ApplyEdit, TypeOK
    <2>8. UNCHANGED <<attempt, edits, start>> /\ pc = "apply" /\ Len(prior) < Len(edits)
        BY <1>4 DEF ApplyEdit
    <2>9. Untouched' /\ NoEdits' /\ Checked' /\ SandboxAllOrNothing'
        BY <2>6, <2>8 DEF Untouched, NoEdits, Checked, SandboxAllOrNothing
    <2>10. Bounded'
        BY <2>5, <2>6, <2>8 DEF Bounded, TypeOK
    <2> QED BY <2>7, <2>9, <2>10
  <1>5. CASE RunTest
    <2>1. TypeOK'
        BY <1>5 DEF RunTest, TypeOK
    <2> QED BY <1>5, <2>1 DEF RunTest, Untouched, NoEdits, Checked, Bounded, SandboxAllOrNothing
  <1>6. CASE RollBackOne
    <2> DEFINE pf == prior[Len(prior)]
    <2>a. Len(prior) \in 1..Len(prior) /\ prior \in Seq(Prior)
        BY <1>6, LenProperties DEF RollBackOne, TypeOK
    <2>b. pf \in Prior
        BY <2>a, ElementOfSeq
    <2>1. pf \in Prior /\ pf.path \in Paths /\ pf.content \in Files /\ Torn \in Files
        BY <2>b DEF Prior, Files
    <2>2. tree' \in Trees
        BY <1>6, <2>1, TreeOps DEF RollBackOne, Undo, TypeOK
    <2>c. prior' = SubSeq(prior, 1, Len(prior) - 1)
        BY <1>6 DEF RollBackOne
    <2>3. prior' \in Seq(Prior) /\ Len(prior') = Len(prior) - 1
        BY <2>a, <2>c, WithoutLast
    <2>d. hurt' \subseteq Paths
        BY <1>6, <2>1 DEF RollBackOne, TypeOK
    <2>4. TypeOK'
        BY <1>6, <2>2, <2>3, <2>d DEF RollBackOne, TypeOK
    <2>5. UNCHANGED <<pc, attempt, edits, start>> /\ pc = "rollback"
        BY <1>6 DEF RollBackOne
    <2>6. Untouched' /\ NoEdits' /\ Checked' /\ SandboxAllOrNothing'
        BY <2>5 DEF Untouched, NoEdits, Checked, SandboxAllOrNothing
    <2>7. Bounded'
        BY <2>3, <2>5 DEF Bounded, TypeOK
    <2> QED BY <2>4, <2>6, <2>7
  <1>7. CASE RollBackDone \/ Crash
    <2>1. TypeOK'
        BY <1>7 DEF RollBackDone, Crash, TypeOK
    <2> QED BY <1>7, <2>1 DEF RollBackDone, Crash, Untouched, NoEdits, Checked, Bounded,
                SandboxAllOrNothing
  <1>8. CASE UNCHANGED vars
      BY <1>8 DEF vars, TypeOK, Untouched, NoEdits, Checked, Bounded, SandboxAllOrNothing
  <1> QED BY <1>1, <1>2, <1>3, <1>4, <1>5, <1>6, <1>7, <1>8 DEF Next, Step

(* What Drive knows at each place holds of every behaviour. *)
THEOREM Invariance == Spec => []IInv
  BY InitIInv, NextIInv, PTL DEF Spec

(* Drive's state keeps its types; the completions it asks for are at most  *)
(* maxParseRetries + 1.                                                    *)
THEOREM TypeCorrect == Spec => []TypeOK
  <1>1. IInv => TypeOK
      BY DEF IInv
  <1> QED BY Invariance, <1>1, PTL

(* An answer with a target outside the workspace changes nothing at all. *)
THEOREM Sandbox == Spec => []SandboxAllOrNothing
  <1>1. IInv => SandboxAllOrNothing
      BY DEF IInv
  <1> QED BY Invariance, <1>1, PTL
-----------------------------------------------------------------------------
(* The second inductive invariant: the records and the tree tell together  *)
(* what the tree was.  A tree is well formed if what exists in it lies in  *)
(* directories, as any file system sees to it.                             *)
WellFormedTree(t) == \A p \in Paths : Exists(t, p) => \A a \in Above[p] : IsDir(t, a)
TreeWellFormed == WellFormedTree(tree)
Busy == pc \in {"apply", "rollback"}

(* The records are those of the first edits, in their order. *)
Recorded == /\ pc \in {"prompt", "check"} => prior = <<>>
            /\ Busy => \A k \in 1..Len(prior) : prior[k].path = edits[k].path

(* While edits are laid, each of the targets so far is a file. *)
Laid == pc = "apply" => \A k \in 1..Len(prior) : IsFile(tree, prior[k].path)

(* A file can be written back: its directories are there, and it is none.  *)
InPlace(p) == ~ IsDir(tree, p) /\ \A a \in Above[p] : IsDir(tree, a)

(* Every file that was found can be written back, and only the record that *)
(* is undone first may be of a directory: the target that could not be     *)
(* written, in a tree where all earlier targets are still files.           *)
Undoable ==
    pc = "rollback" =>
        \A k \in 1..Len(prior) :
            /\ k < Len(prior) => ~ IsDir(tree, prior[k].path)
            /\ prior[k].existed => InPlace(prior[k].path)
            /\ IsDir(tree, prior[k].path) =>
                   \A j \in 1..(k - 1) : IsFile(tree, prior[j].path)

Unrecorded(p) == \A k \in 1..Len(prior) : prior[k].path # p
First(k)      == \A j \in 1..(k - 1) : prior[j].path # prior[k].path
Last(k)       == \A j \in 1..Len(prior) : j > k => prior[j].path # prior[k].path

(* What has no record is as it was, and the first record of a path says    *)
(* what was there (but for the targets of ignored errors).                 *)
Kept ==
    /\ \A p \in Paths \ hurt :
           Unrecorded(p) => (IsFile(start, p) \/ IsFile(tree, p) => tree[p] = start[p])
    /\ \A k \in 1..Len(prior) :
           prior[k].path \notin hurt /\ First(k) =>
               IF prior[k].existed THEN prior[k].content = start[prior[k].path]
                                   ELSE ~ IsFile(start, prior[k].path)

(* The tree is the old one with the edits so far laid over it. *)
Edited ==
    pc = "apply" =>
        /\ \A p \in Paths :
               /\ Unrecorded(p) => tree[p] = start[p] \/ (start[p] = "none" /\ tree[p] = "dir")
               /\ Unrecorded(p) \/ \E k \in 1..Len(prior) : Last(k) /\ prior[k].path = p
        /\ \A k \in 1..Len(prior) : Last(k) => tree[prior[k].path] = edits[k].content

TreeInv == /\ TreeWellFormed /\ Recorded /\ Laid /\ Undoable /\ Kept /\ Edited
           /\ FilesRestored /\ TestedTreeIsEdited

-----------------------------------------------------------------------------
(* MkdirAll turns only what does not exist into directories. *)
LEMMA Mkdirs ==
    ASSUME NEW t \in Trees, WellFormedTree(t), NEW p \in Paths, CanMkdirAll(t, p)
    PROVE  /\ WellFormedTree(MkdirAll(t, p))
           /\ \A a \in Above[p] : IsDir(MkdirAll(t, p), a)
           /\ MkdirAll(t, p)[p] = t[p]
           /\ \A q \in Paths : \/ MkdirAll(t, p)[q] = t[q]
                               \/ t[q] = "none" /\ MkdirAll(t, p)[q] = "dir"
  <1> USE HarnessAssumption
  <1> DEFINE m == MkdirAll(t, p)
  <1>1. \A q \in Paths : m[q] = IF q \in Above[p] THEN "dir" ELSE t[q]
      BY DEF MkdirAll
  <1>2. \A q \in Paths : m[q] = t[q] \/ (t[q] = "none" /\ m[q] = "dir")
      BY <1>1 DEF CanMkdirAll, IsFile, Trees
  <1>3. m[p] = t[p] /\ \A a \in Above[p] : IsDir(m, a)
      BY <1>1 DEF IsDir
  <1>4. WellFormedTree(m)
      BY <1>1, <1>2 DEF WellFormedTree, Exists, IsDir
  <1> QED BY <1>2, <1>3, <1>4

(* A file is written where no directory is. *)
LEMMA Writes ==
    ASSUME NEW t \in Trees, WellFormedTree(t), NEW p \in Paths, ~ IsDir(t, p),
           \A a \in Above[p] : IsDir(t, a), NEW c \in Files
    PROVE  /\ WellFormedTree([t EXCEPT ![p] = c])
           /\ IsFile([t EXCEPT ![p] = c], p)
           /\ \A q \in Paths \ {p} : [t EXCEPT ![p] = c][q] = t[q]
  <1> USE HarnessAssumption
  <1> DEFINE w == [t EXCEPT ![p] = c]
  <1>1. w[p] = c /\ \A q \in Paths \ {p} : w[q] = t[q]
      BY DEF Trees
  <1>2. \A q \in Paths : t[q] # "none" => p \notin Above[q]
      BY DEF WellFormedTree, Exists, IsDir
  <1>3. WellFormedTree(w)
      BY <1>1, <1>2 DEF WellFormedTree, Exists, IsDir
  <1> QED BY <1>1, <1>3 DEF IsFile

(* Remove leaves no file, and takes no directory that holds something. *)
LEMMA Removes ==
    ASSUME NEW t \in Trees, WellFormedTree(t), NEW p \in Paths
    PROVE  /\ WellFormedTree(Remove(t, p))
           /\ ~ IsFile(Remove(t, p), p)
           /\ Remove(t, p)[p] \in {t[p], "none"}
           /\ \A q \in Paths \ {p} : Remove(t, p)[q] = t[q]
           /\ Remove(t, p) = t \/ \A q \in Paths : Exists(t, q) => p \notin Above[q]
  <1> USE HarnessAssumption
  <1>1. CASE \E q \in Below(p) : Exists(t, q)
    <2>1. Remove(t, p) = t BY <1>1 DEF Remove
    <2>2. IsDir(t, p) BY <1>1 DEF Below, WellFormedTree
    <2> QED BY <2>1, <2>2 DEF IsDir, IsFile
  <1>2. CASE \A q \in Below(p) : ~ Exists(t, q)
    <2>1. Remove(t, p) = [t EXCEPT ![p] = "none"] BY <1>2 DEF Remove
    <2> DEFINE w == [t EXCEPT ![p] = "none"]
    <2>2. w[p] = "none" /\ \A q \in Paths \ {p} : w[q] = t[q] BY DEF Trees
    <2>3. \A q \in Paths : Exists(t, q) => p \notin Above[q] BY <1>2 DEF Below
    <2>4. WellFormedTree(w) BY <2>2, <2>3 DEF WellFormedTree, Exists, IsDir
    <2> QED BY <2>1, <2>2, <2>3, <2>4 DEF IsFile
  <1> QED BY <1>1, <1>2

(* An edit is laid, or fails: the targets so far stay files either way. *)
LEMMA LayKeeps ==
    ASSUME IInv, TreeInv, ApplyEdit
    PROVE  TreeInv'
  <1> USE HarnessAssumption
  <1> DEFINE n == Len(prior)
             e == edits[n + 1]
             p == e.path
             made == MkdirAll(tree, p)
             w(c) == [made EXCEPT ![p] = c]
  <1>1. /\ pc = "apply" /\ UNCHANGED <<edits, start>> /\ n < Len(edits) /\ n \in Nat
        /\ prior \in Seq(Prior) /\ edits \in Seq(Edit) /\ tree \in Trees /\ start \in Trees
      BY LenProperties DEF ApplyEdit, IInv, TypeOK
  <1>2. n + 1 \in 1..Len(edits)
      BY <1>1, LenProperties
  <1>3. e \in Edit
      BY <1>1, <1>2, ElementOfSeq
  <1>4. p \in Paths /\ e.content \in Files /\ Torn \in Files
      BY <1>3 DEF Edit, Files
  <1>5. WellFormedTree(tree)
      BY DEF TreeInv, TreeWellFormed, WellFormedTree
  <1>6. \A k \in 1..n : IsFile(tree, prior[k].path) /\ prior[k].path \in Paths
    <2> TAKE k \in 1..n
    <2>1. prior[k] \in Prior BY <1>1, ElementOfSeq
    <2> QED BY <1>1, <2>1 DEF TreeInv, Laid, Prior
  (* The records. *)
  <1>7. PICK r \in Prior :
            /\ prior' = Append(prior, r)
            /\ r.path = p
            /\ \/ r.existed /\ IsFile(tree, p) /\ r.content = tree[p] /\ hurt' = hurt
               \/ ~ r.existed /\ ~ IsFile(tree, p) /\ hurt' = hurt
               \/ ~ r.existed /\ hurt' = hurt \cup {p}
    <2>1. IsFile(tree, p) => Found(tree, p) \in Prior
      BY <1>1, <1>4, TreeOps
    <2>2. NotFound(p) \in Prior BY <1>4, TreeOps, <1>1
    <2> QED BY <2>1, <2>2 DEF ApplyEdit, Found, NotFound
  <1>8. /\ Len(prior') = n + 1 /\ prior'[n + 1] = r
        /\ \A k \in 1..n : prior'[k] = prior[k]
      BY <1>1, <1>7, AppendProperties
  (* The tree. *)
  <1>9. \/ /\ pc' = "apply"
           /\ CanMkdirAll(tree, p) /\ ~ IsDir(made, p) /\ tree' = w(e.content)
        \/ /\ pc' = "rollback"
           /\ \/ ~ CanMkdirAll(tree, p) /\ tree' = tree
              \/ CanMkdirAll(tree, p) /\ IsDir(made, p) /\ tree' = made
              \/ /\ CanMkdirAll(tree, p) /\ ~ IsDir(made, p)
                 /\ tree' = tree \/ tree' = made \/ tree' = w(Torn)
      BY <1>1 DEF ApplyEdit
  <1>10. CanMkdirAll(tree, p) =>
            /\ made \in Trees /\ WellFormedTree(made) /\ made[p] = tree[p]
            /\ \A a \in Above[p] : IsDir(made, a)
            /\ \A q \in Paths : made[q] = tree[q] \/ (tree[q] = "none" /\ made[q] = "dir")
      BY <1>1, <1>4, <1>5, Mkdirs, TreeOps
  <1>11. CanMkdirAll(tree, p) /\ ~ IsDir(made, p) =>
            \A c \in Files : /\ WellFormedTree([made EXCEPT ![p] = c])
                             /\ [made EXCEPT ![p] = c][p] = c
                             /\ \A q \in Paths \ {p} : [made EXCEPT ![p] = c][q] = made[q]
      BY <1>4, <1>10, Writes DEF Trees
  <1>11a. \/ tree' = tree /\ pc' = "rollback"
          \/ CanMkdirAll(tree, p) /\ tree' = made /\ pc' = "rollback"
          \/ /\ CanMkdirAll(tree, p) /\ ~ IsDir(made, p) /\ pc' \in {"apply", "rollback"}
             /\ \E c \in Files : tree' = w(c) /\ (pc' = "apply" => c = e.content)
    <2> HIDE DEF made, p, n, e, w
    <2> QED BY <1>4, <1>9
  <1>11b. CanMkdirAll(tree, p) /\ ~ IsDir(made, p) =>
            \A c \in Files : /\ WellFormedTree(w(c))
                             /\ w(c)[p] = c
                             /\ \A q \in Paths \ {p} : w(c)[q] = made[q]
      BY <1>11
  <1> HIDE DEF n, e, p, made, w
  <1>12. WellFormedTree(tree')
      BY <1>5, <1>10, <1>11a, <1>11b
  <1>13. \A q \in Paths \ {p} : tree'[q] = tree[q] \/ (tree[q] = "none" /\ tree'[q] = "dir")
      BY <1>10, <1>11a, <1>11b
  <1>14. /\ pc' = "apply" => tree'[p] = e.content
         /\ IsFile(tree, p) => IsFile(tree', p)
         /\ pc' \in {"apply", "rollback"}
      BY <1>4, <1>10, <1>11a, <1>11b DEF IsFile, IsDir
  <1>15. \A k \in 1..n : IsFile(tree', prior[k].path)
      BY <1>4, <1>6, <1>13, <1>14 DEF IsFile
  <1>20. TreeWellFormed'
      BY <1>12 DEF TreeWellFormed, WellFormedTree, Exists, IsDir
  <1>21. Recorded'
    <2>1. p = edits[n + 1].path BY DEF p, e
    <2> QED BY <1>1, <1>7, <1>8, <1>14, <2>1 DEF TreeInv, Recorded, Busy, n
  <1>22. Laid'
      BY <1>1, <1>4, <1>7, <1>8, <1>14, <1>15 DEF Laid, IsFile
  <1>23. Undoable'
    <2> SUFFICES ASSUME NEW k \in 1..(n + 1)
                 PROVE /\ k < n + 1 => ~ IsDir(tree', prior'[k].path)
                       /\ prior'[k].existed => /\ ~ IsDir(tree', prior'[k].path)
                                              /\ \A a \in Above[prior'[k].path] : IsDir(tree', a)
                       /\ IsDir(tree', prior'[k].path) =>
                             \A j \in 1..(k - 1) : IsFile(tree', prior'[j].path)
        BY <1>8 DEF Undoable, InPlace, IsDir, IsFile
    <2>1. \A q \in Paths : IsFile(tree', q) =>
              ~ IsDir(tree', q) /\ \A a \in Above[q] : IsDir(tree', a)
        BY <1>12 DEF WellFormedTree, IsFile, IsDir, Exists
    <2>2. CASE k \in 1..n
        BY <1>1, <1>6, <1>8, <1>15, <2>1, <2>2
    <2>3. CASE k = n + 1
        BY <1>1, <1>4, <1>6, <1>7, <1>8, <1>14, <1>15, <2>1, <2>3
    <2> QED BY <1>1, <2>2, <2>3
  <1>24. Kept'
    <2>1. ASSUME NEW q \in Paths, q \notin hurt', Unrecorded(q)',
                 IsFile(start, q) \/ IsFile(tree', q)
          PROVE  tree'[q] = start[q]
      <3>1. Unrecorded(q) /\ q # p /\ q \notin hurt
          BY <1>1, <1>7, <1>8, <2>1 DEF Unrecorded, n
      <3>2. IsFile(start, q) \/ IsFile(tree, q) => tree[q] = start[q]
          BY <1>1, <3>1 DEF TreeInv, Kept, Busy
      <3> QED BY <1>13, <2>1, <3>1, <3>2 DEF IsFile
    <2>2. ASSUME NEW k \in 1..(n + 1), prior'[k].path \notin hurt', First(k)'
          PROVE  IF prior'[k].existed THEN prior'[k].content = start[prior'[k].path]
                                      ELSE ~ IsFile(start, prior'[k].path)
      <3>1. CASE k \in 1..n
        <4>1. First(k)
          <5> SUFFICES ASSUME NEW j \in 1..(k - 1) PROVE prior[j].path # prior[k].path
              BY DEF First
          <5>1. j \in 1..n /\ k \in 1..n BY <1>1, <3>1
          <5>2. prior'[j] = prior[j] /\ prior'[k] = prior[k] BY <1>8, <5>1
          <5>3. prior'[j].path # prior'[k].path BY <2>2 DEF First
          <5> QED BY <5>2, <5>3
        <4> QED BY <1>1, <1>7, <1>8, <2>2, <3>1, <4>1 DEF TreeInv, Kept, Busy, n
      <3>2. CASE k = n + 1
        <4>1. Unrecorded(p) /\ p \notin hurt BY <1>1, <1>7, <1>8, <2>2, <3>2 DEF Unrecorded, First, n
        <4>2. IsFile(start, p) \/ IsFile(tree, p) => tree[p] = start[p]
            BY <1>1, <1>4, <4>1 DEF TreeInv, Kept, Busy
        <4> QED BY <1>7, <1>8, <2>2, <3>2, <4>2 DEF IsFile
      <3> QED BY <1>1, <3>1, <3>2
    <2> QED BY <1>1, <1>8, <2>1, <2>2 DEF Kept, Busy, IsFile
  <1>25. Edited'
    <2>1. ASSUME NEW q \in Paths, Unrecorded(q)'
          PROVE  tree'[q] = start[q] \/ (start[q] = "none" /\ tree'[q] = "dir")
      <3>1. Unrecorded(q) /\ q # p
          BY <1>1, <1>7, <1>8, <2>1 DEF Unrecorded, n
      <3> QED BY <1>1, <1>13, <3>1 DEF TreeInv, Edited
    <2>2. ASSUME NEW q \in Paths
          PROVE  Unrecorded(q)' \/ \E k \in 1..(n + 1) : Last(k)' /\ prior'[k].path = q
      <3>1. CASE q = p
        <4>1. \A k \in 1..(n + 1) : k = n + 1 => Last(k)' BY <1>1, <1>8 DEF Last
        <4> QED BY <1>1, <1>7, <1>8, <3>1, <4>1
      <3>2. CASE q # p
        <4>1. CASE Unrecorded(q)
            BY <1>1, <1>7, <1>8, <3>2, <4>1 DEF Unrecorded, n
        <4>2. CASE ~ Unrecorded(q)
          <5>1. PICK k \in 1..n : Last(k) /\ prior[k].path = q
              BY <1>1, <4>2 DEF TreeInv, Edited, n
          <5>2. k \in 1..(n + 1) /\ prior'[k].path = q
              BY <1>1, <1>8, <5>1
          <5>3. Last(k)'
            <6> SUFFICES ASSUME NEW j \in 1..(n + 1), j > k PROVE prior'[j].path # q
                BY <1>8, <5>2 DEF Last
            <6>1. j = n + 1 => prior'[j].path = p BY <1>7, <1>8
            <6>2. j \in 1..n => prior'[j].path # q BY <1>8, <5>1 DEF Last, n
            <6> QED BY <1>1, <3>2, <6>1, <6>2
          <5> QED BY <5>2, <5>3
        <4> QED BY <4>1, <4>2
      <3> QED BY <3>1, <3>2
    <2>3. ASSUME pc' = "apply", NEW k \in 1..(n + 1), Last(k)'
          PROVE  tree'[prior'[k].path] = edits[k].content
      <3>1. CASE k \in 1..n
        <4>1. Last(k)
            BY <1>1, <1>8, <2>3, <3>1 DEF Last, n
        <4>2. tree[prior[k].path] = edits[k].content
            BY <1>1, <3>1, <4>1 DEF TreeInv, Edited, n
        <4>3. prior[k].path # p
            BY <1>1, <1>7, <1>8, <2>3, <3>1 DEF Last
        <4> QED BY <1>6, <1>8, <1>13, <3>1, <4>2, <4>3 DEF IsFile
      <3>2. CASE k = n + 1
          BY <1>7, <1>8, <1>14, <2>3, <3>2 DEF e
      <3> QED BY <1>1, <3>1, <3>2
    <2> QED BY <1>1, <1>8, <2>1, <2>2, <2>3 DEF Edited
  <1>26. FilesRestored' /\ TestedTreeIsEdited'
      BY <1>14 DEF FilesRestored, TestedTreeIsEdited
  <1> QED BY <1>20, <1>21, <1>22, <1>23, <1>24, <1>25, <1>26 DEF TreeInv

(* The latest record is undone, or the error is ignored. *)
LEMMA UndoKeeps ==
    ASSUME IInv, TreeInv, RollBackOne
    PROVE  TreeInv'
  <1> USE HarnessAssumption
  <1> DEFINE n == Len(prior)
             pf == prior[n]
             p == pf.path
  <1>1. /\ pc = "rollback" /\ pc' = "rollback" /\ UNCHANGED <<edits, start>>
        /\ n \in Nat /\ n > 0 /\ prior \in Seq(Prior) /\ tree \in Trees /\ start \in Trees
      BY LenProperties DEF RollBackOne, IInv, TypeOK
  <1>2. \A k \in 1..n : prior[k] \in Prior
      BY <1>1, ElementOfSeq
  <1>3. \A k \in 1..n : prior[k].path \in Paths
      BY <1>2 DEF Prior
  <1>4. n \in 1..n /\ pf \in Prior /\ p \in Paths /\ pf.content \in Files /\ Torn \in Files
      BY <1>1, <1>2 DEF Prior, Files
  <1>5. /\ Len(prior') = n - 1 /\ n - 1 \in Nat
        /\ \A k \in 1..(n - 1) : k \in 1..n /\ prior'[k] = prior[k]
    <2>1. prior' = SubSeq(prior, 1, n - 1) BY DEF RollBackOne
    <2>2. Len(prior') = n - 1 BY <1>1, <1>4, <2>1, WithoutLast
    <2>3. \A k \in 1..(n - 1) : prior'[k] = prior[k] BY <1>1, <2>1
    <2> QED BY <1>1, <2>2, <2>3
  <1>6. WellFormedTree(tree)
      BY DEF TreeInv, TreeWellFormed, WellFormedTree
  <1>7. /\ pf.existed => ~ IsDir(tree, p) /\ \A a \in Above[p] : IsDir(tree, a)
        /\ IsDir(tree, p) => \A j \in 1..(n - 1) : IsFile(tree, prior[j].path)
        /\ \A k \in 1..(n - 1) : /\ ~ IsDir(tree, prior[k].path)
                                 /\ prior[k].existed => \A a \in Above[prior[k].path] : IsDir(tree, a)
      BY <1>1, <1>4 DEF TreeInv, Undoable, InPlace
  (* The tree: the file is written back, or what was not there is removed. *)
  <1> DEFINE w(c) == [tree EXCEPT ![p] = c]
             rm == Remove(tree, p)
  <1>8. \/ /\ hurt' = hurt
           /\ \/ pf.existed /\ tree' = w(pf.content)
              \/ ~ pf.existed /\ tree' = rm
        \/ /\ hurt' = hurt \cup {p}
           /\ tree' = tree \/ (pf.existed /\ tree' = w(Torn))
      BY DEF RollBackOne, Undo
  <1>9. pf.existed => \A c \in Files : /\ WellFormedTree(w(c)) /\ w(c)[p] = c
                                       /\ \A q \in Paths \ {p} : w(c)[q] = tree[q]
    <2> HIDE DEF p, pf
    <2> SUFFICES ASSUME pf.existed, NEW c \in Files
                 PROVE  /\ WellFormedTree(w(c)) /\ w(c)[p] = c
                        /\ \A q \in Paths \ {p} : w(c)[q] = tree[q]
        OBVIOUS
    <2>1. ~ IsDir(tree, p) /\ \A a \in Above[p] : IsDir(tree, a)
        BY <1>7
    <2>2. WellFormedTree([tree EXCEPT ![p] = c])
        BY <1>1, <1>4, <1>6, <2>1, Writes
    <2> QED BY <1>1, <1>4, <2>2 DEF Trees
  <1>10. /\ WellFormedTree(rm) /\ ~ IsFile(rm, p) /\ rm[p] \in {tree[p], "none"}
         /\ \A q \in Paths \ {p} : rm[q] = tree[q]
         /\ rm = tree \/ \A q \in Paths : Exists(tree, q) => p \notin Above[q]
      BY <1>1, <1>4, <1>6, Removes
  <1> HIDE DEF n, pf, p, w, rm
  <1>11. WellFormedTree(tree')
      BY <1>4, <1>6, <1>8, <1>9, <1>10
  <1>12. \A q \in Paths \ {p} : tree'[q] = tree[q]
      BY <1>4, <1>8, <1>9, <1>10
  <1>13. ~ IsDir(tree, p) => ~ IsDir(tree', p)
      BY <1>4, <1>8, <1>9, <1>10 DEF IsDir
  <1>20. TreeWellFormed'
      BY <1>11 DEF TreeWellFormed, WellFormedTree, Exists, IsDir
  <1>21. Recorded' /\ Laid' /\ Edited' /\ FilesRestored' /\ TestedTreeIsEdited'
      BY <1>1, <1>5 DEF TreeInv, Recorded, Busy, Laid, Edited, FilesRestored, TestedTreeIsEdited, n
  <1>22. Undoable'
    <2> SUFFICES ASSUME NEW k \in 1..(n - 1)
                 PROVE  /\ ~ IsDir(tree', prior[k].path)
                        /\ prior[k].existed => \A a \in Above[prior[k].path] : IsDir(tree', a)
        BY <1>5 DEF Undoable, InPlace, IsDir, IsFile
    <2>1. ~ IsDir(tree', prior[k].path)
        BY <1>3, <1>5, <1>7, <1>12, <1>13 DEF IsDir
    <2>2. ASSUME prior[k].existed, NEW a \in Above[prior[k].path]
          PROVE  IsDir(tree', a)
      <3>1. IsDir(tree, a) /\ a \in Paths /\ prior[k].path \in Paths
          BY <1>3, <1>5, <1>7, <2>2
      <3>2. CASE a # p
          BY <1>12, <3>1, <3>2 DEF IsDir
      <3>3. CASE a = p       \* the directory that could not be written holds a file
        <4>1. ~ pf.existed /\ IsFile(tree, prior[k].path)
            BY <1>7, <3>1, <3>3
        <4>2. Exists(tree, prior[k].path)
            BY <4>1 DEF IsFile, Exists
        <4>3. tree' = tree
            BY <1>8, <1>10, <2>2, <3>1, <3>3, <4>1, <4>2
        <4> QED BY <3>1, <4>3
      <3> QED BY <3>2, <3>3
    <2> QED BY <2>1, <2>2
  <1>23. Kept'
    <2>1. ASSUME NEW q \in Paths, q \notin hurt', Unrecorded(q)',
                 IsFile(start, q) \/ IsFile(tree', q)
          PROVE  tree'[q] = start[q]
      <3>1. q \notin hurt /\ \A k \in 1..(n - 1) : prior[k].path # q
          BY <1>5, <1>8, <2>1 DEF Unrecorded
      <3>2. CASE q # p
        <4>1. Unrecorded(q)
            BY <1>1, <1>5, <3>1, <3>2 DEF Unrecorded, n, p, pf
        <4> QED BY <1>1, <1>12, <2>1, <3>1, <3>2, <4>1 DEF TreeInv, Kept, Busy, IsFile
      <3>3. CASE q = p
        <4>1. First(n)
            BY <3>1, <3>3 DEF First, p, pf
        <4>2. IF pf.existed THEN pf.content = start[p] ELSE ~ IsFile(start, p)
            BY <1>1, <1>4, <3>1, <3>3, <4>1 DEF TreeInv, Kept, Busy, n, p, pf
        <4> QED BY <1>4, <1>8, <1>9, <1>10, <2>1, <3>3, <4>2 DEF IsFile
      <3> QED BY <3>2, <3>3
    <2>2. ASSUME NEW k \in 1..(n - 1), prior'[k].path \notin hurt', First(k)'
          PROVE  IF prior'[k].existed THEN prior'[k].content = start[prior'[k].path]
                                      ELSE ~ IsFile(start, prior'[k].path)
      <3>1. First(k)
          BY <1>1, <1>5, <2>2 DEF First
      <3> QED BY <1>1, <1>5, <1>8, <2>2, <3>1 DEF TreeInv, Kept, Busy, n
    <2> QED BY <1>1, <1>5, <2>1, <2>2 DEF Kept, Busy, IsFile
  <1> QED BY <1>20, <1>21, <1>22, <1>23 DEF TreeInv

(* The other steps leave the tree alone. *)
LEMMA NextTreeInv == IInv /\ TreeInv /\ [Next]_vars => TreeInv'
  <1> SUFFICES ASSUME IInv, TreeInv, [Next]_vars, ~ ApplyEdit, ~ RollBackOne PROVE TreeInv'
      BY LayKeeps, UndoKeeps
  <1> USE DEF TreeInv, TreeWellFormed, WellFormedTree, Exists, IsDir, IsFile
  <1>1. CASE Call
      BY <1>1 DEF Call, Returned, Recorded, Busy, Laid, Undoable, Kept, Edited, FilesRestored,
         TestedTreeIsEdited
  <1>2. CASE Complete
    <2>1. UNCHANGED <<tree, prior, start, hurt>> /\ pc' \in {"prompt", "check", "failed"}
          /\ tree = start /\ prior = <<>>
      BY <1>2 DEF Complete, IInv, Untouched, Recorded
    <2> QED BY <2>1 DEF Recorded, Busy, Laid, Undoable, Kept, Edited, FilesRestored,
         TestedTreeIsEdited
  <1>3. CASE CheckPaths
    <2>1. UNCHANGED <<tree, prior, start, hurt, edits>> /\ pc' \in {"apply", "failed"}
          /\ tree = start /\ prior = <<>>
      BY <1>3 DEF CheckPaths, IInv, Untouched, Recorded
    <2>2. Len(prior) = 0 BY <2>1
    <2> QED BY <2>1, <2>2 DEF Recorded, Busy, Laid, Undoable, Kept, Edited, FilesRestored,
         TestedTreeIsEdited, Unrecorded
  <1>4. CASE RunTest
    <2>1. UNCHANGED <<tree, prior, start, hurt, edits>> /\ pc = "apply"
          /\ pc' \in {"ok", "rollback"} /\ Len(prior) = Len(edits)
      BY <1>4 DEF RunTest
    <2>2. TreeWellFormed' /\ Recorded' /\ Laid' /\ Kept' /\ Edited' /\ FilesRestored'
      BY <2>1 DEF Recorded, Busy, Laid, Kept, Edited, FilesRestored, Unrecorded, First, Last
    <2>3. Undoable'
      <3>1. \A k \in 1..Len(prior) : prior[k].path \in Paths
        <4> TAKE k \in 1..Len(prior)
        <4>1. prior[k] \in Prior BY ElementOfSeq DEF IInv, TypeOK
        <4> QED BY <4>1 DEF Prior
      <3>2. \A k \in 1..Len(prior) : Exists(tree, prior[k].path) /\ ~ IsDir(tree, prior[k].path)
        BY <2>1, HarnessAssumption DEF Laid
      <3> QED BY <2>1, <3>1, <3>2 DEF Undoable, InPlace, Laid
    <2>4. TestedTreeIsEdited'
      <3>1. DOMAIN edits = 1..Len(prior) BY <2>1, LenProperties DEF IInv, TypeOK
      <3>2. \A k \in 1..Len(prior) : prior[k].path = edits[k].path
        BY <2>1 DEF Recorded, Busy
      <3>3. \A p \in Paths : LastEdit(p) = {k \in 1..Len(prior) : prior[k].path = p /\ Last(k)}
        BY <3>1, <3>2 DEF LastEdit, Last
      <3>4. \A p \in Paths : LastEdit(p) = {} => Unrecorded(p)
        BY <2>1, <3>3 DEF Edited
      <3>5. \A p \in Paths : \A k \in LastEdit(p) : tree[p] = edits[k].content
        BY <2>1, <3>3 DEF Edited
      <3>6. \A p \in Paths : LastEdit(p)' = LastEdit(p)
        BY <2>1 DEF LastEdit
      <3> QED BY <2>1, <3>4, <3>5, <3>6 DEF TestedTreeIsEdited, Edited
    <2> QED BY <2>2, <2>3, <2>4
  <1>5. CASE RollBackDone
    <2>1. UNCHANGED <<tree, prior, start, hurt>> /\ pc = "rollback" /\ pc' = "failed" /\ Len(prior) = 0
      BY <1>5 DEF RollBackDone
    <2> QED BY <2>1 DEF Recorded, Busy, Laid, Undoable, Kept, Edited, FilesRestored,
         TestedTreeIsEdited, Unrecorded
  <1>6. CASE Crash
    <2>1. UNCHANGED <<tree, prior, start, hurt>> /\ pc' = "down"
      BY <1>6 DEF Crash
    <2> QED BY <2>1 DEF Recorded, Busy, Laid, Undoable, Kept, Edited, FilesRestored,
         TestedTreeIsEdited, Unrecorded, First
  <1>7. CASE UNCHANGED vars
      BY <1>7 DEF vars, Recorded, Busy, Laid, Undoable, InPlace, Kept, Edited, FilesRestored,
         TestedTreeIsEdited, Unrecorded, First, Last, LastEdit
  <1> QED BY <1>1, <1>2, <1>3, <1>4, <1>5, <1>6, <1>7 DEF Next, Step

(* What the records and the tree say together holds of every behaviour. *)
THEOREM TreeInvariance == Spec => []TreeInv
  <1>1. Init => TreeInv
      BY HarnessAssumption DEF Init, TreeInv, TreeWellFormed, WellFormedTree, Exists, IsDir, Recorded, Busy, Laid,
         Undoable, Kept, Edited, FilesRestored, TestedTreeIsEdited
  <1> QED BY <1>1, NextTreeInv, Invariance, PTL DEF Spec

(* At every moment the records suffice to undo what Drive has done. *)
THEOREM SnapshotSuffices == Spec => []RecordsSuffice
  <1>1. IInv /\ TreeInv => RecordsSuffice
    <2> SUFFICES ASSUME IInv, Kept PROVE RecordsSuffice
        BY DEF TreeInv
    <2>1. DOMAIN prior = 1..Len(prior)
        BY LenProperties DEF IInv, TypeOK
    <2>2. \A p \in Paths \ hurt :
              (IsFile(start, p) \/ IsFile(tree, p)) /\ tree[p] # start[p] =>
                  \E k \in 1..Len(prior) : prior[k].path = p
        BY DEF Kept, Unrecorded
    <2>3. \A k \in 1..Len(prior) :
              prior[k].path \notin hurt /\ (\A j \in 1..(k - 1) : prior[j].path # prior[k].path) =>
                  IF prior[k].existed THEN prior[k].content = start[prior[k].path]
                                      ELSE ~ IsFile(start, prior[k].path)
        BY DEF Kept, First
    <2> QED BY <2>1, <2>2, <2>3 DEF RecordsSuffice
  <1> QED BY <1>1, Invariance, TreeInvariance, PTL

(* A Drive that returns an error leaves every file as it found it, but for *)
(* the targets of file errors it has ignored.                              *)
THEOREM RollbackRestores == Spec => []FilesRestored
  <1>1. TreeInv => FilesRestored
      BY DEF TreeInv
  <1> QED BY <1>1, TreeInvariance, PTL

(* A Drive that succeeds has tested the old tree with all edits laid over  *)
(* it in their order.                                                      *)
THEOREM TestedIsEdited == Spec => []TestedTreeIsEdited
  <1>1. TreeInv => TestedTreeIsEdited
      BY DEF TreeInv
  <1> QED BY <1>1, TreeInvariance, PTL
=============================================================================
