--------------------------- MODULE ServingHarness ---------------------------
(***************************************************************************)
(* internal/harness/serving: Drive of the built-in harness, called again   *)
(* and again by the control loop on one working tree.  It asks the model   *)
(* for edits, applies them one file after another, runs the acceptance     *)
(* test, and rolls back, file by file, on any failure.                     *)
(*                                                                         *)
(* The working tree is a function from paths to "none", "dir" or the       *)
(* content of a file.  A model's answer is the sequence of the file blocks *)
(* in it; prompts and the patch header are left out.                       *)
(***************************************************************************)
EXTENDS Naturals, Sequences

CONSTANTS Paths,            \* cleaned edit targets
          Above,            \* Above[p]: the directories p lies in, below the root
          Escaping,         \* the paths that resolve outside the workspace
          Contents,         \* file contents
          Answers,          \* what the model may answer
          MaxParseRetries,  \* Adapter.maxParseRetries
          Faults,           \* "io": a file operation fails; "crash": Drive dies
          InitTrees         \* working trees a Drive may start from

NoPath == "unnamed"   \* the path of a block that names none
Torn == "torn"   \* what a failed WriteFile leaves: truncated, or half written
Files == Contents \cup {Torn}
Trees == [Paths -> {"none", "dir"} \cup Files]
Edit  == [path: Paths, content: Contents]
Block == [path: Paths \cup {NoPath}, content: Contents, closed: BOOLEAN]

ASSUME HarnessAssumption ==
    /\ Above \in [Paths -> SUBSET Paths]
    /\ \A p \in Paths : p \notin Above[p] /\ \A a \in Above[p] : Above[a] \subseteq Above[p]
    /\ Escaping \subseteq Paths /\ NoPath \notin Paths
    /\ "none" \notin Files /\ "dir" \notin Files
    /\ Answers \subseteq Seq(Block)
    /\ MaxParseRetries \in Nat
    /\ Faults \subseteq {"io", "crash"}
    /\ InitTrees \subseteq Trees
    /\ \A t \in InitTrees : \A p \in Paths : t[p] # "none" => \A a \in Above[p] : t[a] = "dir"

VARIABLES pc,       \* where Drive is
          tree,     \* the working tree
          attempt,  \* completions asked for so far
          edits,    \* the parsed answer
          prior,    \* snapshot.prior, one record per edit begun
          start,    \* history: the tree when Drive was called
          hurt      \* history: the targets of file errors this Drive has ignored

vars == <<pc, tree, attempt, edits, prior, start, hurt>>

Prior == [path: Paths, existed: BOOLEAN, content: Files]
Returned == {"idle", "ok", "failed", "down"}   \* not in Drive

TypeOK == /\ pc \in Returned \cup {"prompt", "check", "apply", "rollback"}
          /\ tree \in Trees
          /\ attempt \in 0..(MaxParseRetries + 1)
          /\ edits \in Seq(Edit)
          /\ prior \in Seq(Prior)
          /\ start \in Trees
          /\ hurt \subseteq Paths

Init == /\ pc = "idle"
        /\ tree \in InitTrees
        /\ attempt = 0 /\ edits = <<>> /\ prior = <<>>
        /\ start = tree /\ hurt = {}

-----------------------------------------------------------------------------
(* The file system. *)
Exists(t, p)   == t[p] # "none"
IsFile(t, p)   == t[p] \in Files
IsDir(t, p)    == t[p] = "dir"
Below(p)       == {q \in Paths : p \in Above[q]}

(* MkdirAll of p's directory fails if a file is in the way. *)
CanMkdirAll(t, p) == \A a \in Above[p] : ~ IsFile(t, a)
MkdirAll(t, p)    == [q \in Paths |-> IF q \in Above[p] THEN "dir" ELSE t[q]]

(* Remove removes a file or an empty directory. *)
Remove(t, p) == IF \E q \in Below(p) : Exists(t, q) THEN t
                ELSE [t EXCEPT ![p] = "none"]

(* What applyEdits remembers of a target: the file, or, when ReadFile      *)
(* fails for whatever reason, that there was none.                         *)
Found(t, p)    == [path |-> p, existed |-> TRUE, content |-> t[p]]
NotFound(p)    == [path |-> p, existed |-> FALSE, content |-> Torn]

(* Slip: what was not there before is left. *)
Undo_KeepsNew(t, pf) == IF pf.existed THEN [t EXCEPT ![pf.path] = pf.content] ELSE t

(* Undoing one record of the snapshot. *)
Undo(t, pf) == IF pf.existed THEN [t EXCEPT ![pf.path] = pf.content]
               ELSE Remove(t, pf.path)

-----------------------------------------------------------------------------
(* parseEdits rejects an answer without a file block, with a block that    *)
(* names no path, or with one that is not terminated.                      *)
WellFormed(answer) == /\ answer # <<>>
                      /\ \A k \in DOMAIN answer : answer[k].path # NoPath /\ answer[k].closed

parseEdits(answer) ==
    [k \in DOMAIN answer |-> [path |-> answer[k].path, content |-> answer[k].content]]

(* safePath refuses absolute paths and those that leave the workspace, by  *)
(* their text: no link is followed.                                        *)
safePath(p) == p \notin Escaping

(* The loop calls Drive. *)
Call ==
    /\ pc \in Returned
    /\ pc' = "prompt"
    /\ attempt' = 0 /\ edits' = <<>> /\ prior' = <<>>
    /\ start' = tree /\ hurt' = {}
    /\ UNCHANGED tree

(* Slips of the parse retry: one completion too many, and none counted. *)
Complete_OffByOne ==
    /\ pc = "prompt"
    /\ attempt' = attempt + 1
    /\ \/ pc' = "failed" /\ UNCHANGED edits
       \/ /\ pc' = IF attempt <= MaxParseRetries THEN "prompt" ELSE "failed"
          /\ UNCHANGED edits
       \/ \E answer \in Answers : WellFormed(answer) /\ edits' = parseEdits(answer) /\ pc' = "check"
    /\ UNCHANGED <<tree, prior, start, hurt>>

Complete_Uncounted ==
    /\ pc = "prompt"
    /\ \/ pc' = "failed" /\ UNCHANGED <<attempt, edits>>
       \/ attempt' = (attempt + 1) % 2 /\ UNCHANGED <<pc, edits>>
       \/ \E answer \in Answers : WellFormed(answer) /\ edits' = parseEdits(answer) /\ pc' = "check" /\ UNCHANGED attempt
    /\ UNCHANGED <<tree, prior, start, hurt>>

(* One completion: the endpoint fails, the answer is malformed (asked      *)
(* again while retries remain), or it holds edits.                         *)
Complete ==
    /\ pc = "prompt"
    /\ attempt' = attempt + 1
    /\ \/ pc' = "failed" /\ UNCHANGED edits
       \/ \E answer \in Answers :
             \/ /\ ~ WellFormed(answer)
                /\ pc' = IF attempt < MaxParseRetries THEN "prompt" ELSE "failed"
                /\ UNCHANGED edits
             \/ /\ WellFormed(answer)
                /\ pc' = "check" /\ edits' = parseEdits(answer)
    /\ UNCHANGED <<tree, prior, start, hurt>>

(* Slip: only the first target is checked. *)
CheckPaths_First ==
    /\ pc = "check"
    /\ pc' = IF safePath(edits[1].path) THEN "apply" ELSE "failed"
    /\ UNCHANGED <<tree, attempt, edits, prior, start, hurt>>

(* safePath on every target, before anything is written. *)
CheckPaths ==
    /\ pc = "check"
    /\ pc' = IF \A k \in DOMAIN edits : safePath(edits[k].path)
               THEN "apply" ELSE "failed"
    /\ UNCHANGED <<tree, attempt, edits, prior, start, hurt>>

(* applyEdits, one edit: remember, make the directories, write.  A target  *)
(* that cannot be written sends Drive to its rollback.                     *)
ApplyEdit ==
    LET e    == edits[Len(prior) + 1]
        made == MkdirAll(tree, e.path)
    IN  /\ pc = "apply"
        /\ Len(prior) < Len(edits)
        /\ \/ /\ IsFile(tree, e.path)
              /\ prior' = Append(prior, Found(tree, e.path)) /\ UNCHANGED hurt
           \/ /\ ~ IsFile(tree, e.path)
              /\ prior' = Append(prior, NotFound(e.path)) /\ UNCHANGED hurt
           \/ /\ "io" \in Faults /\ IsFile(tree, e.path)
              /\ prior' = Append(prior, NotFound(e.path)) /\ hurt' = hurt \cup {e.path}
        /\ \/ /\ CanMkdirAll(tree, e.path) /\ ~ IsDir(made, e.path)
              /\ tree' = [made EXCEPT ![e.path] = e.content]
              /\ UNCHANGED pc
           \/ /\ pc' = "rollback"
              /\ \/ ~ CanMkdirAll(tree, e.path) /\ UNCHANGED tree
                 \/ CanMkdirAll(tree, e.path) /\ IsDir(made, e.path) /\ tree' = made
                 \/ /\ "io" \in Faults
                    /\ CanMkdirAll(tree, e.path) /\ ~ IsDir(made, e.path)
                    /\ tree' \in {tree, made, [made EXCEPT ![e.path] = Torn]}
        /\ UNCHANGED <<attempt, edits, start>>

(* Slip: the test runs before the last edit is in. *)
RunTest_Early ==
    /\ pc = "apply"
    /\ Len(prior) + 1 >= Len(edits)
    /\ pc' \in {"ok", "rollback"}
    /\ UNCHANGED <<tree, attempt, edits, prior, start, hurt>>

(* All edits are in: run the acceptance test, which passes, fails or       *)
(* cannot be run.                                                          *)
RunTest ==
    /\ pc = "apply"
    /\ Len(prior) = Len(edits)
    /\ pc' \in {"ok", "rollback"}
    /\ UNCHANGED <<tree, attempt, edits, prior, start, hurt>>

(* Slip: the records are undone in the order they were made. *)
RollBackOne_Forward ==
    /\ pc = "rollback"
    /\ prior # <<>>
    /\ prior' = Tail(prior)
    /\ tree' = Undo(tree, prior[1])
    /\ UNCHANGED <<pc, attempt, edits, start, hurt>>

(* rollback, one record: the latest first, errors ignored. *)
RollBackOne ==
    LET n == Len(prior) IN
    /\ pc = "rollback"
    /\ n > 0
    /\ prior' = SubSeq(prior, 1, n - 1)
    /\ \/ tree' = Undo(tree, prior[n]) /\ UNCHANGED hurt
       \/ /\ "io" \in Faults
          /\ tree' \in {tree} \cup (IF prior[n].existed
                                      THEN {[tree EXCEPT ![prior[n].path] = Torn]}
                                      ELSE {})
          /\ hurt' = hurt \cup {prior[n].path}
    /\ UNCHANGED <<pc, attempt, edits, start>>

RollBackDone ==
    /\ pc = "rollback"
    /\ prior = <<>>
    /\ pc' = "failed"
    /\ UNCHANGED <<tree, attempt, edits, prior, start, hurt>>

(* The process dies; nothing undoes what it has applied, and the Drive of  *)
(* the next process starts from that tree.                                 *)
Crash ==
    /\ "crash" \in Faults
    /\ pc \notin Returned
    /\ pc' = "down"
    /\ UNCHANGED <<tree, attempt, edits, prior, start, hurt>>

Step == \/ Complete \/ CheckPaths \/ ApplyEdit \/ RunTest
        \/ RollBackOne \/ RollBackDone

Next == Call \/ Step \/ Crash

Spec == Init /\ [][Next]_vars

FairSpec == Spec /\ WF_vars(Step)
-----------------------------------------------------------------------------
(* "Rolling back on any failure" (Drive): when it returns an error every   *)
(* file has the content it had and no file is left over, also if the edits *)
(* name a file twice, a write stopped half way or a target was a           *)
(* directory.  Only a target of one of the file errors Drive ignores (the  *)
(* read of a file that exists, a step of the rollback) may differ.         *)
FilesRestored ==
    pc = "failed" =>
        \A p \in Paths \ hurt : IsFile(start, p) \/ IsFile(tree, p) => tree[p] = start[p]

(* When Drive succeeds, the tree the test has passed on is the old tree    *)
(* with the edits laid over it in their order, the last one winning.       *)
LastEdit(p) == {k \in DOMAIN edits : /\ edits[k].path = p
                                     /\ \A j \in DOMAIN edits : j > k => edits[j].path # p}

TestedTreeIsEdited ==
    pc = "ok" =>
        \A p \in Paths :
            IF LastEdit(p) # {}
              THEN \A k \in LastEdit(p) : tree[p] = edits[k].content
              ELSE tree[p] = start[p] \/ (start[p] = "none" /\ tree[p] = "dir")

(* The workspace sandbox is checked before anything is written: an answer  *)
(* with one target outside the workspace changes nothing, not even the     *)
(* targets inside it that it lists first.                                  *)
SandboxAllOrNothing ==
    (\E k \in DOMAIN edits : edits[k].path \in Escaping) => tree = start

(* The records suffice at every moment, so whenever Drive stops or dies    *)
(* what it leaves untested is known: a file that is not as Drive found it  *)
(* is the target of a record still to be undone, or of an ignored error,   *)
(* and the first record of a file says what was there, however often the   *)
(* edits name it, however far they and the rollback have come.             *)
RecordsSuffice ==
    /\ \A p \in Paths \ hurt :
           (IsFile(start, p) \/ IsFile(tree, p)) /\ tree[p] # start[p] =>
               \E k \in DOMAIN prior : prior[k].path = p
    /\ \A k \in DOMAIN prior :
           prior[k].path \notin hurt /\ (\A j \in 1..(k - 1) : prior[j].path # prior[k].path) =>
               IF prior[k].existed THEN prior[k].content = start[prior[k].path]
                                   ELSE ~ IsFile(start, prior[k].path)

(* Drive returns: malformed answers, failed applies and rollbacks are      *)
(* bounded work.                                                           *)
DriveReturns == pc = "prompt" ~> pc \in Returned

(* rollback "restores the working tree to its pre-apply state". *)
RollbackRestoresTree == pc = "failed" /\ hurt = {} => tree = start
=============================================================================
