------------------------------- MODULE Versioning -------------------------------
(***************************************************************************)
(* Local versions of the data repository.  A handler changes files and     *)
(* then records a version: a row of git commands, each of which holds      *)
(* gitMu, while other handlers change files and record versions in         *)
(* between.  The index they stage into is one and the same.                *)
(*                                                                         *)
(* The contents of a file are numbered, the odd ones are a file that       *)
(* exists; two absent files are the same to git.  A bulk deletion is one   *)
(* of BulkFiles staged files; the guard against emptied files is among the *)
(* errors any command may end with, with git failing, its minute being     *)
(* over and the request being cancelled.                                   *)
(***************************************************************************)
EXTENDS Naturals, FiniteSets

CONSTANTS File,
          PrivatePath,   \* private-notes/notes and private-notes/.keys
          RuntimePath,   \* .nexus
          Recorder,      \* handlers
          BulkFiles,     \* deletions that are refused
          MaxContent     \* bound: of the contents of a file

ASSUME VersioningConstants ==
  /\ PrivatePath \cup RuntimePath \subseteq File /\ PrivatePath \cap RuntimePath = {}
  /\ BulkFiles \in Nat /\ MaxContent \in Nat

VARIABLES
  tree, gitIndex, head,  \* contents of every file in the three places
  ignored,            \* .gitignore names the private paths
  recorder,           \* where each handler is
  unrecorded          \* observation: changes of a handler whose recording
                      \* succeeded that are in no version

versionVars == <<tree, gitIndex, head, ignored, recorder, unrecorded>>

Resting == [at |-> "rest", wrote |-> {}, list |-> {}]

VersioningInit ==
  /\ tree = [f \in File |-> 0] /\ gitIndex = tree /\ head = tree
  /\ ignored = TRUE
  /\ recorder = [r \in Recorder |-> Resting]
  /\ unrecorded = {}

There(v) == v % 2 = 1
Same(v, w) == v = w \/ (~There(v) /\ ~There(w))
IsAt(r, at) == recorder[r].at = at
Goto(r, at) == recorder' = [recorder EXCEPT ![r].at = at]
Unignored == File \ (IF ignored THEN PrivatePath ELSE {})

(* A handler creates, changes or deletes files and calls MarkChanged.      *)
Change(r, f) ==
  /\ recorder[r].at \in {"rest", "changed"}
  /\ \E v \in 1..MaxContent :
       /\ v = tree[f] + 1 \/ (v = tree[f] + 2 /\ There(v))
       /\ tree' = [tree EXCEPT ![f] = v]
       /\ recorder' = [recorder EXCEPT ![r].wrote = @ \cup {<<f, v>>}, ![r].at = "changed"]
  /\ UNCHANGED <<gitIndex, head, ignored, unrecorded>>

(* The operator edits .gitignore; the private notes store restores it.     *)
EditIgnore == ignored' = ~ignored /\ UNCHANGED <<tree, gitIndex, head, recorder, unrecorded>>

(* Record returns without an error.                                        *)
Missed(r) == {w \in recorder[r].wrote :
                LET f == w[1]  v == w[2]
                IN  /\ f \notin PrivatePath \cup RuntimePath
                    /\ head[f] < v /\ tree[f] <= v /\ ~Same(head[f], v)}
Succeed(r) == recorder' = [recorder EXCEPT ![r] = Resting] /\ unrecorded' = unrecorded \cup Missed(r)

(* git status.                                                             *)
Differs(f) ==
  \/ ~Same(head[f], gitIndex[f])
  \/ (~Same(gitIndex[f], tree[f]) /\ (f \in Unignored \/ There(gitIndex[f])))
IsDirty == \E f \in File \ RuntimePath : Differs(f)
Status(r) ==
  /\ IsAt(r, "changed")
  /\ IF IsDirty THEN Goto(r, "guard") /\ UNCHANGED unrecorded ELSE Succeed(r)
  /\ UNCHANGED <<tree, gitIndex, head, ignored>>

Others == {f \in Unignored : There(tree[f]) /\ ~There(gitIndex[f])}
Exposed == {f \in PrivatePath : There(gitIndex[f])} \cup (PrivatePath \cap Others)
GuardPrivate(r) ==
  /\ IsAt(r, "guard")
  /\ IF Exposed = {} THEN Goto(r, "update") ELSE recorder' = [recorder EXCEPT ![r] = Resting]
  /\ UNCHANGED <<tree, gitIndex, head, ignored, unrecorded>>

(* stageRecallChanges: the tracked files, a list of the others, and these. *)
AddTracked(r) ==
  /\ IsAt(r, "update")
  /\ gitIndex' = [f \in File |-> IF There(gitIndex[f]) /\ f \notin RuntimePath THEN tree[f] ELSE gitIndex[f]]
  /\ Goto(r, "others")
  /\ UNCHANGED <<tree, head, ignored, unrecorded>>

\* Mutant: ignored files are trusted to be ignored.
RefusedNever(S) == FALSE

Refused(S) == S \cap PrivatePath # {}
ListOthers(r) ==
  /\ IsAt(r, "others")
  /\ recorder' = IF Refused(Others) THEN [recorder EXCEPT ![r] = Resting]
                 ELSE [recorder EXCEPT ![r].at = "add", ![r].list = Others \ RuntimePath]
  /\ UNCHANGED <<tree, gitIndex, head, ignored, unrecorded>>

(* git add of a file that is gone fails and stages nothing.                *)
AddOthers(r) ==
  /\ IsAt(r, "add")
  /\ IF \A f \in recorder[r].list : There(tree[f]) \/ There(gitIndex[f])
     THEN /\ gitIndex' = [f \in File |-> IF f \in recorder[r].list THEN tree[f] ELSE gitIndex[f]]
          /\ Goto(r, "staged")
     ELSE UNCHANGED gitIndex /\ recorder' = [recorder EXCEPT ![r] = Resting]
  /\ UNCHANGED <<tree, head, ignored, unrecorded>>

(* What is refused here stays staged.                                      *)
StagedDeletions == {f \in File : There(head[f]) /\ ~There(gitIndex[f])}
GuardBulk(r) ==
  /\ IsAt(r, "staged")
  /\ IF Cardinality(StagedDeletions) >= BulkFiles THEN recorder' = [recorder EXCEPT ![r] = Resting]
     ELSE Goto(r, "commit")
  /\ UNCHANGED <<tree, gitIndex, head, ignored, unrecorded>>

NothingStaged == \A f \in File : Same(head[f], gitIndex[f])
Commit(r) ==
  /\ IsAt(r, "commit")
  /\ IF NothingStaged THEN Goto(r, "recheck") /\ UNCHANGED <<head, unrecorded>>
     ELSE head' = gitIndex /\ Goto(r, "log") /\ UNCHANGED unrecorded
  /\ UNCHANGED <<tree, gitIndex, ignored>>

(* git log for the answer.                                                 *)
ReadLog(r) == IsAt(r, "log") /\ Succeed(r) /\ UNCHANGED <<tree, gitIndex, head, ignored>>

Recheck(r) ==
  /\ IsAt(r, "recheck")
  /\ IF IsDirty THEN recorder' = [recorder EXCEPT ![r] = Resting] /\ UNCHANGED unrecorded ELSE Succeed(r)
  /\ UNCHANGED <<tree, gitIndex, head, ignored>>

CommandFails(r) ==
  /\ ~IsAt(r, "rest")
  /\ recorder' = [recorder EXCEPT ![r] = Resting]
  /\ UNCHANGED <<tree, gitIndex, head, ignored, unrecorded>>

VersioningNext ==
  \/ EditIgnore
  \/ \E r \in Recorder :
       \/ \E f \in File : Change(r, f)
       \/ Status(r) \/ GuardPrivate(r) \/ AddTracked(r) \/ ListOthers(r) \/ AddOthers(r)
       \/ GuardBulk(r) \/ Commit(r) \/ ReadLog(r) \/ Recheck(r) \/ CommandFails(r)

VersioningSpec == VersioningInit /\ [][VersioningNext]_versionVars

-----------------------------------------------------------------------------
VersioningTypeOK ==
  /\ {tree, gitIndex, head} \subseteq [File -> 0..MaxContent]
  /\ ignored \in BOOLEAN
  /\ \A r \in Recorder :
       /\ recorder[r].at \in {"rest", "changed", "guard", "update", "others", "add", "staged",
                              "commit", "log", "recheck"}
       /\ recorder[r].list \subseteq File
  /\ \A f \in File : head[f] <= tree[f] /\ gitIndex[f] <= tree[f]

(* When the recording of a handler succeeds, what it changed is in a       *)
(* version, or was changed again since, whoever committed it; and however  *)
(* the commands of several handlers interleave, no private plaintext, key  *)
(* or runtime state is ever in a version, ignored or not.                  *)
VersionsAreComplete ==
  /\ unrecorded = {}
  /\ \A f \in PrivatePath \cup RuntimePath : ~There(head[f])
=============================================================================
