---------------------------- MODULE TemplateRegistry ----------------------------
(***************************************************************************)
(* The registry of workflow templates: the files published/<id>@<version>, *)
(* one for every version of a template, and the vector index beside them.  *)
(* Publishing writes the new file and then retires every other active      *)
(* version of the template, one file after the other, under one mutex of   *)
(* the process; a write that fails is rolled back, a crash is not.  A      *)
(* write replaces its file and then flushes the directory, so it can fail  *)
(* after the file has changed.  Listings take the mutex; building the      *)
(* index holds it only while it lists.                                     *)
(*                                                                         *)
(* One template is modelled: its versions are numbers, its body is one of  *)
(* Body.                                                                   *)
(***************************************************************************)
EXTENDS Naturals, FiniteSets

CONSTANTS TVersion, Body, Indexer

ASSUME TemplateConstants == "none" \notin Body /\ "unlisted" \notin Body

VARIABLES
  published,  \* the file of each version
  publish,    \* the holder of workflowRegistryMu
  reply,      \* observation: what the last publish answered
  spoiled,    \* observation: its rollback failed
  vectors,    \* vector-index.json: the body each version was embedded from
  embedding   \* the templates listed by each reindex under way

templateVars == <<published, publish, reply, spoiled, vectors, embedding>>

NoFile == [status |-> "absent", body |-> "none"]
NoPublish == [step |-> "idle", version |-> 0, body |-> "none",
              todo |-> {}, undo |-> {}, before |-> {}]
NoListing == [v \in TVersion |-> "unlisted"]

ActiveIn(files) == {v \in TVersion : files[v].status = "active"}

TemplateInit ==
  /\ published = [v \in TVersion |-> NoFile]
  /\ publish = NoPublish /\ reply = "none" /\ spoiled = FALSE
  /\ vectors = [v \in TVersion |-> "none"]
  /\ embedding = [x \in Indexer |-> NoListing]

Doing(s) == publish.step = s
Holding(s, S, U) == [publish EXCEPT !.step = s, !.todo = S, !.undo = U]
Written(v, status) == [published EXCEPT ![v].status = status]

(* writeWorkflowTemplateJSON fails before or after the rename.             *)
Halves(v, file) == {published, [published EXCEPT ![v] = file]}

Reply(r) == publish' = [publish EXCEPT !.step = "idle", !.todo = {}] /\ reply' = r

(* A version that has a file is refused.                                   *)
HasFile(v) == published[v].status # "absent"

StartPublish(v, b) ==
  /\ Doing("idle") /\ ~HasFile(v)
  /\ publish' = [NoPublish EXCEPT !.step = "writing", !.version = v, !.body = b,
                                  !.before = ActiveIn(published)]
  /\ reply' = "none" /\ spoiled' = FALSE
  /\ UNCHANGED <<published, vectors, embedding>>

WriteNew ==
  LET new == [status |-> "active", body |-> publish.body]
  IN  /\ Doing("writing")
      /\ \/ /\ published' = [published EXCEPT ![publish.version] = new]
            /\ publish' = Holding("retiring", ActiveIn(published), {})
         \/ /\ published' \in Halves(publish.version, new)
            /\ publish' = Holding("removing", {}, {})
      /\ UNCHANGED <<reply, spoiled, vectors, embedding>>

\* Mutant: the version whose write failed is not restored.
RetireOldForgets(v) ==
  /\ Doing("retiring") /\ v \in publish.todo
  /\ \/ /\ published' = Written(v, "retired")
        /\ publish' = Holding("retiring", publish.todo \ {v}, publish.undo \cup {v})
     \/ /\ published' \in Halves(v, [published[v] EXCEPT !.status = "retired"])
        /\ publish' = Holding("undoing", {}, publish.undo)
  /\ UNCHANGED <<reply, spoiled, vectors, embedding>>

(* Failing to retire one version restores it and those before it, and then *)
(* removes the new one.                                                    *)
RetireOld(v) ==
  /\ Doing("retiring") /\ v \in publish.todo
  /\ \/ /\ published' = Written(v, "retired")
        /\ publish' = Holding("retiring", publish.todo \ {v}, publish.undo \cup {v})
     \/ /\ published' \in Halves(v, [published[v] EXCEPT !.status = "retired"])
        /\ publish' = Holding("undoing", {}, publish.undo \cup {v})
  /\ UNCHANGED <<reply, spoiled, vectors, embedding>>

Published ==
  /\ Doing("retiring") /\ publish.todo = {}
  /\ Reply("published")
  /\ UNCHANGED <<published, spoiled, vectors, embedding>>

Undo(v) ==
  /\ Doing("undoing") /\ v \in publish.undo
  /\ publish' = Holding("undoing", {}, publish.undo \ {v})
  /\ \/ published' = Written(v, "active") /\ UNCHANGED spoiled
     \/ published' \in {published, Written(v, "active")} /\ spoiled' = TRUE
  /\ UNCHANGED <<reply, vectors, embedding>>

RemoveNew ==
  /\ Doing("removing") \/ (Doing("undoing") /\ publish.undo = {})
  /\ \/ published' = [published EXCEPT ![publish.version] = NoFile] /\ UNCHANGED spoiled
     \/ published' \in Halves(publish.version, NoFile) /\ spoiled' = TRUE
  /\ Reply("refused")
  /\ UNCHANGED <<vectors, embedding>>

Retire(v) ==
  /\ Doing("idle") /\ published[v].status = "active"
  /\ published' = Written(v, "retired") /\ reply' = "none"
  /\ UNCHANGED <<publish, spoiled, vectors, embedding>>

(* A crash stops the publish where it is.                                  *)
CrashTemplates ==
  /\ publish' = [publish EXCEPT !.step = "idle", !.todo = {}, !.undo = {}]
  /\ reply' = IF Doing("idle") THEN reply ELSE "cut"
  /\ embedding' = [x \in Indexer |-> NoListing]
  /\ UNCHANGED <<published, spoiled, vectors>>

(* Only the newest of the active versions is embedded.                     *)
Newest == {v \in ActiveIn(published) : \A u \in ActiveIn(published) : u <= v}

ListTemplates(x) ==
  /\ Doing("idle") /\ embedding[x] = NoListing /\ Newest # {}
  /\ embedding' = [embedding EXCEPT ![x] =
       [v \in TVersion |-> IF v \in Newest THEN published[v].body ELSE "none"]]
  /\ UNCHANGED <<published, publish, reply, spoiled, vectors>>

(* The whole index is replaced, whatever was written since the listing;    *)
(* the embedding service may fail.                                         *)
WriteVectors(x) ==
  /\ embedding[x] # NoListing
  /\ embedding' = [embedding EXCEPT ![x] = NoListing]
  /\ vectors' \in {vectors, embedding[x]}
  /\ UNCHANGED <<published, publish, reply, spoiled>>

TemplateNext ==
  \/ \E v \in TVersion : \/ \E b \in Body : StartPublish(v, b)
                         \/ RetireOld(v) \/ Undo(v) \/ Retire(v)
  \/ WriteNew \/ Published \/ RemoveNew \/ CrashTemplates
  \/ \E x \in Indexer : ListTemplates(x) \/ WriteVectors(x)

TemplateSpec == TemplateInit /\ [][TemplateNext]_templateVars
--------------------------------------------------------------------------------
TemplatesTypeOK ==
  /\ \A v \in TVersion : \/ published[v] = NoFile
                         \/ published[v] \in [status : {"active", "retired"}, body : Body]
  /\ publish \in [step : {"idle", "writing", "retiring", "undoing", "removing"},
                  version : TVersion \cup {0}, body : Body \cup {"none"},
                  todo : SUBSET TVersion, undo : SUBSET TVersion, before : SUBSET TVersion]
  /\ reply \in {"none", "published", "refused", "cut"} /\ spoiled \in BOOLEAN
  /\ vectors \in [TVersion -> Body \cup {"none"}]
  /\ embedding \in [Indexer -> [TVersion -> Body \cup {"none", "unlisted"}]]

(* A publish that succeeds leaves its version the only active one, also of *)
(* the several an earlier crash may have left; one that is refused leaves  *)
(* the active versions as they were; and a template that was offered is    *)
(* offered at every moment in between, so also after a crash.  Only a      *)
(* rollback that fails itself can break this.                              *)
PublishIsAtomic ==
  ~spoiled => /\ reply = "published" => ActiveIn(published) = {publish.version}
              /\ reply = "refused" => ActiveIn(published) = publish.before
              /\ (publish.before # {} /\ (Doing("idle") => reply # "none"))
                   => ActiveIn(published) # {}

(* A score is computed from the body the template has: an index that was   *)
(* listed long before it is written, and an older one written last, hold   *)
(* only bodies that could not change since.                                *)
VectorsMatch ==
  \A v \in ActiveIn(published) :
    vectors[v] \in Body => vectors[v] = published[v].body
=================================================================================
