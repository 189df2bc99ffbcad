------------------------------- MODULE ContextIndex -------------------------------
(***************************************************************************)
(* The compact index of Recall that a session starts with.  It takes the   *)
(* project's core documents, then verified facts, runbooks and cards, each *)
(* under a quota of its own and all of them under one budget of bytes, and *)
(* it says whether, and how much, it left out.  The files of its folders   *)
(* are taken newest first, and of some categories only so many are read at *)
(* all; what was read is put into another order, by when it was verified.  *)
(*                                                                         *)
(* The listing of a folder walks it in the order of the paths and stops at *)
(* a limit (1000), without a mark: what lies behind it is omitted silently *)
(* (Reached).  Documents are numbers, a smaller one was modified later.    *)
(***************************************************************************)
EXTENDS Integers, Sequences, FiniteSets, SequencesExt, FiniteSetsExt

CONSTANTS Files,      \* the number of documents
          Category,   \* the categories that are present, in order
          Quota,      \* how many of each the index takes
          Prefetch,   \* how many files of each are read
          FoldersOf,  \* the folders a category is looked for in
          PathOrder,  \* where the walk of a folder meets each document
          ListLimit,  \* how many entries a listing has at most
          MaxSize,    \* sizes of an item
          MaxBytes    \* the budget, which has room for an empty list

ASSUME ContextConstants ==
  /\ Files \in Nat /\ MaxSize \in Nat /\ MaxBytes \in Nat /\ MaxBytes >= 2
  /\ Category \in Seq(ToSet(Category)) /\ IsInjective(Category)
  /\ Quota \in [ToSet(Category) -> Nat] /\ Prefetch \in [ToSet(Category) -> Nat]
  /\ DOMAIN FoldersOf = ToSet(Category) /\ ListLimit \in Nat
  /\ PathOrder \in [1..Files -> Nat] /\ IsInjective(PathOrder)

VARIABLES
  files,   \* what each document is
  built    \* the index so far, and the category that comes next

contextVars == <<files, built>>

Documents == 1..Files

(* Verified or active documents count, others do not; a file may be        *)
(* unreadable, and an entry of a folder may be no document at all (other): *)
(* a folder in it, or a file of another type.                              *)
FileKinds ==
  {k \in [category : ToSet(Category), folder : UNION {FoldersOf[c] : c \in ToSet(Category)},
          status : {"verified", "active", "draft", "unreadable", "other"}, size : 1..MaxSize] :
     k.folder \in FoldersOf[k.category]}

EmptyIndex ==
  [next |-> 1, items |-> <<>>, bytes |-> 2, truncated |-> FALSE, omitted |-> 0]

ContextInit == files \in [Documents -> FileKinds] /\ built = EmptyIndex

Eligible(d) == files[d].status \in {"verified", "active"}

(* An item takes its size and a comma; the brackets take two bytes.        *)
EncodedLength(sizes) ==
  LET length[i \in 0..Len(sizes)] ==
        IF i = 0 THEN 2 ELSE length[i - 1] + sizes[i] + (IF i = 1 THEN 0 ELSE 1)
  IN  length[Len(sizes)]
Bytes(items) == EncodedLength([i \in 1..Len(items) |-> files[items[i]].size])

(* An item that does not fit is left out, and a smaller one may follow.    *)
AppendItem(index, d) ==
  IF d \in ToSet(index.items) THEN index
  ELSE IF Bytes(Append(index.items, d)) > MaxBytes
       THEN [index EXCEPT !.truncated = TRUE, !.omitted = @ + 1]
       ELSE [index EXCEPT !.items = Append(@, d), !.bytes = Bytes(Append(index.items, d))]

AppendItems(index, items) ==
  LET after[i \in 0..Len(items)] ==
        IF i = 0 THEN index ELSE AppendItem(after[i - 1], items[i])
  IN  after[Len(items)]

Omit(index, n) ==
  IF n = 0 THEN index ELSE [index EXCEPT !.truncated = TRUE, !.omitted = @ + n]

(* A folder is walked up to the limit, whatever the entries are.           *)
Folder(c, p) == {d \in Documents : files[d].category = c /\ files[d].folder = p}
Reached(c, p) ==
  {d \in Folder(c, p) :
     Cardinality({e \in Folder(c, p) : PathOrder[e] <= PathOrder[d]}) <= ListLimit}
Listed(c) == {d \in UNION {Reached(c, p) : p \in FoldersOf[c]} : files[d].status # "other"}
FileEntries(n, docs) == {d \in docs : Cardinality({e \in docs : e <= d}) <= n}

(* Facts are all read, whatever their age; of runbooks and cards, so many. *)
Fetched(c) == FileEntries(Prefetch[c], Listed(c))
Readable(c) == {d \in Fetched(c) : files[d].status # "unreadable"}

\* Mutant: the files that are not even read are not counted.
SkippedUnreadable(c) == Cardinality(Fetched(c)) - Cardinality(Readable(c))

(* The files that were not, or could not be, read.                         *)
Skipped(c) == Cardinality(Listed(c)) - Cardinality(Readable(c))

Candidates(c) == {d \in Readable(c) : Eligible(d)}

(* Verified ones first; otherwise by their times.                          *)
SortKey(d) == IF files[d].status = "verified" THEN d ELSE d + Files
Sorted(docs) ==
  [n \in 1..Cardinality(docs) |->
     CHOOSE d \in docs : Cardinality({e \in docs : SortKey(e) <= SortKey(d)}) = n]

OverQuota(c) ==
  IF Cardinality(Candidates(c)) > Quota[c] THEN Cardinality(Candidates(c)) - Quota[c] ELSE 0

(* One category: read, filtered, sorted, cut to its quota and appended.    *)
AddCategory ==
  /\ built.next <= Len(Category)
  /\ LET c == Category[built.next]
         noted == Omit(Omit(built, Skipped(c)), OverQuota(c))
         taken == SubSeq(Sorted(Candidates(c)), 1, Min({Quota[c], Cardinality(Candidates(c))}))
     IN built' = [AppendItems(noted, taken) EXCEPT !.next = @ + 1]
  /\ UNCHANGED files

(* The folder cannot be listed: one omission for all it may hold.          *)
Unavailable ==
  /\ built.next <= Len(Category)
  /\ built' = [Omit(built, 1) EXCEPT !.next = @ + 1]
  /\ UNCHANGED files

BuildAgain ==
  /\ built.next > Len(Category)
  /\ built' = EmptyIndex
  /\ UNCHANGED files

ContextNext == AddCategory \/ Unavailable \/ BuildAgain

ContextSpec == ContextInit /\ [][ContextNext]_contextVars
-----------------------------------------------------------------------------------
(* The values the variables take.                                          *)
ContextTypeOK ==
  /\ files \in [Documents -> FileKinds]
  /\ built.next \in 1..(Len(Category) + 1) /\ ToSet(built.items) \subseteq Documents
  /\ built.omitted \in Nat

(* The index keeps its budget, names no document twice and no category     *)
(* above its quota; a document it passed over shows, whichever of quota,   *)
(* budget, prefetch or file error made it small: without the mark an index *)
(* lacks only what the listing of a folder did not reach, behind as many   *)
(* entries as a listing has (context_index.go, BuildContextIndex;          *)
(* store.go, List).                                                        *)
OmissionsShow ==
  LET done == {Category[i] : i \in 1..(built.next - 1)}
      missing == {d \in Documents : /\ files[d].category \in done /\ Eligible(d)
                                    /\ d \notin ToSet(built.items)}
      before(d) == {e \in Folder(files[d].category, files[d].folder) : PathOrder[e] < PathOrder[d]}
  IN  /\ built.bytes = Bytes(built.items) /\ built.bytes <= MaxBytes
      /\ IsInjective(built.items)
      /\ \A c \in done : Cardinality({i \in DOMAIN built.items : files[built.items[i]].category = c}) <= Quota[c]
      /\ built.truncated <=> built.omitted > 0
      /\ ~built.truncated => \A d \in missing : Cardinality(before(d)) >= ListLimit
===================================================================================
