-------------------------------- MODULE NoteSearch --------------------------------
(***************************************************************************)
(* How private notes are named and found.  A request names a note by a     *)
(* path that is normalised to a file below notes/; its backup is named     *)
(* after it.  Listing, search, status and the encryption of all notes walk *)
(* that directory and read of every note the metadata block alone: one     *)
(* note whose block is damaged or too long stops them all.  A search       *)
(* scores words of path, title, summary, tags and category, and answers    *)
(* the best, as many as were asked for; a note's text is for those who     *)
(* name the note.                                                          *)
(*                                                                         *)
(* A path is a sequence of segments: NotesDir, a directory, a file name    *)
(* that ends in .md, a hidden name, or two dots.                           *)
(***************************************************************************)
EXTENDS Naturals, Sequences, FiniteSets, SequencesExt

CONSTANTS Dir, MdFile, Hidden,  \* segments of each kind
          Word,                 \* words of a query, a title or a text
          NoWord,
          MaxSearchResults,     \* as many results may be asked for
          DefaultResults,       \* and so many are answered otherwise
          MaxSegments,          \* length of a path that is asked for
          MaxNotes              \* bound on the notes there are

ASSUME SearchConstants ==
  /\ MaxSegments \in Nat /\ MaxNotes \in Nat /\ NoWord \notin Word
  /\ MaxSearchResults \in Nat /\ DefaultResults \in 1..MaxSearchResults

VARIABLES
  vault,   \* the notes, by path
  linked,  \* the directories that somebody replaced by symbolic links
  found    \* what the last listing or search answered

searchVars == <<vault, linked, found>>

NotesDir == "notes"
Segment == {NotesDir, "..", Dir, MdFile, Hidden}
RawPath == UNION {[1..n -> Segment] : n \in 1..MaxSegments}

NothingFound == [kind |-> "error", word |-> NoWord, limit |-> 0, hits |-> {}]

SearchInit == vault = <<>> /\ linked = {} /\ found = NothingFound

(* filepath.Clean: two dots take the segment before them, if there is one. *)
Follow(out, seg) ==
  IF seg = ".." /\ out # <<>> /\ Last(out) # ".." THEN Front(out) ELSE Append(out, seg)

Clean(path) ==
  LET clean[i \in 0..Len(path)] == IF i = 0 THEN <<>> ELSE Follow(clean[i - 1], path[i])
  IN  clean[Len(path)]

BelowNotes(path) == Len(path) > 1 /\ Head(path) = NotesDir

Normalized(raw) == Clean(IF BelowNotes(raw) THEN raw ELSE <<NotesDir>> \o raw)

\* Mutant: a path may go through hidden directories.
NamedHidden(raw) ==
  /\ BelowNotes(Normalized(raw)) /\ Last(Normalized(raw)) = MdFile
  /\ \A i \in 1..Len(Normalized(raw)) : Normalized(raw)[i] # ".."

(* Below notes/, a .md file, and no hidden segment: else it is refused.    *)
IsNotePath(raw) ==
  /\ BelowNotes(Normalized(raw)) /\ Last(Normalized(raw)) = MdFile
  /\ \A i \in 1..Len(Normalized(raw)) : Normalized(raw)[i] \notin {Hidden, ".."}

NoLinkOn(path) == \A i \in 1..Len(path) : SubSeq(path, 1, i) \notin linked

(* Below the root, without empty segments or dots, through no symbolic     *)
(* link.                                                                   *)
Resolved(path) == path # <<>> /\ ".." \notin ToSet(path) /\ NoLinkOn(path)

Reachable(raw) == IsNotePath(raw) /\ Resolved(Normalized(raw))

(* A note: its metadata block with a title and a summary, and the first    *)
(* heading of its text.                                                    *)
NoteFile ==
  [block : {"closed", "open", "none"}, title : Word \cup {NoWord}, summary : Word \cup {NoWord},
   heading : Word]

(* A handler writes a note, or the operator's own editor does.  A file is  *)
(* no directory: two notes are never one below the other.                  *)
PutNote(raw, note) ==
  /\ Reachable(raw)
  /\ Normalized(raw) \in DOMAIN vault \/ Cardinality(DOMAIN vault) < MaxNotes
  /\ \A p \in DOMAIN vault \ {Normalized(raw)} : /\ ~IsPrefix(p, Normalized(raw))
                                                /\ ~IsPrefix(Normalized(raw), p)
  /\ vault' = [p \in DOMAIN vault \cup {Normalized(raw)} |->
                 IF p = Normalized(raw) THEN note ELSE vault[p]]
  /\ found' = NothingFound
  /\ UNCHANGED linked

RemoveNote(raw) ==
  /\ Reachable(raw) /\ Normalized(raw) \in DOMAIN vault
  /\ vault' = [p \in DOMAIN vault \ {Normalized(raw)} |-> vault[p]]
  /\ found' = NothingFound
  /\ UNCHANGED linked

(* Somebody replaces a directory without notes by a symbolic link, or back. *)
Link ==
  /\ \A p \in DOMAIN vault : p[2] # Dir
  /\ linked' = IF linked = {} THEN {<<NotesDir, Dir>>} ELSE {}
  /\ found' = NothingFound
  /\ UNCHANGED vault

(* What is read of a note for a listing: the block and nothing after it; a *)
(* note that does not begin with one has none.                             *)
ReadMetadata(note) == [note EXCEPT !.heading = NoWord]

TitleField(note) == IF note.block = "closed" THEN note.title ELSE NoWord
SummaryField(note) == IF note.block = "closed" THEN note.summary ELSE NoWord

(* The walk of a listing skips hidden directories.  A symbolic link, or a  *)
(* block that is not closed or is too long, fails all of it.               *)
Walked == {p \in DOMAIN vault : \A i \in 2..(Len(p) - 1) : p[i] # Hidden}
Listable == linked = {} /\ \A p \in Walked : vault[p].block # "open"

\* Mutant: a note without a title is listed by the first heading of its text.
TitleOfText(note) == IF TitleField(note) # NoWord THEN note.title ELSE note.heading

(* Without a title a note is listed by its first heading, of what was      *)
(* read of it, and then by the name of its file.                           *)
TitleOf(note) ==
  IF TitleField(note) # NoWord THEN note.title ELSE ReadMetadata(note).heading

(* What a word scores in the title and in the summary; tags (4), path (3)  *)
(* and category (2) go the same, and the bonus for the query as a whole is *)
(* the same for every note that a single word is found in.                 *)
Score(p, w) == (IF TitleOf(vault[p]) = w THEN 8 ELSE 0)
                 + (IF SummaryField(vault[p]) = w THEN 5 ELSE 0)

Matches(p, w) == Score(p, w) > 0

AnswerNotes(kind, w, limit, hits) ==
  /\ found' = IF kind = "read" \/ Listable
              THEN [kind |-> kind, word |-> w, limit |-> limit, hits |-> hits]
              ELSE NothingFound
  /\ UNCHANGED <<vault, linked>>

(* A number of results that is not allowed is not refused.                 *)
ResultLimit(asked) == IF asked \in 1..MaxSearchResults THEN asked ELSE DefaultResults

(* The matches by their score, and by their paths where scores are equal,  *)
(* which leaves open here which of those goes first; cut at the limit.     *)
Best(hits, w, limit) ==
  {best \in SUBSET hits :
     /\ Cardinality(best) = IF Cardinality(hits) > limit THEN limit ELSE Cardinality(hits)
     /\ \A p \in best, q \in hits \ best : Score(p, w) >= Score(q, w)}

SearchNotes(w, asked) ==
  \E best \in Best({p \in Walked : Matches(p, w)}, w, ResultLimit(asked)) :
    AnswerNotes("search", w, ResultLimit(asked), best)

(* Status lists all of them, and the encryption of all notes takes them.   *)
StatusOfNotes == AnswerNotes("list", NoWord, 0, Walked)

(* A note that is named is read whole, whatever its block.                 *)
ReadNote(raw) ==
  /\ Reachable(raw) /\ Normalized(raw) \in DOMAIN vault
  /\ AnswerNotes("read", NoWord, 0, {Normalized(raw)})

SearchNext ==
  \/ \E raw \in RawPath : \/ \E note \in NoteFile : PutNote(raw, note)
                          \/ RemoveNote(raw) \/ ReadNote(raw)
  \/ Link \/ StatusOfNotes \/ \E w \in Word, asked \in 0..(MaxSearchResults + 1) : SearchNotes(w, asked)

SearchSpec == SearchInit /\ [][SearchNext]_searchVars
-----------------------------------------------------------------------------------
(* The values the variables take.                                          *)
SearchTypeOK ==
  /\ \A p \in DOMAIN vault : vault[p] \in NoteFile
  /\ Cardinality(DOMAIN vault) <= MaxNotes /\ found.kind \in {"error", "list", "search", "read"}

HasWord(note, w) == note.block = "closed" /\ w \in {note.title, note.summary}

(* A listing that is answered has every note there is, so none escapes the *)
(* backup.  A search answers notes with the word in their metadata alone,  *)
(* whatever their text says, and no more than its limit; an answer that    *)
(* does not fill the limit has all of them, and no note with the word in   *)
(* its title is left out for one that has it in its summary only.  And the *)
(* path of a note names it again (privatenotes/store.go: what may be       *)
(* written is what the walk meets).                                        *)
NotesAreFound ==
  /\ \A p \in DOMAIN vault : IsNotePath(p) /\ Normalized(p) = p
  /\ found.kind = "list" => found.hits = DOMAIN vault
  /\ found.kind = "search" =>
       LET having == {p \in DOMAIN vault : HasWord(vault[p], found.word)}
       IN  /\ found.hits \subseteq having /\ Cardinality(found.hits) <= found.limit
           /\ Cardinality(found.hits) < found.limit => found.hits = having
           /\ \A p \in found.hits, q \in having \ found.hits :
                vault[q].title = found.word => vault[p].title = found.word
===================================================================================
