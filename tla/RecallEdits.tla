-------------------------------- MODULE RecallEdits --------------------------------
(***************************************************************************)
(* Edits of one Markdown document of Recall.  An edit reads the document,  *)
(* computes the new text, and is answered with a preview or writes the     *)
(* text whole: the store's mutex covers the write alone.  The text is a    *)
(* sequence of lines: headings with their level and name, and facts with   *)
(* their key and value; other lines are facts that nobody asks for.        *)
(*                                                                         *)
(* A patch replaces a literal text, then a section, and then appends; what *)
(* it puts in is written as it was given, whatever lines and headings it   *)
(* has.  The literal text is a whole line here.  Facts are updated one key *)
(* after the other, and a value may go on for several lines.  Keys are     *)
(* numbers, in the order of their names, and none begins another.          *)
(***************************************************************************)
EXTENDS Naturals, Sequences, FiniteSets, SequencesExt, FiniteSetsExt

CONSTANTS Heading,    \* names of sections
          NoSection,  \* the document as a whole
          FactKeys, FactValue,
          MaxLevel,   \* levels of headings
          MaxLines,   \* bound on the lines of a document
          Patch,      \* patches that are asked for
          NewValue,   \* values that facts are given
          Rewriter,   \* edits at a time
          NoLines

FactKey == 1..FactKeys

HeadingLine(level, name) == [level |-> level, name |-> name, value |-> NoLines]
FactLine(key, value) == [level |-> 0, name |-> key, value |-> value]
Line == {HeadingLine(n, s) : n \in 1..MaxLevel, s \in Heading}
          \cup {FactLine(k, v) : k \in FactKey, v \in FactValue}
Texts == UNION {[1..n -> Line] : n \in 0..MaxLines}

(* The first line of a value stands behind its key, more lines follow.     *)
AnyValue == [value : FactValue, more : Seq(Line)]
AnyPatch ==
  [old : Line \cup {NoLines}, new : Seq(Line), section : Heading \cup {NoSection},
   body : Seq(Line), tail : Seq(Line)]

ASSUME EditConstants ==
  /\ MaxLevel \in Nat /\ MaxLines \in Nat \ {0} /\ FactKeys \in Nat /\ NoSection \notin Heading
  /\ Patch \subseteq AnyPatch /\ NewValue \subseteq AnyValue

VARIABLES
  text,  \* the document's lines, or NoLines if there is no document
  edit   \* each edit under way: what it read and what it proposes

editVars == <<text, edit>>

NoEdit == [kind |-> "none"]

EditsInit == text \in Texts /\ edit = [e \in Rewriter |-> NoEdit]

IsHeading(line) == line.level > 0
Named(lines, s) == {i \in 1..Len(lines) : IsHeading(lines[i]) /\ lines[i].name = s}

\* Mutant: a section reaches up to the next heading above it.
EndOfNested(lines, start) ==
  Min({Len(lines) + 1} \cup
      {i \in (start + 1)..Len(lines) : IsHeading(lines[i]) /\ lines[i].level < lines[start].level})

(* A section ends at the next heading of its level or above.               *)
EndOf(lines, start) ==
  Min({Len(lines) + 1} \cup
      {i \in (start + 1)..Len(lines) : IsHeading(lines[i]) /\ lines[i].level <= lines[start].level})

(* The first section of that name is replaced below its heading.           *)
ReplaceSection(lines, s, body) ==
  LET start == Min(Named(lines, s))
  IN  SubSeq(lines, 1, start) \o body \o SubSeq(lines, EndOf(lines, start), Len(lines))

(* For each line the level of the section named s that it is in, or 0.     *)
LevelIn(lines, s) ==
  LET level[i \in 0..Len(lines)] ==
        IF i = 0 THEN 0
        ELSE IF IsHeading(lines[i]) /\ lines[i].name = s THEN lines[i].level
        ELSE IF IsHeading(lines[i]) /\ lines[i].level <= level[i - 1] THEN 0
        ELSE level[i - 1]
  IN  level

(* Every occurrence of a line gives way to others.                         *)
ReplaceLine(lines, old, new) ==
  LET out[i \in 0..Len(lines)] ==
        IF i = 0 THEN <<>>
        ELSE out[i - 1] \o (IF lines[i] = old THEN new ELSE <<lines[i]>>)
  IN  out[Len(lines)]

BaseOf(lines, patch) ==
  IF patch.old = NoLines THEN lines ELSE ReplaceLine(lines, patch.old, patch.new)

Patched(lines, patch) ==
  (IF patch.section = NoSection THEN BaseOf(lines, patch)
   ELSE ReplaceSection(BaseOf(lines, patch), patch.section, patch.body)) \o patch.tail

(* It asks for something, and what it looks for is there.                  *)
Applies(lines, patch) ==
  /\ patch.old # NoLines \/ patch.section # NoSection \/ patch.tail # <<>>
  /\ patch.old = NoLines \/ patch.old \in ToSet(lines)
  /\ patch.section = NoSection \/ Named(BaseOf(lines, patch), patch.section) # {}

LooksLikeFact(line, k) == ~IsHeading(line) /\ line.name = k

(* The facts of that key in the section, of which the first is updated.    *)
FactsIn(lines, s, k) ==
  {i \in 1..Len(lines) : /\ s = NoSection \/ LevelIn(lines, s)[i] > 0
                         /\ LooksLikeFact(lines[i], k)}

(* A missing fact goes below the last heading of that name; without such a *)
(* section, to the end of the document.                                    *)
UpdateFactLine(lines, s, k, new) ==
  LET found == Min(FactsIn(lines, s, k))
      head == IF FactsIn(lines, s, k) # {} THEN found - 1
              ELSE IF Named(lines, s) # {} THEN Max(Named(lines, s)) ELSE Len(lines)
      rest == IF FactsIn(lines, s, k) # {} THEN found + 1 ELSE head + 1
  IN  SubSeq(lines, 1, head) \o (<<FactLine(k, new.value)>> \o new.more) \o SubSeq(lines, rest, Len(lines))

UpdateFactLines(lines, s, facts) ==
  LET after[k \in 0..FactKeys] ==
        IF k = 0 THEN lines
        ELSE IF k \in DOMAIN facts THEN UpdateFactLine(after[k - 1], s, k, facts[k])
        ELSE after[k - 1]
  IN  after[FactKeys]

(* An edit reads the document, which has to be there; one that does not    *)
(* find what it looks for is refused.                                      *)
Reads(e) == edit[e] = NoEdit /\ text # NoLines
Begin(e, job) == edit' = [edit EXCEPT ![e] = job] /\ UNCHANGED text

PatchText(e, patch) ==
  /\ Reads(e) /\ Applies(text, patch)
  /\ Begin(e, [kind |-> "patch", patch |-> patch, base |-> BaseOf(text, patch),
               next |-> Patched(text, patch)])

AppendText(e, lines) ==
  /\ lines # <<>>
  /\ PatchText(e, [old |-> NoLines, new |-> <<>>, section |-> NoSection, body |-> <<>>, tail |-> lines])

(* One missing fact refuses all of them, unless they are to be added.      *)
EarlierFacts(facts, k) == [j \in DOMAIN facts \cap 1..(k - 1) |-> facts[j]]
AllFound(lines, s, facts) ==
  \A k \in DOMAIN facts : FactsIn(UpdateFactLines(lines, s, EarlierFacts(facts, k)), s, k) # {}

UpdateFacts(e, s, facts, append) ==
  /\ Reads(e) /\ (append \/ AllFound(text, s, facts))
  /\ Begin(e, [kind |-> "fact", section |-> s, facts |-> facts, was |-> text,
               next |-> UpdateFactLines(text, s, facts)])

(* Not confirmed, or a dry run; or the edit changes nothing.               *)
Preview(e) ==
  /\ edit[e] # NoEdit
  /\ edit' = [edit EXCEPT ![e] = NoEdit]
  /\ UNCHANGED text

(* Writes over whatever is there by now: the document may have changed, or *)
(* be gone.  An update that changes no fact is not written.                *)
WriteText(e) ==
  /\ edit[e] # NoEdit /\ Len(edit[e].next) \in 1..MaxLines
  /\ edit[e].kind = "fact" => edit[e].next # edit[e].was
  /\ text' = edit[e].next /\ edit' = [edit EXCEPT ![e] = NoEdit]

(* Without overwrite a document that exists is refused.                    *)
CreateText(lines, overwrite) ==
  /\ text = NoLines \/ overwrite
  /\ Len(lines) \in 1..MaxLines
  /\ text' = lines
  /\ UNCHANGED edit

DeleteText ==
  /\ text # NoLines /\ text' = NoLines
  /\ UNCHANGED edit

EditsNext ==
  \/ \E e \in Rewriter :
       \/ \E patch \in Patch : PatchText(e, patch) \/ AppendText(e, patch.tail)
       \/ \E s \in Heading \cup {NoSection}, keys \in (SUBSET FactKey) \ {{}}, append \in BOOLEAN :
            \E facts \in [keys -> NewValue] : UpdateFacts(e, s, facts, append)
       \/ Preview(e) \/ WriteText(e)
  \/ \E lines \in {patch.tail : patch \in Patch}, overwrite \in BOOLEAN : CreateText(lines, overwrite)
  \/ DeleteText

EditsSpec == EditsInit /\ [][EditsNext]_editVars
-----------------------------------------------------------------------------------
(* The values the variables take.                                          *)
EditsTypeOK ==
  /\ text = NoLines \/ Len(text) \in 0..MaxLines
  /\ \A e \in Rewriter : edit[e].kind \in {"none", "patch", "fact"}

(* By definition of a section: the lines below a heading of that name that *)
(* no heading of its level or above separates from it.                     *)
Heads(lines, h, i) ==
  h <= i /\ \A j \in (h + 1)..i : IsHeading(lines[j]) => lines[j].level > lines[h].level
InSection(lines, s) == {i \in 1..Len(lines) : \E h \in Named(lines, s) : Heads(lines, h, i)}
Below(lines, h) == {i \in (h + 1)..Len(lines) : Heads(lines, h, i)}

Outside(lines, s) ==
  LET kept == {i \in 1..Len(lines) : i \notin InSection(lines, s)}
  IN  [n \in 1..Cardinality(kept) |->
         lines[CHOOSE i \in kept : Cardinality({j \in kept : j <= i}) = n]]

(* Headings that are put in below one of a level, and belong to it.        *)
Deeper(lines, level) == \A i \in 1..Len(lines) : IsHeading(lines[i]) => lines[i].level > level

(* The lines below the first heading of the name, and no others, give way  *)
(* to the body, whatever is in it; if it has no heading of the section's   *)
(* level or above, then no line changes between the section and the rest.  *)
SectionIsReplaced(base, next, patch) ==
  LET h == Min(Named(base, patch.section))
      behind == SubSeq(base, h + Cardinality(Below(base, h)) + 1, Len(base))
      edited == SubSeq(next, 1, Len(next) - Len(patch.tail))
  IN  /\ edited = SubSeq(base, 1, h) \o patch.body \o behind
      /\ Deeper(patch.body, base[h].level) =>
           Outside(edited, patch.section) = Outside(base, patch.section)

NoHeadings(lines) == \A i \in 1..Len(lines) : ~IsHeading(lines[i])

(* Every fact has its new value; without headings in the values, and if    *)
(* the section was there, it has it in the section, and nothing outside of *)
(* the section changed.                                                    *)
FactsAreSet(was, next, s, facts) ==
  /\ \A k \in DOMAIN facts : FactLine(k, facts[k].value) \in ToSet(next)
  /\ (Named(was, s) # {} /\ \A k \in DOMAIN facts : NoHeadings(facts[k].more)) =>
       /\ Outside(next, s) = Outside(was, s)
       /\ \A k \in DOMAIN facts : \E i \in InSection(next, s) : next[i] = FactLine(k, facts[k].value)

(* An edit of a section leaves every line outside of it, and their order,  *)
(* as it read them; the facts that were updated, all of those that were    *)
(* asked for, are then found in their section with the new values          *)
(* (edit.go: "updates facts only inside the requested Markdown section").  *)
(* A section that is missing is no bound: see UpdateFactLine.              *)
EditsAreLocal ==
  \A e \in Rewriter :
    LET job == edit[e]
    IN  /\ (job.kind = "patch" /\ job.patch.section # NoSection) =>
             SectionIsReplaced(job.base, job.next, job.patch)
        /\ job.kind = "fact" => FactsAreSet(job.was, job.next, job.section, job.facts)
====================================================================================
