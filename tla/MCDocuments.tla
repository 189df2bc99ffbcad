-------------------------------- MODULE MCDocuments --------------------------------
(* Documents of Recall, one part at a time: edits of one document, and the index  *)
(* that a session starts with.                                                    *)
(*                                                                                *)
(* Edits: one at a time of every document of three lines, with two sections of    *)
(* two levels, two keys and two values.  What a patch puts in has facts and       *)
(* headings of every level, below a heading, in the place of a line and at the    *)
(* end; a value has one line, or a fact of the other key or a heading below it.   *)
(*                                                                                *)
(* Index: three documents in any folders, of facts and of cards, of which one     *)
(* each is taken.  Cards are in two folders, and two of their files are read.  A  *)
(* listing has two entries: the oldest two of a folder, as the paths go.          *)
EXTENDS RecallEdits, ContextIndex, TLC

CONSTANTS s1, s2, v1, v2

PatchOf(old, new, section, body, tail) ==
  [old |-> old, new |-> new, section |-> section, body |-> body, tail |-> tail]

SomeBodies ==
  {<<>>} \cup {<<FactLine(1, v)>> : v \in FactValue}
    \cup {<<HeadingLine(n, h)>> \o more : n \in 1..MaxLevel, h \in Heading,
                                        more \in {<<>>} \cup {<<FactLine(1, v)>> : v \in FactValue}}
SomePatches ==
  {PatchOf(NoLines, <<>>, s, body, <<>>) : s \in Heading, body \in SomeBodies}
    \cup {PatchOf(FactLine(1, v), <<FactLine(2, v), HeadingLine(2, h)>>, s, <<FactLine(2, v)>>,
                  IF appends THEN <<HeadingLine(1, h)>> ELSE <<>>) :
            v \in FactValue, h \in Heading, s \in Heading \cup {NoSection}, appends \in BOOLEAN}

SomeValues ==
  {[value |-> v, more |-> more] :
     v \in FactValue, more \in {<<>>} \cup {<<FactLine(2, w)>> : w \in FactValue}
                              \cup {<<HeadingLine(1, h)>> : h \in Heading}}

SomeCategories == <<"verified_fact", "card">>
SomeQuotas == [c \in ToSet(SomeCategories) |-> 1]
SomePrefetch == [c \in ToSet(SomeCategories) |-> IF c = "card" THEN 2 ELSE Files]
SomeFolders == [c \in ToSet(SomeCategories) |-> IF c = "card" THEN {"verified", "active"} ELSE {"ops"}]
OldestFirst == [d \in 1..Files |-> Files - d]

VARIABLE part

(* The part that is not explored is left alone: no document, and any files.       *)
DocumentsInit ==
  \/ /\ part = "edits" /\ EditsInit
     /\ built = EmptyIndex /\ files = [d \in Documents |-> CHOOSE k \in FileKinds : TRUE]
  \/ /\ part = "index" /\ ContextInit
     /\ text = NoLines /\ edit = [e \in Rewriter |-> NoEdit]

DocumentsNext ==
  /\ UNCHANGED part
  /\ \/ part = "edits" /\ EditsNext /\ UNCHANGED contextVars
     \/ part = "index" /\ ContextNext /\ UNCHANGED editVars

DocumentsSpec == DocumentsInit /\ [][DocumentsNext]_<<part, editVars, contextVars>>

EditSymmetry == Permutations(Heading) \cup Permutations(FactValue)
====================================================================================
