------------------------------ MODULE PrivateNotes ------------------------------
(***************************************************************************)
(* The private notes: every note is a plaintext file and a file encrypted  *)
(* for the recipient of the local age identity.  A file is replaced as a   *)
(* whole, by renaming a temporary one; a write, a deletion and an          *)
(* encryption of all notes replace several files, one after the other,     *)
(* under the store's mutex.  Any replacement may fail, the process may die *)
(* between two of them.  Readers hold the mutex for reading, so they see   *)
(* the files of one moment.                                                *)
(*                                                                         *)
(* A note is its text, its secrecy flag and when it was created, counted   *)
(* in creations of its path; its other metadata is kept or replaced like   *)
(* the flag.  The directories and the ignore rules of initTree are left    *)
(* out.                                                                    *)
(***************************************************************************)
EXTENDS Naturals, Sequences, FiniteSets, SequencesExt

CONSTANTS Note, Text,
          Marked,      \* texts that contain a marker such as "password"
          Key,         \* age identities
          Nothing,     \* no file, and no operation
          MaxCreated   \* bound: creations of one path

Content == [text : Text, secret : BOOLEAN, created : 1..MaxCreated]
SealedNote == [content : Content, key : Key]
Operations ==
  [kind : {"identity"}, key : Key \cup {Nothing}]
    \cup [kind : {"write"}, note : Note, at : {"plain", "sealed"}, content : Content,
          sealed : SealedNote, previous : Content \cup {Nothing}]
    \cup [kind : {"delete"}, note : Note, at : {"plain", "sealed"},
          previous : Content \cup {Nothing}]
    \cup [kind : {"sync"}, todo : Seq(Note)]

ASSUME NoteConstants ==
  /\ IsFiniteSet(Note) /\ Marked \subseteq Text /\ MaxCreated \in Nat
  /\ Nothing \notin Key \cup Content \cup SealedNote \cup Operations

VARIABLES
  plain,      \* notes/
  sealed,     \* encrypted/: the content and the recipients' key
  identity,   \* .keys/private-notes-age-identity.txt
  recipient,  \* .keys/recipients.txt
  op,         \* the operation that holds the mutex
  created,    \* how often each path was created
  torn        \* observation: notes that a crash, or a rollback that itself
              \* failed, left with an older backup, without one or with only one

noteVars == <<plain, sealed, identity, recipient, op, created, torn>>

NotesInit ==
  /\ plain = [n \in Note |-> Nothing] /\ sealed = [n \in Note |-> Nothing]
  /\ identity = Nothing /\ recipient = Nothing
  /\ op = Nothing /\ created = [n \in Note |-> 0] /\ torn = {}

(* init-encryption: the identity is read or made, then its recipient is    *)
(* written.                                                                *)
BeginIdentity ==
  /\ op = Nothing
  /\ op' = [kind |-> "identity", key |-> identity]
  /\ UNCHANGED <<plain, sealed, identity, recipient, created, torn>>

InOp(kind) == op # Nothing /\ op.kind = kind
MakeIdentity(k) ==
  /\ InOp("identity") /\ op.key = Nothing
  /\ k # identity /\ identity' = k
  /\ op' = [op EXCEPT !.key = k]
  /\ UNCHANGED <<plain, sealed, recipient, created, torn>>

WriteRecipient ==
  /\ InOp("identity") /\ op.key # Nothing
  /\ recipient' = op.key /\ op' = Nothing
  /\ UNCHANGED <<plain, sealed, identity, created, torn>>

(* renderContent: what the request does not set is taken from the note it  *)
(* replaces; a text with a marker is secret whatever the metadata says.    *)
Rendered(n, text, flag) ==
  [text    |-> text,
   secret  |-> \/ text \in Marked
               \/ flag = "true"
               \/ flag = "unset" /\ plain[n] # Nothing /\ plain[n].secret,
   created |-> IF plain[n] # Nothing THEN plain[n].created ELSE created[n] + 1]

Sealed(content) == [content |-> content, key |-> recipient]

BeginWrite(n, text, flag, overwrite) ==
  /\ op = Nothing
  /\ plain[n] = Nothing \/ overwrite
  /\ recipient # Nothing
  /\ created[n] < MaxCreated \/ plain[n] # Nothing
  /\ LET content == Rendered(n, text, flag)
     IN op' = [kind |-> "write", note |-> n, at |-> "plain", content |-> content,
               sealed |-> Sealed(content), previous |-> plain[n]]
  /\ UNCHANGED <<plain, sealed, identity, recipient, created, torn>>

WritePlain ==
  /\ InOp("write") /\ op.at = "plain"
  /\ plain' = [plain EXCEPT ![op.note] = op.content]
  /\ created' = [created EXCEPT ![op.note] = IF op.content.created > @ THEN op.content.created ELSE @]
  /\ op' = [op EXCEPT !.at = "sealed"]
  /\ UNCHANGED <<sealed, identity, recipient, torn>>

WriteSealed ==
  /\ InOp("write") /\ op.at = "sealed"
  /\ sealed' = [sealed EXCEPT ![op.note] = op.sealed]
  /\ torn' = torn \ {op.note} /\ op' = Nothing
  /\ UNCHANGED <<plain, identity, recipient, created>>

\* Mutant: a failed write leaves the new plaintext.
RestoredNew == op.content

(* The encrypted file cannot be replaced: the plaintext is put back, which *)
(* may fail as well.                                                       *)
Restored == op.previous
WriteFails ==
  /\ InOp("write")
  /\ \/ op.at = "plain" /\ UNCHANGED <<plain, torn>>
     \/ op.at = "sealed" /\ plain' = [plain EXCEPT ![op.note] = Restored] /\ UNCHANGED torn
     \/ op.at = "sealed" /\ torn' = torn \cup {op.note} /\ UNCHANGED plain
  /\ op' = Nothing
  /\ UNCHANGED <<sealed, identity, recipient, created>>

BeginDelete(n) ==
  /\ op = Nothing /\ plain[n] # Nothing /\ sealed[n] # Nothing
  /\ op' = [kind |-> "delete", note |-> n, at |-> "plain", previous |-> plain[n]]
  /\ UNCHANGED <<plain, sealed, identity, recipient, created, torn>>

DeletePlain ==
  /\ InOp("delete") /\ op.at = "plain"
  /\ plain' = [plain EXCEPT ![op.note] = Nothing]
  /\ op' = [op EXCEPT !.at = "sealed"]
  /\ UNCHANGED <<sealed, identity, recipient, created, torn>>

DeleteSealed ==
  /\ InOp("delete") /\ op.at = "sealed"
  /\ sealed' = [sealed EXCEPT ![op.note] = Nothing]
  /\ torn' = torn \ {op.note} /\ op' = Nothing
  /\ UNCHANGED <<plain, identity, recipient, created>>

(* Nothing could be removed, or the plaintext is put back, which may fail. *)
DeleteFails ==
  /\ InOp("delete")
  /\ \/ plain' = [plain EXCEPT ![op.note] = op.previous] /\ UNCHANGED torn
     \/ op.at = "sealed" /\ torn' = torn \cup {op.note} /\ UNCHANGED plain
  /\ op' = Nothing
  /\ UNCHANGED <<sealed, identity, recipient, created>>

(* sync-encrypted seals every note again, in the order of their paths, and *)
(* stops at the first that fails.                                          *)
BeginSync ==
  /\ op = Nothing /\ recipient # Nothing
  /\ op' = [kind |-> "sync", todo |-> SetToSeq({n \in Note : plain[n] # Nothing})]
  /\ UNCHANGED <<plain, sealed, identity, recipient, created, torn>>

SyncNote ==
  /\ InOp("sync") /\ op.todo # <<>>
  /\ LET n == Head(op.todo)
     IN sealed' = [sealed EXCEPT ![n] = Sealed(plain[n])] /\ torn' = torn \ {n}
  /\ op' = [op EXCEPT !.todo = Tail(@)]
  /\ UNCHANGED <<plain, identity, recipient, created>>

EndSync ==
  /\ InOp("sync")
  /\ op' = Nothing
  /\ UNCHANGED <<plain, sealed, identity, recipient, created, torn>>

(* The process dies and starts again; an operation on the keys that fails  *)
(* between its two files leaves the same.                                  *)
Halfway == InOp("write") \/ InOp("delete")
DieAndStart ==
  /\ op # Nothing
  /\ op' = Nothing
  /\ torn' = IF Halfway /\ op.at = "sealed" THEN torn \cup {op.note} ELSE torn
  /\ UNCHANGED <<plain, sealed, identity, recipient, created>>

NotesNext ==
  \/ BeginIdentity \/ WriteRecipient \/ \E k \in Key : MakeIdentity(k)
  \/ \E n \in Note : \/ BeginDelete(n)
                     \/ \E t \in Text, f \in {"unset", "true", "false"}, o \in BOOLEAN :
                          BeginWrite(n, t, f, o)
  \/ WritePlain \/ WriteSealed \/ WriteFails \/ DeletePlain \/ DeleteSealed \/ DeleteFails
  \/ BeginSync \/ SyncNote \/ EndSync \/ DieAndStart

NotesSpec == NotesInit /\ [][NotesNext]_noteVars

-----------------------------------------------------------------------------
NotesTypeOK ==
  /\ plain \in [Note -> Content \cup {Nothing}]
  /\ sealed \in [Note -> SealedNote \cup {Nothing}] /\ (op = Nothing \/ op \in Operations)
  /\ {identity, recipient} \subseteq Key \cup {Nothing}
  /\ created \in [Note -> 0..MaxCreated] /\ torn \subseteq Note

(* The backup of every note can be opened with the identity that is        *)
(* stored, and is the note as it stands, a missing note having no backup:  *)
(* after failed writes and deletions too, which put back what they took;   *)
(* except for a note on which the process died or the rollback failed,     *)
(* until it is written or encrypted again.                                 *)
BackupsRecover ==
  /\ \A n \in Note : sealed[n] # Nothing => sealed[n].key = identity
  /\ ~Halfway => \A n \in Note \ torn :
       IF plain[n] = Nothing THEN sealed[n] = Nothing
       ELSE sealed[n] # Nothing /\ sealed[n].content = plain[n]
=============================================================================
