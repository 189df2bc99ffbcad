------------------------------ MODULE AccessToken ------------------------------
(***************************************************************************)
(* The dedicated MCP access token: a file, and the copy of it that the     *)
(* running server compares with.  A reset writes a temporary file, renames *)
(* it over the old one and only then replaces the copy; it holds the       *)
(* store's mutex, which readers of the copy take too.  The process may die *)
(* between any two steps; what was synced stays.                           *)
(***************************************************************************)
EXTENDS Naturals

CONSTANTS Token,
          NoToken  \* no file, no process or no reset

(* An empty file is not a token.                                           *)
ASSUME TokenConstants == NoToken \notin Token /\ "empty" \notin Token /\ NoToken # "empty"

VARIABLES
  file,      \* NoToken, "empty" or its content
  copy,      \* of the running server
  starting,  \* the token a first start is writing
  resetting, \* the reset that holds the mutex: its token and its step
  made,      \* tokens generated so far
  told,      \* observation: the token the operator was last given
  unsure     \* observation: tokens of resets that ended without an answer

tokenVars == <<file, copy, starting, resetting, made, told, unsure>>

NoReset == [token |-> NoToken, at |-> "none"]

TokenInit == /\ file = NoToken /\ copy = NoToken /\ starting = NoToken /\ resetting = NoReset
             /\ made = {} /\ told = NoToken /\ unsure = {}

Stopped == copy = NoToken /\ starting = NoToken

(* A start reads the file, and makes it if there is none; a file that is   *)
(* not a token is refused and the server does not start.                   *)
StartFromFile ==
  /\ Stopped /\ file \in Token
  /\ copy' = file
  /\ UNCHANGED <<file, starting, resetting, made, told, unsure>>

CreateFile(t) ==
  /\ Stopped /\ file = NoToken /\ t \notin made
  /\ starting' = t /\ made' = made \cup {t} /\ file' = "empty"
  /\ UNCHANGED <<copy, resetting, told, unsure>>

WriteFile ==
  /\ starting # NoToken
  /\ file' = starting /\ copy' = starting /\ starting' = NoToken
  /\ UNCHANGED <<resetting, made, told, unsure>>

(* The operator looks at the token.                                        *)
Show == /\ copy # NoToken /\ resetting = NoReset
        /\ told' = copy
        /\ UNCHANGED <<file, copy, starting, resetting, made, unsure>>

Reset(t) ==
  /\ copy # NoToken /\ resetting = NoReset /\ t \notin made
  /\ made' = made \cup {t}
  /\ resetting' = [token |-> t, at |-> "write"]
  /\ UNCHANGED <<file, copy, starting, told, unsure>>

Replacing == resetting.at = "write"
Rename ==
  /\ Replacing
  /\ file' = resetting.token
  /\ resetting' = [resetting EXCEPT !.at = "renamed"]
  /\ UNCHANGED <<copy, starting, made, told, unsure>>

(* The temporary file cannot be written or renamed: the old token stays.   *)
ResetFails ==
  /\ Replacing /\ resetting' = NoReset
  /\ UNCHANGED <<file, copy, starting, made, told, unsure>>

FinishReset ==
  /\ resetting.at = "renamed"
  /\ copy' = resetting.token /\ told' = resetting.token /\ unsure' = {}
  /\ resetting' = NoReset
  /\ UNCHANGED <<file, starting, made>>

Dies ==
  /\ ~Stopped
  /\ copy' = NoToken /\ starting' = NoToken /\ resetting' = NoReset
  /\ unsure' = IF resetting = NoReset THEN unsure ELSE unsure \cup {resetting.token}
  /\ UNCHANGED <<file, made, told>>

TokenNext == \/ StartFromFile \/ WriteFile \/ Show \/ Rename \/ ResetFails \/ FinishReset \/ Dies
             \/ \E t \in Token : CreateFile(t) \/ Reset(t)

TokenSpec == TokenInit /\ [][TokenNext]_tokenVars

-----------------------------------------------------------------------------
TokenTypeOK ==
  /\ file \in Token \cup {NoToken, "empty"} /\ {copy, starting, told} \subseteq Token \cup {NoToken}
  /\ resetting.at \in {"none", "write", "renamed"} /\ made \subseteq Token /\ unsure \subseteq Token

(* The server serves what is in the file, and the token the operator was   *)
(* last given is the one in the file, whatever crashed or failed since,    *)
(* unless a later reset replaced it without having answered.               *)
TokenKept ==
  /\ copy # NoToken /\ resetting.at # "renamed" => copy = file
  /\ told # NoToken => file \in {told, resetting.token} \cup unsure
=============================================================================
