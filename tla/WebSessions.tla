------------------------------ MODULE WebSessions ------------------------------
(***************************************************************************)
(* The administrator, the password and the web sessions.  A session ends   *)
(* when it is idle for long, at its absolute expiry, when it is revoked    *)
(* and when the password is replaced; while it is used its idle expiry     *)
(* moves on.  Every SQL statement is a step of its own, except those of    *)
(* replacePassword and createAdmin, which are one transaction.             *)
(*                                                                         *)
(* Passwords are numbered; a request knows one of them.  Login throttling, *)
(* which only refuses, and the CSRF token are left out, as are statements  *)
(* that fail.                                                              *)
(***************************************************************************)
EXTENDS Naturals, FiniteSets

CONSTANTS Session, Visit,      \* sessions, and the requests
          IdleWindow, AbsoluteWindow,
          Pause,               \* a session is refreshed at most so often
          LastHour,            \* bound: of the clock
          MaxPassword          \* bound: password changes

ASSUME Windows == /\ {IdleWindow, AbsoluteWindow, Pause, LastHour, MaxPassword} \subseteq Nat
                  /\ IdleWindow <= AbsoluteWindow /\ IsFiniteSet(Visit)

VARIABLES
  hour,
  admins,    \* rows of user_credentials
  password,  \* the one whose hash is stored
  sessions,  \* user_sessions
  visit,     \* what each request is doing
  over,      \* observation: sessions somebody was told have ended
  revived    \* observation: sessions that answered a request after that

webVars == <<hour, admins, password, sessions, visit, over, revived>>

NoSession == [at |-> "none", seen |-> 0, idle |-> 0, absolute |-> 0]
Free == [at |-> "free", session |-> "none", copy |-> NoSession, now |-> 0, late |-> FALSE]

WebInit ==
  /\ hour = 0 /\ admins = 0 /\ password = 0
  /\ sessions = [s \in Session |-> NoSession]
  /\ visit = [v \in Visit |-> Free]
  /\ over = {} /\ revived = {}

HourPasses == hour < LastHour /\ hour' = hour + 1
              /\ UNCHANGED <<admins, password, sessions, visit, over, revived>>

At(v, at) == visit[v].at = at
Set(v, req) == visit' = [visit EXCEPT ![v] = req]

(* InitializeAdmin: the check, then the transaction that checks again.     *)
BeginInitialize(v) ==
  /\ At(v, "free") /\ admins = 0
  /\ Set(v, [Free EXCEPT !.at = "initialize"])
  /\ UNCHANGED <<hour, admins, password, sessions, over, revived>>

NoAdmin == admins = 0
CreateAdmin(v) ==
  /\ At(v, "initialize")
  /\ admins' = IF NoAdmin THEN admins + 1 ELSE admins
  /\ Set(v, Free)
  /\ UNCHANGED <<hour, password, sessions, over, revived>>

(* Login: the hash is read and verified, and the session created later.    *)
Login(v) ==
  /\ At(v, "free") /\ admins > 0
  /\ Set(v, [Free EXCEPT !.at = "login"])
  /\ UNCHANGED <<hour, admins, password, sessions, over, revived>>

Unborn(s) == sessions[s].at = "none"
CreateSession(v, s) ==
  /\ At(v, "login") /\ Unborn(s)
  /\ sessions' = [sessions EXCEPT ![s] = [at |-> "live", seen |-> hour, idle |-> hour + IdleWindow,
                                          absolute |-> hour + AbsoluteWindow]]
  /\ Set(v, Free)
  /\ UNCHANGED <<hour, admins, password, over, revived>>

(* AuthenticateWebSession: the row is read, the time is taken, and the row *)
(* is refreshed or, if it has expired, revoked, unless it was revoked in   *)
(* the meantime.                                                           *)
ReadSession(v, s) ==
  /\ At(v, "free") /\ ~Unborn(s)
  /\ Set(v, [Free EXCEPT !.at = "authenticate", !.session = s, !.copy = sessions[s], !.late = s \in over])
  /\ UNCHANGED <<hour, admins, password, sessions, over, revived>>

Expired(c) == hour >= c.idle \/ hour >= c.absolute
Answered(v) == revived' = IF visit[v].late THEN revived \cup {visit[v].session} ELSE revived
Judge(v) ==
  LET c == visit[v].copy
  IN /\ At(v, "authenticate")
     /\ \/ /\ c.at = "revoked"
           /\ Set(v, Free) /\ over' = over \cup {visit[v].session} /\ UNCHANGED revived
        \/ /\ c.at = "live" /\ Expired(c)
           /\ Set(v, [visit[v] EXCEPT !.at = "expire"]) /\ UNCHANGED <<over, revived>>
        \/ /\ c.at = "live" /\ ~Expired(c) /\ hour - c.seen >= Pause
           /\ Set(v, [visit[v] EXCEPT !.at = "refresh", !.now = hour]) /\ UNCHANGED <<over, revived>>
        \/ /\ c.at = "live" /\ ~Expired(c) /\ hour - c.seen < Pause
           /\ Set(v, Free) /\ UNCHANGED over /\ Answered(v)
     /\ UNCHANGED <<hour, admins, password, sessions>>

RevokedRow(c) == [c EXCEPT !.at = "revoked"]

\* Mutant: an expiry and a replaced password leave the rows as they are.
EndedAgain(c) == c

Ended(c) == IF c.at = "live" THEN RevokedRow(c) ELSE c
Expire(v) ==
  LET s == visit[v].session
  IN /\ At(v, "expire")
     /\ sessions' = [sessions EXCEPT ![s] = Ended(@)]
     /\ over' = over \cup {s} /\ Set(v, Free)
     /\ UNCHANGED <<hour, admins, password, revived>>

Extended(c, now) ==
  IF c.at = "live"
  THEN [c EXCEPT !.seen = now,
                 !.idle = IF now + IdleWindow < c.absolute THEN now + IdleWindow ELSE c.absolute]
  ELSE c
RefreshSession(v) ==
  /\ At(v, "refresh")
  /\ sessions' = [sessions EXCEPT ![visit[v].session] = Extended(@, visit[v].now)]
  /\ Set(v, Free) /\ Answered(v)
  /\ UNCHANGED <<hour, admins, password, over>>

(* Logout, the revocation of one session and of all others.                *)
Revoke(s) ==
  /\ sessions[s].at = "live"
  /\ sessions' = [sessions EXCEPT ![s] = RevokedRow(@)]
  /\ over' = over \cup {s}
  /\ UNCHANGED <<hour, admins, password, visit, revived>>

EndAll(S) == /\ sessions' = [s \in Session |-> IF s \in S THEN Ended(sessions[s]) ELSE sessions[s]]
             /\ over' = over \cup {s \in S : ~Unborn(s)}
RevokeOthers(s) ==
  /\ sessions[s].at = "live"
  /\ EndAll(Session \ {s})
  /\ UNCHANGED <<hour, admins, password, visit, revived>>

(* UpdateSecret reads and verifies the hash, then replaces it and revokes  *)
(* all sessions in one transaction; the reset from the command line does   *)
(* not verify.  The grants it revokes are those of OAuthGrants.            *)
UpdateSecret(v) ==
  /\ At(v, "free") /\ admins > 0 /\ password < MaxPassword
  /\ Set(v, [Free EXCEPT !.at = "replace"])
  /\ UNCHANGED <<hour, admins, password, sessions, over, revived>>

ReplacePassword(v) ==
  /\ At(v, "replace")
  /\ password' = password + 1
  /\ EndAll(Session)
  /\ Set(v, Free)
  /\ UNCHANGED <<hour, admins, revived>>

WebNext ==
  \/ HourPasses
  \/ \E v \in Visit :
       \/ BeginInitialize(v) \/ CreateAdmin(v) \/ Login(v) \/ Judge(v) \/ Expire(v) \/ RefreshSession(v)
       \/ UpdateSecret(v) \/ ReplacePassword(v)
       \/ \E s \in Session : CreateSession(v, s) \/ ReadSession(v, s)
  \/ \E s \in Session : Revoke(s) \/ RevokeOthers(s)

WebSpec == WebInit /\ [][WebNext]_webVars

-----------------------------------------------------------------------------
WebTypeOK ==
  /\ hour \in 0..LastHour /\ admins \in 0..1 /\ password \in 0..(MaxPassword + Cardinality(Visit))
  /\ \A s \in Session : /\ sessions[s].at \in {"none", "live", "revoked"}
                        /\ sessions[s].seen <= sessions[s].idle
                        /\ sessions[s].idle <= sessions[s].absolute
  /\ \A v \in Visit : visit[v].at \in {"free", "initialize", "login", "authenticate", "expire",
                                       "refresh", "replace"}
  /\ over \subseteq Session /\ revived \subseteq Session

(* There is one administrator, however many initialisations overlap; and a *)
(* session that somebody was told has ended (expired, logged out, revoked, *)
(* the password replaced) answers no request that begins afterwards,       *)
(* although a request that began earlier may refresh it at any time.       *)
EndedIsFinal == admins <= 1 /\ revived = {}
=============================================================================
