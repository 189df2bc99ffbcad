------------------------------ MODULE OAuthGrants ------------------------------
(***************************************************************************)
(* The OAuth server: dynamically registered clients, authorization codes   *)
(* that are exchanged once, and grants whose refresh token rotates.  Every *)
(* operation is one database transaction.  An answer may be lost and a     *)
(* client may keep what it was given, so any code or token that was ever   *)
(* issued can be presented at any time.                                    *)
(*                                                                         *)
(* A code is named as the grant it becomes.  A refresh token is its grant  *)
(* and its generation; the generation's access token is replaced with it.  *)
(* Requests of another client, with another resource or verifier change    *)
(* nothing, and neither do those that fail: they are left out.             *)
(***************************************************************************)
EXTENDS Naturals, FiniteSets

CONSTANTS Client, Grant,
          CodeLife,      \* oauthAuthorizationCodeTTL
          AccessLife,    \* oauthAccessTokenTTL
          RefreshLife,   \* oauthRefreshTokenTTL
          ClientIdle,    \* oauthClientIdleTTL
          ClientLimit,   \* oauthClientLimit
          MaxTime,       \* bound: of the clock
          MaxRotations   \* bound: rotations of one grant

ASSUME LifeTimes == /\ {CodeLife, AccessLife, RefreshLife, ClientIdle} \subseteq Nat
                    /\ ClientIdle >= RefreshLife /\ ClientIdle >= AccessLife
                    /\ ClientLimit \in Nat /\ MaxTime \in Nat /\ MaxRotations \in Nat

VARIABLES
  clock,
  clients,  \* oauth_clients: "new", "registered" or "removed"
  used,     \* last_used_at
  codes,    \* oauth_authorization_codes
  grants,   \* oauth_grants
  rotated,  \* oauth_refresh_token_history
  misused   \* observation: grants of which a code or refresh token was
            \* presented a second time before it expired

oauthVars == <<clock, clients, used, codes, grants, rotated, misused>>

NoCode == [at |-> "none", client |-> "nobody", until |-> 0]
NoGrant == [at |-> "none", client |-> "nobody", gen |-> 0,
            access |-> 0, refresh |-> 0]

OAuthInit ==
  /\ clock = 0
  /\ clients = [c \in Client |-> "new"] /\ used = [c \in Client |-> 0]
  /\ codes = [g \in Grant |-> NoCode]
  /\ grants = [g \in Grant |-> NoGrant]
  /\ rotated = {} /\ misused = {}

Passes == /\ clock < MaxTime /\ clock' = clock + 1
          /\ UNCHANGED <<clients, used, codes, grants, rotated, misused>>

Registered == {c \in Client : clients[c] = "registered"}

\* Mutant: a refresh or an exchange does not count as a use.
Untouched(c) == used

Touched(c) == [used EXCEPT ![c] = clock]
Revoked(g) == [grants EXCEPT ![g].at = "revoked"]

(* RegisterClient first prunes: clients that were not used for long go     *)
(* with everything that belongs to them, and so do expired codes and       *)
(* expired history.  At the limit all of it is rolled back.                *)
Idlers == {c \in Registered : used[c] + ClientIdle < clock}
RegisterClient(c) ==
  /\ clients[c] = "new"
  /\ Cardinality(Registered \ Idlers) < ClientLimit
  /\ clients' = [d \in Client |-> IF d = c THEN "registered"
                                  ELSE IF d \in Idlers THEN "removed" ELSE clients[d]]
  /\ used' = Touched(c)
  /\ codes' = [g \in Grant |-> IF codes[g].at # "none"
                                    /\ (codes[g].client \in Idlers \/ codes[g].until <= clock)
                               THEN [codes[g] EXCEPT !.at = "gone"] ELSE codes[g]]
  /\ grants' = [g \in Grant |-> IF grants[g].at # "none" /\ grants[g].client \in Idlers
                                THEN [grants[g] EXCEPT !.at = "gone"] ELSE grants[g]]
  /\ rotated' = {h \in rotated : h.until > clock /\ grants'[h.grant].at # "gone"}
  /\ UNCHANGED <<clock, misused>>

(* The last step of an authorization the signed-in user allows.            *)
IssueAuthorizationCode(g, c) ==
  /\ codes[g].at = "none" /\ c \in Registered
  /\ codes' = [codes EXCEPT ![g] = [at |-> "open", client |-> c, until |-> clock + CodeLife]]
  /\ UNCHANGED <<clock, clients, used, grants, rotated, misused>>

(* A code turns into a grant once; presented again it revokes the grant.   *)
ExchangeAuthorizationCode(g) ==
  /\ codes[g].at = "open" /\ clock < codes[g].until
  /\ codes' = [codes EXCEPT ![g].at = "used"]
  /\ grants' = [grants EXCEPT ![g] = [at |-> "live", client |-> codes[g].client, gen |-> 0,
                                      access |-> clock + AccessLife, refresh |-> clock + RefreshLife]]
  /\ used' = Touched(codes[g].client)
  /\ UNCHANGED <<clock, clients, rotated, misused>>

CodeKnown(g) == codes[g].at = "used"
ReplayCode(g) ==
  /\ codes[g].at \in {"used", "gone"} /\ clock < codes[g].until
  /\ grants[g].at \in {"live", "revoked"}
  /\ misused' = misused \cup {g}
  /\ grants' = IF CodeKnown(g) THEN Revoked(g) ELSE grants
  /\ UNCHANGED <<clock, clients, used, codes, rotated>>

(* The current refresh token is exchanged for the next one and remembered  *)
(* until it would have expired; the refresh expiry stays what it was.      *)
Refresh(g) ==
  /\ grants[g].at = "live" /\ clock < grants[g].refresh
  /\ grants[g].gen < MaxRotations
  /\ rotated' = rotated \cup {[grant |-> g, gen |-> grants[g].gen, until |-> grants[g].refresh]}
  /\ grants' = [grants EXCEPT ![g].gen = @ + 1, ![g].access = clock + AccessLife]
  /\ used' = Touched(grants[g].client)
  /\ UNCHANGED <<clock, clients, codes, misused>>

\* Mutant: only the token before the current one is remembered.
RememberedLast(g, n) == n + 1 = grants[g].gen

(* A rotated token is presented again.                                     *)
Remembered(g, n) == \E h \in rotated : h.grant = g /\ h.gen = n /\ h.until > clock
ReplayRefresh(g, n) ==
  /\ grants[g].at \in {"live", "revoked"} /\ n < grants[g].gen /\ clock < grants[g].refresh
  /\ misused' = misused \cup {g}
  /\ grants' = IF Remembered(g, n) THEN Revoked(g) ELSE grants
  /\ UNCHANGED <<clock, clients, used, codes, rotated>>

(* The user's password is replaced, or its grants are revoked.             *)
RevokeUserGrants ==
  /\ grants' = [g \in Grant |-> IF grants[g].at = "live"
                                THEN [grants[g] EXCEPT !.at = "revoked"] ELSE grants[g]]
  /\ UNCHANGED <<clock, clients, used, codes, rotated, misused>>

OAuthNext ==
  \/ Passes \/ RevokeUserGrants
  \/ \E c \in Client : RegisterClient(c) \/ \E g \in Grant : IssueAuthorizationCode(g, c)
  \/ \E g \in Grant : \/ ExchangeAuthorizationCode(g) \/ ReplayCode(g) \/ Refresh(g)
                      \/ \E n \in 0..MaxRotations : ReplayRefresh(g, n)

OAuthSpec == OAuthInit /\ [][OAuthNext]_oauthVars

-----------------------------------------------------------------------------
OAuthTypeOK ==
  /\ clock \in 0..MaxTime
  /\ clients \in [Client -> {"new", "registered", "removed"}]
  /\ Cardinality(Registered) <= ClientLimit
  /\ used \in [Client -> 0..MaxTime]
  /\ \A g \in Grant :
       /\ codes[g].at \in {"none", "open", "used", "gone"} /\ codes[g].client \in Client \cup {"nobody"}
       /\ grants[g].at \in {"none", "live", "revoked", "gone"}
       /\ grants[g].client \in Client \cup {"nobody"} /\ grants[g].gen \in 0..MaxRotations
       /\ grants[g].at \in {"live", "revoked"} => grants[g].client \in Registered
  /\ \A h \in rotated : grants[h.grant].at \in {"live", "revoked"} /\ h.gen < grants[h.grant].gen
  /\ misused \subseteq Grant

(* A grant one of whose codes or refresh tokens was presented again while  *)
(* it had not expired is over, however often it was rotated since and      *)
(* whatever was pruned in between.                                         *)
MisuseEndsGrant == \A g \in misused : grants[g].at # "live"

(* The pruning of a registration never ends a grant whose access or        *)
(* refresh token can still be used.                                        *)
Usable(g) == grants[g].at = "live" /\ (clock < grants[g].access \/ clock < grants[g].refresh)
PruningSparesLive == [][\A g \in Grant : Usable(g) => grants'[g].at # "gone"]_oauthVars
=============================================================================
