------------------------------- MODULE Access -------------------------------
(* Who the API takes a browser for: signed session cookies, sign-in with the    *)
(* identity provider, guest links, and the policy that says which of these may  *)
(* do what.  The API keeps no sessions: everything is in the cookie, any        *)
(* response that changed the session signs it anew, and of two responses to one *)
(* browser the later wins.                                                      *)
EXTENDS Integers

CONSTANTS Browsers,
          AdminTtl, GuestTtl, InviteTtl,  \* lifetimes, in seconds of the model
          Horizon,                        \* where the model's time ends
          MaxRestarts

ASSUME AccessAssumption == {AdminTtl, GuestTtl, InviteTtl, Horizon} \subseteq Nat

VARIABLES
  now,
  enabled,   \* sign-in is configured
  fixed,     \* the session secret is configured
  secret,    \* the secret in use, counted by the restarts that changed it
  cookie,    \* cookie[b]: what a browser holds, or NoCookie
  invites,   \* guest links handed out
  waiting    \* waiting[b]: the session a sign-in request loaded, while it awaits
             \* the provider, or NoCookie

accessVars == <<now, enabled, fixed, secret, cookie, invites, waiting>>

(* A session: the role, the embedded expiry, whether it carries the state of a  *)
(* sign-in; with a signature, its time and secret.  root, which is not in the   *)
(* code, is the time of the act the session goes back to, a guest's excluded:   *)
(* a sign-in with the provider, or the making of a guest link. *)
NoSession == [role |-> "none", exp |-> 0, oidc |-> FALSE, root |-> 0]
NoCookie == [session |-> NoSession, signed |-> 0, by |-> -1]
Roles == {"none", "admin", "guest"}

AccessInit ==
  /\ now = 0 /\ enabled \in BOOLEAN /\ fixed \in BOOLEAN /\ secret = 0
  /\ cookie = [b \in Browsers |-> NoCookie] /\ waiting = [b \in Browsers |-> NoCookie]
  /\ invites = {}

-----------------------------------------------------------------------------
(* Sessions. *)

(* Fault: the age of the signature is the only limit. *)
LoadByAge(b) ==
  LET c == cookie[b]
  IN IF c.by = secret /\ now - c.signed <= AdminTtl THEN c.session ELSE NoSession

(* load_session: the signature and its age, then the embedded expiry if any. *)
Load(b) ==
  LET c == cookie[b]
  IN IF /\ c.by = secret /\ now - c.signed <= AdminTtl
        /\ c.session.role # "none" => now <= c.session.exp
     THEN c.session ELSE NoSession

(* The middleware writes the cookie if the session changed; none at all if it   *)
(* is empty now. *)
Store(b, before, after) ==
  cookie' = IF before = after THEN cookie
            ELSE [cookie EXCEPT ![b] = IF after = NoSession THEN NoCookie
                    ELSE [session |-> after, signed |-> now, by |-> secret]]

(* resolve_principal: a key counts instead of the cookie, whatever it is. *)
Principal(s, key) == IF key # "absent" THEN (IF key = "wrong" THEN "anonymous" ELSE key)
                     ELSE IF s.role = "none" THEN "anonymous" ELSE s.role

(* check_access of the route that makes guest links: no public path, no guest   *)
(* rule, and not what the device token is for. *)
MayInvite(p) == p \in {"admin", "sync"} \/ (p = "anonymous" /\ ~enabled)

(* origin_rejected: a cookie counts for a mutating request only from the own page. *)
Rejected(p, origin) == p \in {"admin", "guest"} /\ origin \in {"foreign", "null"}

-----------------------------------------------------------------------------
(* Requests. *)

(* login stores the state of the sign-in in the session, callback looks for it; *)
(* both wait for the provider with the session they loaded. *)
BeginSignIn(b) ==
  /\ enabled /\ waiting[b] = NoCookie
  /\ waiting' = [waiting EXCEPT ![b] = [session |-> Load(b), signed |-> now, by |-> secret]]
  /\ UNCHANGED <<now, enabled, fixed, secret, cookie, invites>>

Login(b) ==
  /\ waiting[b] # NoCookie /\ waiting' = [waiting EXCEPT ![b] = NoCookie]
  /\ LET s == waiting[b].session IN Store(b, s, [s EXCEPT !.oidc = TRUE])
  /\ UNCHANGED <<now, enabled, fixed, secret, invites>>

Callback(b) ==
  /\ waiting[b] # NoCookie /\ waiting[b].session.oidc
  /\ waiting' = [waiting EXCEPT ![b] = NoCookie]
  /\ Store(b, waiting[b].session,
           [role |-> "admin", exp |-> now + AdminTtl, oidc |-> FALSE, root |-> now])
  /\ UNCHANGED <<now, enabled, fixed, secret, invites>>

(* The provider refuses or is away: an error, and nothing is written. *)
SignInFails(b) ==
  /\ waiting[b] # NoCookie /\ waiting' = [waiting EXCEPT ![b] = NoCookie]
  /\ UNCHANGED <<now, enabled, fixed, secret, cookie, invites>>

(* guest_signin with a link that is still good; an administrator stays one. *)
GuestSignIn(b, i) ==
  /\ i.by = secret /\ now - i.signed <= InviteTtl
  /\ Load(b).role # "admin"
  /\ Store(b, Load(b), [role |-> "guest", exp |-> now + GuestTtl, oidc |-> FALSE, root |-> i.root])
  /\ UNCHANGED <<now, enabled, fixed, secret, invites, waiting>>

Logout(b) ==
  /\ Store(b, Load(b), NoSession)
  /\ UNCHANGED <<now, enabled, fixed, secret, invites, waiting>>

(* create_guest_invite_link.  A link made by a guest would go back to what made *)
(* the guest one. *)
Invite(b, key, origin) ==
  LET p == Principal(Load(b), key)
  IN /\ MayInvite(p) /\ ~Rejected(p, origin)
     /\ invites' = invites \cup
          {[signed |-> now, by |-> secret, root |-> IF p = "guest" THEN Load(b).root ELSE now]}
     /\ UNCHANGED <<now, enabled, fixed, secret, cookie, waiting>>

Tick == now < Horizon /\ now' = now + 1 /\ UNCHANGED <<enabled, fixed, secret, cookie, invites, waiting>>

(* A restart reads the settings again, makes a new secret if none is configured, *)
(* and ends the requests in flight. *)
Restart ==
  /\ secret < MaxRestarts
  /\ secret' = IF fixed THEN secret ELSE secret + 1
  /\ enabled' \in BOOLEAN /\ waiting' = [b \in Browsers |-> NoCookie]
  /\ UNCHANGED <<now, fixed, cookie, invites>>

Keys == {"absent", "sync", "device", "wrong"}
Origins == {"own", "foreign", "null", "absent"}

AccessNext ==
  \/ \E b \in Browsers :
       \/ BeginSignIn(b) \/ Login(b) \/ Callback(b) \/ SignInFails(b) \/ Logout(b)
       \/ \E i \in invites : GuestSignIn(b, i)
       \/ \E k \in Keys, o \in Origins : Invite(b, k, o)
  \/ Tick \/ Restart

AccessSpec == AccessInit /\ [][AccessNext]_accessVars

-----------------------------------------------------------------------------
Session == [role : Roles, exp : Nat, oidc : BOOLEAN, root : Nat]
Signed == [session : Session, signed : Nat, by : Int]
Link == [signed : Nat, by : Int, root : Nat]

AccessTypeOK ==
  /\ now \in Nat /\ enabled \in BOOLEAN /\ fixed \in BOOLEAN /\ secret \in Nat
  /\ cookie \in [Browsers -> Signed] /\ waiting \in [Browsers -> Signed]
  /\ invites \subseteq Link

(* An administrator's session ends a lifetime after the sign-in, and a guest's  *)
(* goes back to a link that no guest made - an administrator, the sync token    *)
(* or, with sign-in off, anybody: it ends once the link and a stay that began   *)
(* with it are over, however often the browser has signed in, started to, or    *)
(* got its cookie signed anew. *)
AccessIsEarned ==
  \A b \in Browsers :
    LET s == Load(b)
    IN /\ s.role = "admin" => now <= s.root + AdminTtl
       /\ s.role = "guest" => now <= s.root + InviteTtl + GuestTtl
=============================================================================
