--------------------------- MODULE ServicesProofs ---------------------------
(* Theorems about the four parts that MCServices brings together, each for any   *)
(* values of its own constants, and about the four of them together. *)
EXTENDS MCServices, SequenceTheorems, FiniteSetTheorems, TLAPS

-----------------------------------------------------------------------------
(* Access: any browsers and any lifetimes. *)

(* What a session says about itself: it ends within a lifetime of the act it    *)
(* goes back to. *)
Earned(s) ==
  /\ s.role = "admin" => s.exp <= s.root + AdminTtl
  /\ s.role = "guest" => s.exp <= s.root + InviteTtl + GuestTtl

(* Sessions on their way through a sign-in are as good as those in a cookie, and *)
(* no link goes back further than the moment it was made. *)
SessionsEarned ==
  /\ \A b \in Browsers : Earned(cookie[b].session) /\ Earned(waiting[b].session)
  /\ \A i \in invites : i.root = i.signed

EarnedInv == AccessTypeOK /\ SessionsEarned

USE AccessAssumption

LEMMA NoSessionEarned == NoSession \in Session /\ NoCookie \in Signed /\ Earned(NoSession)
  BY DEF NoSession, NoCookie, Session, Signed, Roles, Earned

(* A loaded session is the one in the cookie and not yet over, or none. *)
LEMMA LoadedSession ==
  ASSUME EarnedInv, NEW b \in Browsers
  PROVE  /\ Load(b) \in Session /\ Earned(Load(b))
         /\ Load(b).role # "none" => now <= Load(b).exp
<1>1. cookie[b] \in Signed /\ cookie[b].session \in Session /\ Earned(cookie[b].session)
  BY DEF EarnedInv, AccessTypeOK, SessionsEarned, Signed
<1>2. Load(b) = NoSession
      \/ /\ Load(b) = cookie[b].session
         /\ cookie[b].session.role # "none" => now <= cookie[b].session.exp
  BY DEF Load
<1>3. CASE Load(b) = NoSession
  <2>1. NoSession.role = "none" BY DEF NoSession
  <2> QED BY <1>3, <2>1, NoSessionEarned
<1>4. CASE Load(b) # NoSession
  BY <1>1, <1>2, <1>4
<1> QED BY <1>3, <1>4

(* What a response leaves in the cookies is as good as the session it stores. *)
LEMMA StoredSession ==
  ASSUME EarnedInv, NEW b \in Browsers, NEW before, NEW after \in Session,
         Earned(after), Store(b, before, after)
  PROVE  /\ cookie' \in [Browsers -> Signed]
         /\ \A c \in Browsers : Earned(cookie'[c].session)
<1>1. cookie \in [Browsers -> Signed] /\ now \in Nat /\ secret \in Nat
  BY DEF EarnedInv, AccessTypeOK
<1>2. \A c \in Browsers : Earned(cookie[c].session)
  BY DEF EarnedInv, SessionsEarned
<1>3. CASE before = after
  BY <1>1, <1>2, <1>3 DEF Store
<1>4. CASE before # after
  <2> DEFINE new == IF after = NoSession THEN NoCookie
                    ELSE [session |-> after, signed |-> now, by |-> secret]
  <2>1. cookie' = [cookie EXCEPT ![b] = new]
    BY <1>4 DEF Store
  <2>2. new \in Signed /\ Earned(new.session)
    <3>1. CASE after = NoSession
      <4>1. new = NoCookie /\ NoCookie.session = NoSession BY <3>1 DEF NoCookie
      <4> QED BY <4>1, NoSessionEarned
    <3>2. CASE after # NoSession
      <4>1. new = [session |-> after, signed |-> now, by |-> secret] BY <3>2
      <4>2. new \in Signed BY <4>1, <1>1 DEF Signed
      <4>3. new.session = after BY <4>1
      <4> QED BY <4>2, <4>3
    <3> QED BY <3>1, <3>2
  <2> HIDE DEF new
  <2>3. \A c \in Browsers : cookie'[c] = IF c = b THEN new ELSE cookie[c]
    BY <2>1, <1>1
  <2> QED BY <2>1, <2>2, <2>3, <1>1, <1>2
<1> QED BY <1>3, <1>4

LEMMA AccessInitInv == AccessInit => EarnedInv
<1> SUFFICES ASSUME AccessInit PROVE EarnedInv
  OBVIOUS
<1>1. AccessTypeOK
  BY NoSessionEarned DEF AccessInit, AccessTypeOK, Link
<1>2. \A b \in Browsers : cookie[b] = NoCookie /\ waiting[b] = NoCookie
  BY DEF AccessInit
<1>3. NoCookie.session = NoSession
  BY DEF NoCookie
<1>4. SessionsEarned
  BY <1>2, <1>3, NoSessionEarned DEF AccessInit, SessionsEarned
<1> QED BY <1>1, <1>4 DEF EarnedInv

(* What a step that only writes cookies, and ends a sign-in, has to establish. *)
LEMMA CookieStep ==
  ASSUME EarnedInv, UNCHANGED <<now, enabled, fixed, secret, invites>>,
         cookie' \in [Browsers -> Signed], \A c \in Browsers : Earned(cookie'[c].session),
         \/ UNCHANGED waiting
         \/ \E b \in Browsers : waiting' = [waiting EXCEPT ![b] = NoCookie]
  PROVE  EarnedInv'
<1>1. waiting' \in [Browsers -> Signed]
  BY NoSessionEarned DEF EarnedInv, AccessTypeOK
<1>2. \A c \in Browsers : waiting'[c] = waiting[c] \/ waiting'[c] = NoCookie
  BY DEF EarnedInv, AccessTypeOK
<1>3. NoCookie.session = NoSession
  BY DEF NoCookie
<1>4. \A c \in Browsers : Earned(waiting'[c].session)
  BY <1>2, <1>3, NoSessionEarned DEF EarnedInv, SessionsEarned
<1>5. AccessTypeOK'
  BY <1>1 DEF EarnedInv, AccessTypeOK
<1>6. SessionsEarned'
  BY <1>4 DEF EarnedInv, SessionsEarned, Earned
<1> QED BY <1>5, <1>6 DEF EarnedInv

LEMMA AccessNextInv == EarnedInv /\ [AccessNext]_accessVars => EarnedInv'
<1> SUFFICES ASSUME EarnedInv, [AccessNext]_accessVars PROVE EarnedInv'
  OBVIOUS
<1>t. /\ now \in Nat /\ secret \in Nat /\ AdminTtl \in Nat /\ GuestTtl \in Nat /\ InviteTtl \in Nat
      /\ cookie \in [Browsers -> Signed] /\ waiting \in [Browsers -> Signed] /\ invites \subseteq Link
  BY DEF EarnedInv, AccessTypeOK
<1>1. ASSUME NEW b \in Browsers, BeginSignIn(b) PROVE EarnedInv'
  <2> DEFINE new == [session |-> Load(b), signed |-> now, by |-> secret]
  <2>1. Load(b) \in Session /\ Earned(Load(b)) BY <1>1, LoadedSession
  <2>2. new \in Signed /\ new.session = Load(b) BY <2>1, <1>t DEF Signed
  <2>3. waiting' = [waiting EXCEPT ![b] = new] BY <1>1 DEF BeginSignIn
  <2> HIDE DEF new
  <2>4. \A c \in Browsers : waiting'[c] = IF c = b THEN new ELSE waiting[c] BY <2>3, <1>t
  <2>5. waiting' \in [Browsers -> Signed] BY <2>2, <2>3, <1>t
  <2>6. AccessTypeOK' BY <1>1, <2>5 DEF BeginSignIn, EarnedInv, AccessTypeOK
  <2>7. \A c \in Browsers : Earned(waiting'[c].session)
    BY <2>1, <2>2, <2>4 DEF EarnedInv, SessionsEarned
  <2>8. SessionsEarned' BY <1>1, <2>7 DEF BeginSignIn, EarnedInv, SessionsEarned, Earned
  <2> QED BY <2>6, <2>8 DEF EarnedInv
<1>2. ASSUME NEW b \in Browsers, Login(b) PROVE EarnedInv'
  <2> DEFINE s == waiting[b].session
             after == [s EXCEPT !.oidc = TRUE]
  <2>1. s \in Session /\ Earned(s) BY <1>t DEF EarnedInv, SessionsEarned, Signed
  <2>2. after \in Session /\ Earned(after) BY <2>1 DEF Session, Earned
  <2>3. Store(b, s, after) BY <1>2 DEF Login
  <2> HIDE DEF s, after
  <2>4. cookie' \in [Browsers -> Signed] /\ \A c \in Browsers : Earned(cookie'[c].session)
    BY <2>2, <2>3, StoredSession
  <2>5. UNCHANGED <<now, enabled, fixed, secret, invites>> /\ waiting' = [waiting EXCEPT ![b] = NoCookie]
    BY <1>2 DEF Login
  <2> QED BY <2>4, <2>5, CookieStep
<1>3. ASSUME NEW b \in Browsers, Callback(b) PROVE EarnedInv'
  <2> DEFINE after == [role |-> "admin", exp |-> now + AdminTtl, oidc |-> FALSE, root |-> now]
  <2>1. after \in Session /\ Earned(after) BY <1>t DEF Session, Roles, Earned
  <2>2. Store(b, waiting[b].session, after) BY <1>3 DEF Callback
  <2> HIDE DEF after
  <2>3. cookie' \in [Browsers -> Signed] /\ \A c \in Browsers : Earned(cookie'[c].session)
    BY <2>1, <2>2, StoredSession
  <2>4. UNCHANGED <<now, enabled, fixed, secret, invites>> /\ waiting' = [waiting EXCEPT ![b] = NoCookie]
    BY <1>3 DEF Callback
  <2> QED BY <2>3, <2>4, CookieStep
<1>4. ASSUME NEW b \in Browsers, SignInFails(b) PROVE EarnedInv'
  <2>1. cookie' = cookie BY <1>4 DEF SignInFails
  <2>2. cookie' \in [Browsers -> Signed] /\ \A c \in Browsers : Earned(cookie'[c].session)
    BY <2>1, <1>t DEF EarnedInv, SessionsEarned
  <2>3. UNCHANGED <<now, enabled, fixed, secret, invites>> /\ waiting' = [waiting EXCEPT ![b] = NoCookie]
    BY <1>4 DEF SignInFails
  <2> QED BY <2>2, <2>3, CookieStep
<1>5. ASSUME NEW b \in Browsers, NEW i \in invites, GuestSignIn(b, i) PROVE EarnedInv'
  <2> DEFINE after == [role |-> "guest", exp |-> now + GuestTtl, oidc |-> FALSE, root |-> i.root]
  <2>1. i \in Link /\ i.signed \in Nat /\ i.root = i.signed /\ now - i.signed <= InviteTtl
    BY <1>5, <1>t DEF GuestSignIn, Link, EarnedInv, SessionsEarned
  <2>2. now + GuestTtl <= i.root + InviteTtl + GuestTtl BY <2>1, <1>t
  <2>3. after \in Session /\ Earned(after) BY <2>1, <2>2, <1>t DEF Session, Roles, Earned
  <2>4. Store(b, Load(b), after) BY <1>5 DEF GuestSignIn
  <2> HIDE DEF after
  <2>5. cookie' \in [Browsers -> Signed] /\ \A c \in Browsers : Earned(cookie'[c].session)
    BY <2>3, <2>4, StoredSession
  <2>6. UNCHANGED <<now, enabled, fixed, secret, invites>> /\ UNCHANGED waiting
    BY <1>5 DEF GuestSignIn
  <2> QED BY <2>5, <2>6, CookieStep
<1>6. ASSUME NEW b \in Browsers, Logout(b) PROVE EarnedInv'
  <2>1. Store(b, Load(b), NoSession) BY <1>6 DEF Logout
  <2>2. cookie' \in [Browsers -> Signed] /\ \A c \in Browsers : Earned(cookie'[c].session)
    BY <2>1, NoSessionEarned, StoredSession
  <2>3. UNCHANGED <<now, enabled, fixed, secret, invites>> /\ UNCHANGED waiting
    BY <1>6 DEF Logout
  <2> QED BY <2>2, <2>3, CookieStep
<1>7. ASSUME NEW b \in Browsers, NEW k \in Keys, NEW o \in Origins, Invite(b, k, o) PROVE EarnedInv'
  <2> DEFINE link == [signed |-> now, by |-> secret, root |-> now]
  <2>1. Principal(Load(b), k) # "guest" BY <1>7 DEF Invite, MayInvite
  <2>2. invites' = invites \cup {link} BY <1>7, <2>1 DEF Invite
  <2>3. link \in Link /\ link.root = link.signed BY <1>t DEF Link
  <2> HIDE DEF link
  <2>4. UNCHANGED <<now, enabled, fixed, secret, cookie, waiting>> BY <1>7 DEF Invite
  <2>5. AccessTypeOK' BY <2>2, <2>3, <2>4 DEF EarnedInv, AccessTypeOK
  <2>6. SessionsEarned' BY <2>2, <2>3, <2>4 DEF EarnedInv, SessionsEarned, Earned
  <2> QED BY <2>5, <2>6 DEF EarnedInv
<1>8. CASE Tick
  <2>1. now' \in Nat BY <1>8, <1>t DEF Tick
  <2>2. UNCHANGED <<enabled, fixed, secret, cookie, invites, waiting>> BY <1>8 DEF Tick
  <2>3. AccessTypeOK' BY <2>1, <2>2 DEF EarnedInv, AccessTypeOK
  <2>4. SessionsEarned' BY <2>2 DEF EarnedInv, SessionsEarned, Earned
  <2> QED BY <2>3, <2>4 DEF EarnedInv
<1>9. CASE Restart
  <2>1. /\ secret' \in Nat /\ enabled' \in BOOLEAN /\ UNCHANGED <<now, fixed, cookie, invites>>
        /\ waiting' = [b \in Browsers |-> NoCookie]
    BY <1>9, <1>t DEF Restart
  <2>2. AccessTypeOK' BY <2>1, NoSessionEarned DEF EarnedInv, AccessTypeOK
  <2>3. NoCookie.session = NoSession BY DEF NoCookie
  <2>4. \A b \in Browsers : Earned(waiting'[b].session) BY <2>1, <2>3, NoSessionEarned
  <2>5. SessionsEarned' BY <2>1, <2>4 DEF EarnedInv, SessionsEarned, Earned
  <2> QED BY <2>2, <2>5 DEF EarnedInv
<1>10. CASE UNCHANGED accessVars
  <2>1. UNCHANGED <<now, enabled, fixed, secret, cookie, invites, waiting>> BY <1>10 DEF accessVars
  <2>2. AccessTypeOK' BY <2>1 DEF EarnedInv, AccessTypeOK
  <2>3. SessionsEarned' BY <2>1 DEF EarnedInv, SessionsEarned, Earned
  <2> QED BY <2>2, <2>3 DEF EarnedInv
<1> QED BY <1>1, <1>2, <1>3, <1>4, <1>5, <1>6, <1>7, <1>8, <1>9, <1>10 DEF AccessNext

LEMMA AccessInvHolds == AccessSpec => []EarnedInv
  BY AccessInitInv, AccessNextInv, PTL DEF AccessSpec

(* Every reachable state of the access model is well typed. *)
THEOREM AccessTypeCorrect == AccessSpec => []AccessTypeOK
<1>1. EarnedInv => AccessTypeOK BY DEF EarnedInv
<1> QED BY <1>1, AccessInvHolds, PTL

(* Whatever the lifetimes, and whatever sign-ins, links, logouts, restarts and  *)
(* responses came in which order: an administrator's session goes back to a     *)
(* sign-in no longer ago than its lifetime, a guest's to a link that an          *)
(* administrator made, the sync token or, with sign-in off, anybody, no longer *)
(* ago than the lifetimes of link and stay. *)
THEOREM SessionsAreEarned == AccessSpec => []AccessIsEarned
<1>1. EarnedInv => AccessIsEarned
  <2> SUFFICES ASSUME EarnedInv, NEW b \in Browsers
               PROVE  /\ Load(b).role = "admin" => now <= Load(b).root + AdminTtl
                      /\ Load(b).role = "guest" => now <= Load(b).root + InviteTtl + GuestTtl
    BY DEF AccessIsEarned
  <2>1. Load(b) \in Session /\ Earned(Load(b)) /\ (Load(b).role # "none" => now <= Load(b).exp)
    BY LoadedSession
  <2>2. now \in Nat BY DEF EarnedInv, AccessTypeOK
  <2>3. Load(b).exp \in Nat /\ Load(b).root \in Nat BY <2>1 DEF Session
  <2> QED BY <2>1, <2>2, <2>3 DEF Earned
<1> QED BY <1>1, AccessInvHolds, PTL

HIDE AccessAssumption

-----------------------------------------------------------------------------
(* PanelDriver: any images, any number of attempts and calls, and a panel that   *)
(* behaves as badly as it likes. *)

(* The executor works on the first call, and the lock belongs to the last. *)
QueueOK ==
  /\ lock \in Images \cup {Free} /\ shows \in Seq(Images) /\ Len(shows) <= MaxShows
  /\ lock # Free => shows # <<>> /\ shows[Len(shows)] = lock
  /\ at \in Running \cup {"idle"} /\ (at # "idle" => shows # <<>> /\ buffer = Head(shows))

RestOK ==
  /\ attempt \in 0..MaxAttempts
  /\ asserted \in BOOLEAN /\ late \in BOOLEAN /\ handle \in BOOLEAN /\ seen \in BOOLEAN /\ low \in BOOLEAN
  /\ panel \in {"off", "on", "busy", "done", "latched"}
  /\ painting \in Images \cup {Mixed} /\ glass \in Images \cup {Mixed} /\ buffer \in Images \cup {Mixed}

(* How far the panel can have come at each step of an attempt.  After the reset *)
(* no waveform is left, so one that runs or has ended is this attempt's; the     *)
(* line can only have been LOW if the panel is not latched; a wait that ended    *)
(* without the warning saw the waveform end. *)
PanelFollows ==
  /\ at = "power" => panel \in {"off", "latched"}
  /\ at = "refresh" => panel \in {"on", "latched"}
  /\ at = "wait" => /\ panel # "off"
                    /\ panel = "busy" => painting = buffer
                    /\ panel = "done" => glass = buffer
                    /\ asserted => panel # "latched"
  /\ at = "off" => late \/ (panel = "done" /\ glass = buffer)
  /\ at = "judge" => late \/ (panel = "off" /\ glass = buffer)

DriverInv == QueueOK /\ RestOK /\ PanelFollows

USE DriverAssumption

LEMMA DriverInvTypes == DriverInv => DriverTypeOK
  BY DEF DriverInv, QueueOK, RestOK, DriverTypeOK

LEMMA DriverInitInv == DriverInit => DriverInv
<1> SUFFICES ASSUME DriverInit PROVE DriverInv
  OBVIOUS
<1>1. QueueOK BY EmptySeq DEF DriverInit, QueueOK
<1>2. RestOK
  <2>1. attempt \in 0..MaxAttempts BY DriverAssumption DEF DriverInit, DriverAssumption
  <2>2. /\ panel = "off" /\ painting = Mixed /\ glass = Mixed /\ buffer = Mixed
        /\ asserted = FALSE /\ late = FALSE /\ handle = FALSE /\ seen = FALSE /\ low = FALSE
    BY DEF DriverInit
  <2> QED BY <2>1, <2>2 DEF RestOK
<1>3. PanelFollows BY DEF DriverInit, PanelFollows
<1> QED BY <1>1, <1>2, <1>3 DEF DriverInv

(* The end of the job in hand leaves the queue in order. *)
LEMMA EndKeepsQueue ==
  ASSUME DriverInv, at # "idle" \/ shows # <<>>, NEW ok \in BOOLEAN, End(ok)
  PROVE  QueueOK' /\ at' = "idle"
<1>1. shows \in Seq(Images) /\ shows # <<>> /\ shows' = Tail(shows) /\ at' = "idle"
  BY DEF DriverInv, QueueOK, End
<1>2. shows' \in Seq(Images) /\ Len(shows') = Len(shows) - 1 /\ Len(shows) \in Nat /\ Len(shows) > 0
  BY <1>1
<1>3. Len(shows') <= MaxShows
  BY <1>2 DEF DriverInv, QueueOK
<1>4. CASE Len(shows) = 1 \/ lock = Free
  BY <1>1, <1>2, <1>3, <1>4 DEF DriverInv, QueueOK, End
<1>5. CASE Len(shows) # 1 /\ lock # Free
  <2>1. lock' = lock /\ shows[Len(shows)] = lock
    BY <1>5 DEF DriverInv, QueueOK, End
  <2>2. shows' # <<>> /\ shows'[Len(shows')] = shows[Len(shows)]
    <3>1. \A i \in 1..Len(shows') : shows'[i] = shows[i + 1]
      BY <1>1, HeadTailProperties
    <3> QED BY <1>2, <1>5, <3>1
  <2> QED BY <1>1, <1>2, <1>3, <2>1, <2>2 DEF DriverInv, QueueOK
<1> QED BY <1>1, <1>4, <1>5

(* A step within an attempt, or of the panel, does not touch the calls. *)
LEMMA SameQueue ==
  ASSUME DriverInv, UNCHANGED <<lock, shows, buffer>>,
         at' \in Running \/ at' = at, at # "idle" \/ at' = at
  PROVE  QueueOK'
  BY DEF DriverInv, QueueOK

(* A queue without its last call. *)
LEMMA ShorterQueue ==
  ASSUME NEW s \in Seq(Images), s # <<>>
  PROVE  /\ SubSeq(s, 1, Len(s) - 1) \in Seq(Images) /\ Len(SubSeq(s, 1, Len(s) - 1)) = Len(s) - 1
         /\ Len(s) # 1 => /\ SubSeq(s, 1, Len(s) - 1) # <<>>
                          /\ Head(SubSeq(s, 1, Len(s) - 1)) = Head(s)
<1>1. Len(s) \in Nat /\ Len(s) > 0 /\ Len(s) - 1 \in Nat
  BY EmptySeq
<1>2. CASE Len(s) = 1
  BY <1>1, <1>2, SubSeqEmpty, EmptySeq
<1>3. CASE Len(s) # 1
  <2> DEFINE n == Len(s) - 1
             t == SubSeq(s, 1, n)
  <2>1. n \in Int /\ 1 <= n /\ n - 1 + 1 = n /\ 1 \in 1..(n - 1 + 1)
    <3>1. n \in Nat /\ n # 0 BY <1>1, <1>3
    <3> HIDE DEF n
    <3> QED BY <3>1
  <2>2. \A i \in 1..n : s[i] \in Images BY <1>1, ElementOfSeq
  <2>3. t \in Seq(Images) /\ Len(t) = n /\ t[1] = s[1 + 1 - 1]
    <3> HIDE DEF n
    <3> QED BY <2>1, <2>2, SubSeqProperties
  <2>4. t # <<>> /\ Head(t) = t[1] /\ Head(s) = s[1]
    <3> HIDE DEF t, n
    <3> QED BY <2>1, <2>3, EmptySeq
  <2> QED BY <1>3, <2>3, <2>4
<1> QED BY <1>2, <1>3

LEMMA DriverNextInv == DriverInv /\ [DriverNext]_panelVars => DriverInv'
<1> SUFFICES ASSUME DriverInv, [DriverNext]_panelVars PROVE DriverInv'
  OBVIOUS
<1> USE DEF shower, signals, driver, hardware
<1>1. ASSUME NEW i \in Images, ShowImage(i) PROVE DriverInv'
  <2>1. /\ shows \in Seq(Images) /\ Len(shows) < MaxShows /\ shows' = Append(shows, i) /\ lock' = i
        /\ UNCHANGED <<at, buffer>>
    BY <1>1 DEF ShowImage, DriverInv, QueueOK
  <2>2. /\ shows' \in Seq(Images) /\ Len(shows') = Len(shows) + 1 /\ shows' # <<>>
        /\ shows'[Len(shows')] = i /\ (shows # <<>> => Head(shows') = Head(shows))
    BY <2>1
  <2>3. QueueOK' BY <2>1, <2>2 DEF DriverInv, QueueOK
  <2> QED BY <1>1, <2>3 DEF ShowImage, DriverInv, RestOK, PanelFollows
<1>2. CASE CancelShow
  <2>1. /\ lock # Free /\ shows \in Seq(Images) /\ shows # <<>> /\ lock' = Free
        /\ UNCHANGED <<at, buffer>>
    BY <1>2 DEF CancelShow, DriverInv, QueueOK
  <2>2. CASE shows' = shows
    <3>1. QueueOK' BY <2>1, <2>2 DEF DriverInv, QueueOK
    <3> QED BY <1>2, <3>1 DEF CancelShow, DriverInv, RestOK, PanelFollows
  <2>3. CASE shows' = SubSeq(shows, 1, Len(shows) - 1) /\ (at = "idle" \/ Len(shows) # 1)
    <3>1. Len(shows) \in Nat /\ Len(shows) > 0 BY <2>1
    <3>2. /\ shows' \in Seq(Images) /\ Len(shows') = Len(shows) - 1
          /\ (Len(shows) # 1 => shows' # <<>> /\ Head(shows') = Head(shows))
      BY <2>1, <2>3, <3>1, ShorterQueue
    <3>3. QueueOK' BY <2>1, <2>3, <3>1, <3>2 DEF DriverInv, QueueOK
    <3> QED BY <1>2, <3>3 DEF CancelShow, DriverInv, RestOK, PanelFollows
  <2> QED BY <1>2, <2>2, <2>3 DEF CancelShow
<1>3. CASE BeginShow
  <2>1. CASE Head(shows) \in Fitting
    <3>1. Head(shows) \in Images BY <2>1
    <3>2. /\ at' = "setup" /\ attempt' = 1 /\ buffer' = Head(shows) /\ shows # <<>>
          /\ UNCHANGED <<lock, shows, handle, panel, painting, glass>>
          /\ late' = FALSE /\ seen' = FALSE /\ low' = FALSE /\ asserted' = FALSE
      BY <1>3, <2>1 DEF BeginShow
    <3>3. QueueOK' BY <3>2 DEF DriverInv, QueueOK, Running
    <3>4. RestOK'
      <4>1. 1 \in 0..MaxAttempts BY DEF DriverAssumption
      <4> QED BY <3>1, <3>2, <4>1 DEF DriverInv, RestOK
    <3> QED BY <3>2, <3>3, <3>4 DEF DriverInv, PanelFollows
  <2>2. CASE Head(shows) \notin Fitting
    <3>1. End(FALSE) /\ shows # <<>> BY <1>3, <2>2 DEF BeginShow
    <3>2. QueueOK' /\ at' = "idle" BY <3>1, EndKeepsQueue
    <3>3. RestOK' BY <1>3, <2>2 DEF BeginShow, DriverInv, RestOK
    <3> QED BY <3>2, <3>3 DEF DriverInv, PanelFollows
  <2> QED BY <2>1, <2>2
<1>4. CASE Setup
  <2>1. QueueOK' BY <1>4, SameQueue DEF Setup, Running
  <2> QED BY <1>4, <2>1 DEF Setup, DriverInv, RestOK, PanelFollows
<1>5. CASE PowerOn
  <2>1. QueueOK' BY <1>5, SameQueue DEF PowerOn, Running
  <2> QED BY <1>5, <2>1 DEF PowerOn, DriverInv, RestOK, PanelFollows
<1>6. CASE Refresh
  <2>1. QueueOK' BY <1>6, SameQueue DEF Refresh, Running
  <2>2. RestOK' BY <1>6 DEF Refresh, DriverInv, RestOK
  <2>3. PanelFollows' BY <1>6 DEF Refresh, DriverInv, PanelFollows
  <2> QED BY <2>1, <2>2, <2>3 DEF DriverInv
<1>7. CASE Poll
  <2>1. QueueOK' BY <1>7, SameQueue DEF Poll, Running
  <2>2. RestOK' BY <1>7 DEF Poll, DriverInv, RestOK
  <2>3. CASE Line = "LOW" /\ asserted' = TRUE /\ UNCHANGED at
    <3>1. panel # "latched" BY <2>3 DEF Line
    <3>2. PanelFollows' BY <1>7, <2>3, <3>1 DEF Poll, DriverInv, PanelFollows
    <3> QED BY <2>1, <2>2, <3>2 DEF DriverInv
  <2>4. CASE Line = "HIGH" /\ asserted /\ at' = "off" /\ UNCHANGED asserted
    <3>1. panel = "done" /\ glass = buffer
      BY <1>7, <2>4 DEF Line, Poll, DriverInv, PanelFollows
    <3>2. PanelFollows' BY <1>7, <2>4, <3>1 DEF Poll, PanelFollows
    <3> QED BY <2>1, <2>2, <3>2 DEF DriverInv
  <2> QED BY <1>7, <2>3, <2>4 DEF Poll
<1>8. CASE TimeOut
  <2>1. QueueOK' BY <1>8, SameQueue DEF TimeOut, Running
  <2> QED BY <1>8, <2>1 DEF TimeOut, DriverInv, RestOK, PanelFollows
<1>9. CASE PowerOff
  <2>1. QueueOK' BY <1>9, SameQueue DEF PowerOff, Running
  <2> QED BY <1>9, <2>1 DEF PowerOff, DriverInv, RestOK, PanelFollows
<1>10. CASE Judge
  <2>1. CASE Failed /\ attempt < MaxAttempts
    <3>1. QueueOK' BY <1>10, <2>1, SameQueue DEF Judge, Running
    <3>2. RestOK'
      <4>1. attempt + 1 \in 0..MaxAttempts BY <2>1 DEF DriverInv, RestOK, DriverAssumption
      <4> QED BY <1>10, <2>1, <4>1 DEF Judge, DriverInv, RestOK
    <3>3. PanelFollows' BY <1>10, <2>1 DEF Judge, PanelFollows
    <3> QED BY <3>1, <3>2, <3>3 DEF DriverInv
  <2>2. CASE ~(Failed /\ attempt < MaxAttempts)
    <3>1. End(~Failed) /\ at = "judge" BY <1>10, <2>2 DEF Judge
    <3>2. QueueOK' /\ at' = "idle" BY <3>1, EndKeepsQueue
    <3>3. RestOK' BY <1>10, <2>2 DEF Judge, DriverInv, RestOK
    <3> QED BY <3>2, <3>3 DEF DriverInv, PanelFollows
  <2> QED BY <2>1, <2>2
<1>11. CASE DriverRaises
  <2>1. End(FALSE) /\ at # "idle" BY <1>11 DEF DriverRaises, Running
  <2>2. QueueOK' /\ at' = "idle" BY <2>1, EndKeepsQueue
  <2>3. RestOK' BY <1>11 DEF DriverRaises, DriverInv, RestOK
  <2> QED BY <2>2, <2>3 DEF DriverInv, PanelFollows
<1>12. CASE Sample
  <2>1. QueueOK' BY <1>12, SameQueue DEF Sample
  <2>2. RestOK' BY <1>12 DEF Sample, DriverInv, RestOK
  <2>3. PanelFollows' BY <1>12 DEF Sample, DriverInv, PanelFollows
  <2> QED BY <2>1, <2>2, <2>3 DEF DriverInv
<1>13. CASE WaveformEnds
  <2>1. QueueOK' BY <1>13, SameQueue DEF WaveformEnds
  <2> QED BY <1>13, <2>1 DEF WaveformEnds, DriverInv, RestOK, PanelFollows
<1>14. CASE PowerCycle
  <2>1. QueueOK' BY <1>14, SameQueue DEF PowerCycle
  <2> QED BY <1>14, <2>1 DEF PowerCycle, DriverInv, RestOK, PanelFollows
<1>15. CASE UNCHANGED panelVars
  BY <1>15 DEF panelVars, DriverInv, QueueOK, RestOK, PanelFollows
<1> QED
  BY <1>1, <1>2, <1>3, <1>4, <1>5, <1>6, <1>7, <1>8, <1>9, <1>10, <1>11, <1>12, <1>13, <1>14, <1>15
  DEF DriverNext, Attempt

LEMMA DriverInvHolds == DriverSpec => []DriverInv
  BY DriverInitInv, DriverNextInv, PTL DEF DriverSpec

(* Every reachable state of the driver model is well typed; in particular the    *)
(* attempts of a call are bounded, and a held lock belongs to a call that is     *)
(* still queued. *)
THEOREM DriverTypeCorrect == DriverSpec => []DriverTypeOK
  BY DriverInvHolds, DriverInvTypes, PTL

(* A success is told by the end of a job, and to the caller that still waits. *)
LEMMA ToldAtEnd ==
  ASSUME DriverInv, DriverNext, told' # told, told'.ok
  PROVE  Judge /\ End(~Failed) /\ ~Failed
<1> USE DEF shower, signals, driver, hardware
<1>1. ASSUME NEW ok \in BOOLEAN, End(ok) PROVE told' = told \/ told'.ok = ok
  <2>1. [image |-> lock, ok |-> ok].ok = ok OBVIOUS
  <2>2. told' = [image |-> lock, ok |-> ok] \/ told' = told BY <1>1 DEF End
  <2> QED BY <2>1, <2>2, Zenon
<1>2. ASSUME NEW i \in Images, ShowImage(i) PROVE FALSE
  BY <1>2 DEF ShowImage
<1>3. CASE BeginShow
  BY <1>1, <1>3 DEF BeginShow
<1>4. CASE Attempt /\ ~Judge
  BY <1>4 DEF Attempt, Setup, PowerOn, Refresh, Poll, TimeOut, PowerOff
<1>5. CASE DriverRaises
  BY <1>1, <1>5 DEF DriverRaises
<1>6. CASE Judge
  <2>1. End(~Failed) BY <1>6 DEF Judge
  <2>2. told'.ok = ~Failed BY <1>1, <2>1
  <2> QED BY <1>6, <2>1, <2>2
<1>7. CASE CancelShow \/ Sample \/ WaveformEnds \/ PowerCycle
  BY <1>7 DEF CancelShow, Sample, WaveformEnds, PowerCycle
<1> QED BY <1>2, <1>3, <1>4, <1>5, <1>6, <1>7 DEF DriverNext

(* A caller that is told its image is on the panel is told the truth, however    *)
(* long waveforms take, whatever was cancelled, cut short or latched before, and *)
(* whether or not the line could be read by the watcher. *)
THEOREM AcksAreTrue == DriverSpec => AckedMeansShown
<1>1. DriverInv /\ [DriverNext]_panelVars => [told' # told /\ told'.ok => glass' = told'.image]_panelVars
  <2> SUFFICES ASSUME DriverInv, DriverNext, told' # told, told'.ok PROVE glass' = told'.image
    OBVIOUS
  <2>1. Judge /\ End(~Failed) /\ ~Failed BY ToldAtEnd
  <2>2. glass = buffer /\ glass' = glass
    BY <2>1 DEF Judge, Failed, DriverInv, PanelFollows, hardware
  <2>3. told' = [image |-> lock, ok |-> ~Failed] /\ Len(shows) = 1 /\ lock # Free
    BY <2>1 DEF End
  <2>4. buffer = lock
    <3>1. shows \in Seq(Images) /\ shows[Len(shows)] = lock /\ buffer = Head(shows)
      BY <2>1, <2>3 DEF Judge, DriverInv, QueueOK
    <3> QED BY <2>3, <3>1
  <2> QED BY <2>2, <2>3, <2>4
<1> QED BY <1>1, DriverInvHolds, PTL DEF DriverSpec, AckedMeansShown

HIDE DriverAssumption

-----------------------------------------------------------------------------
(* GenerationTasks: any number of requests and of rows kept. *)

Working == {"start", "generate", "store", "register", "push", "record", "unpushed", "pushed", "failed"}
HasObject == {"register", "push", "record", "unpushed", "pushed"}
HasImage == {"push", "record", "unpushed", "pushed"}
IsPushed == {"record", "pushed"}

Rows == [status : Open \cup {"completed", "failed", "pruned"}, detail : {"none", "registered", "pushed"}]

TypesOK ==
  /\ asked \in 0..MaxTasks /\ losses \in 0..MaxLosses
  /\ row \in [TaskIds -> Rows] /\ doing \in [TaskIds -> Working \cup {"none", "ended"}]
  /\ object \subseteq 1..asked /\ image \subseteq 1..asked /\ pushed \subseteq 1..asked
  /\ \A t \in TaskIds : t > asked <=> doing[t] = "none"

(* The rows that are there are those of the last Kept requests. *)
ListIsNewest == Listed = {t \in 1..asked : asked - t < Kept}

(* What a coroutine has done by the time it is at a step. *)
Progress(t) ==
  /\ doing[t] \in HasObject => t \in object
  /\ doing[t] \in HasImage => t \in image
  /\ doing[t] \in IsPushed => t \in pushed

(* What a row says. *)
RowIsTrue(t) ==
  /\ row[t].status = "completed" => t \in object /\ t \in image
  /\ row[t].detail = "pushed" => t \in pushed
  /\ row[t].status \in Open => doing[t] \in Working \/ losses > 0
  /\ row[t].status \in {"completed", "failed"} => doing[t] = "ended"

RowsAreTrue == \A t \in TaskIds : Progress(t) /\ RowIsTrue(t)

TasksInv == TypesOK /\ ListIsNewest /\ RowsAreTrue

USE TasksAssumption

(* The newest k of an interval are its last k. *)
LEMMA NewestOfInterval ==
  ASSUME NEW a \in Int, NEW b \in Int, NEW k \in Nat, NEW S, S = a..b
  PROVE  Newest(S, k) = {t \in S : b - t < k}
<1>1. ASSUME NEW t \in S PROVE Cardinality({u \in S : u > t}) = b - t
  <2> DEFINE c == t + 1
  <2>1. {u \in S : u > t} = c..b
    BY <1>1
  <2>2. c \in Int /\ (IF c > b THEN 0 ELSE b - c + 1) = b - t
    BY <1>1
  <2> HIDE DEF c
  <2>3. Cardinality(c..b) = IF c > b THEN 0 ELSE b - c + 1
    BY <2>2, FS_Interval
  <2> QED BY <2>1, <2>2, <2>3
<1> QED BY <1>1 DEF Newest

LEMMA TasksInitInv == TasksInit => TasksInv
<1> SUFFICES ASSUME TasksInit PROVE TasksInv
  OBVIOUS
<1>1. Pruned \in Rows /\ Pruned.status = "pruned" /\ Pruned.detail = "none"
  BY DEF Pruned, Rows
<1>2. TypesOK
  BY <1>1 DEF TasksInit, TypesOK, TasksAssumption, TaskIds
<1>3. ListIsNewest
  BY DEF TasksInit, ListIsNewest, Listed
<1>4. RowsAreTrue
  BY <1>1 DEF TasksInit, RowsAreTrue, Progress, RowIsTrue, HasObject, HasImage, IsPushed, Open
<1> QED BY <1>2, <1>3, <1>4 DEF TasksInv

(* A step of one coroutine, with what it writes to its own row at most. *)
LEMMA OneTask ==
  ASSUME TasksInv, NEW t \in TaskIds, NEW step \in Working \cup {"ended"}, NEW r \in Rows,
         doing[t] \in Working, doing' = [doing EXCEPT ![t] = step],
         r.status # "pruned", row' = row \/ Mark(t, r),
         UNCHANGED asked, losses' \in 0..MaxLosses, losses <= losses',
         object' \in {object, object \cup {t}}, image' \in {image, image \cup {t}},
         pushed' \in {pushed, pushed \cup {t}},
         Progress(t)', RowIsTrue(t)'
  PROVE  TasksInv'
<1>1. /\ asked \in Nat /\ losses \in Nat /\ losses' \in Nat /\ row \in [TaskIds -> Rows]
      /\ doing \in [TaskIds -> Working \cup {"none", "ended"}]
  BY DEF TasksInv, TypesOK, TasksAssumption
<1>2. t \in 1..asked
  <2>1. doing[t] # "none" BY DEF Working
  <2> QED BY <1>1, <2>1 DEF TasksInv, TypesOK, TaskIds, TasksAssumption
<1>3. row' \in [TaskIds -> Rows] /\ \A u \in TaskIds \ {t} : row'[u] = row[u] /\ doing'[u] = doing[u]
  BY <1>1 DEF Mark
<1>4. TypesOK'
  <2>1. doing' \in [TaskIds -> Working \cup {"none", "ended"}] BY <1>1
  <2>2. \A u \in TaskIds : u > asked <=> doing'[u] = "none"
    <3>1. ASSUME NEW u \in TaskIds, u # t PROVE u > asked <=> doing'[u] = "none"
      BY <3>1, <1>3 DEF TasksInv, TypesOK
    <3>2. doing'[t] # "none" /\ ~(t > asked) BY <1>1, <1>2 DEF Working
    <3> QED BY <3>1, <3>2
  <2> QED BY <1>2, <1>3, <2>1, <2>2 DEF TasksInv, TypesOK
<1>5. Listed' = Listed
  <2>1. row'[t] # Pruned <=> row[t] # Pruned
    BY <1>1 DEF Mark, Pruned
  <2> QED BY <1>3, <2>1 DEF Listed
<1>6. ListIsNewest' BY <1>5 DEF TasksInv, ListIsNewest
<1>7. ASSUME NEW u \in TaskIds, u # t PROVE Progress(u)' /\ RowIsTrue(u)'
  <2>1. row'[u] = row[u] /\ doing'[u] = doing[u] BY <1>3, <1>7
  <2>2. Progress(u) /\ RowIsTrue(u) BY DEF TasksInv, RowsAreTrue
  <2>3. /\ u \in object => u \in object'
        /\ u \in image => u \in image'
        /\ u \in pushed => u \in pushed'
    OBVIOUS
  <2>4. losses > 0 => losses' > 0 BY <1>1
  <2>5. Progress(u)' BY <2>1, <2>2, <2>3 DEF Progress
  <2>6. RowIsTrue(u)' BY <2>1, <2>2, <2>3, <2>4 DEF RowIsTrue
  <2> QED BY <2>5, <2>6
<1>8. RowsAreTrue' BY <1>7 DEF RowsAreTrue
<1> QED BY <1>4, <1>6, <1>8 DEF TasksInv

(* A step that writes nothing to the row. *)
LEMMA SilentStep ==
  ASSUME TasksInv, NEW t \in TaskIds, NEW step \in Working, doing[t] \in Working \ {"failed"},
         doing' = [doing EXCEPT ![t] = step], UNCHANGED <<asked, row, losses>>,
         object' \in {object, object \cup {t}}, image' \in {image, image \cup {t}},
         pushed' \in {pushed, pushed \cup {t}}, Progress(t)'
  PROVE  TasksInv'
<1>1. RowIsTrue(t) BY DEF TasksInv, RowsAreTrue
<1>2. doing'[t] = step BY DEF TasksInv, TypesOK
<1>3. doing[t] # "ended" BY DEF Working
<1>4. RowIsTrue(t)' BY <1>1, <1>2, <1>3 DEF RowIsTrue
<1>5. Row("queued", "none") \in Rows /\ Row("queued", "none").status # "pruned"
  BY DEF Row, Rows, Open
<1>6. losses \in 0..MaxLosses /\ losses <= losses BY DEF TasksInv, TypesOK, TasksAssumption
<1> QED BY <1>4, <1>5, <1>6, OneTask

(* A step that writes the row r, if there still is one. *)
LEMMA MarkStep ==
  ASSUME TasksInv, NEW t \in TaskIds, NEW step \in Working \cup {"ended"}, NEW r \in Rows,
         doing[t] \in Working, doing' = [doing EXCEPT ![t] = step], Mark(t, r),
         UNCHANGED <<asked, losses, object, image, pushed>>, r.status # "pruned", Progress(t)',
         /\ r.status = "completed" => t \in object /\ t \in image
         /\ r.detail = "pushed" => t \in pushed
         /\ r.status \in Open => step \in Working
         /\ r.status \in {"completed", "failed"} => step = "ended"
  PROVE  TasksInv'
<1>1. doing'[t] = step BY DEF TasksInv, TypesOK
<1>2. CASE row[t] = Pruned
  <2>1. row' = row BY <1>2 DEF Mark
  <2>2. row'[t].status = "pruned" /\ row'[t].detail = "none" BY <1>2, <2>1 DEF Pruned
  <2>3. RowIsTrue(t)' BY <2>2 DEF RowIsTrue, Open
  <2>4. losses \in 0..MaxLosses /\ losses <= losses BY DEF TasksInv, TypesOK, TasksAssumption
  <2> QED BY <2>1, <2>3, <2>4, OneTask
<1>3. CASE row[t] # Pruned
  <2>1. row'[t] = r BY <1>3 DEF Mark, TasksInv, TypesOK
  <2>2. RowIsTrue(t)' BY <1>1, <2>1 DEF RowIsTrue
  <2>3. losses \in 0..MaxLosses /\ losses <= losses BY DEF TasksInv, TypesOK, TasksAssumption
  <2> QED BY <2>2, <2>3, OneTask
<1> QED BY <1>2, <1>3

(* A new request takes its place at the end of the list and pushes the oldest   *)
(* off it. *)
LEMMA CreateKeepsInv == TasksInv /\ Create => TasksInv'
<1> SUFFICES ASSUME TasksInv, Create PROVE TasksInv'
  OBVIOUS
<1> DEFINE n == asked + 1
           keep == Newest(Listed \cup {n}, Kept)
<1>1. /\ asked \in Nat /\ n \in TaskIds /\ asked' = n /\ Kept \in Nat /\ Kept > 0 /\ MaxTasks \in Nat
      /\ row \in [TaskIds -> Rows] /\ doing \in [TaskIds -> Working \cup {"none", "ended"}]
      /\ doing' = [doing EXCEPT ![n] = "start"] /\ UNCHANGED <<object, image, pushed, losses>>
  BY DEF Create, TasksInv, TypesOK, TasksAssumption, TaskIds
<1>2. row' = [t \in TaskIds |-> IF t = n THEN Row("queued", "none") ELSE IF t \in keep THEN row[t] ELSE Pruned]
  BY DEF Create
<1>3. keep = {t \in 1..n : n - t < Kept}
  <2> DEFINE a == IF asked < Kept THEN 1 ELSE asked - Kept + 1
  <2>1. a \in Int /\ a <= n /\ a >= 1 BY <1>1
  <2>2. Listed \cup {n} = a..n
    BY <1>1 DEF TasksInv, ListIsNewest
  <2>3. \A t \in 1..n : n - t < Kept => t >= a
    BY <1>1
  <2>4. n \in Int
    BY <1>1
  <2> HIDE DEF a, n
  <2>5. keep = {t \in Listed \cup {n} : n - t < Kept}
    <3>1. Kept \in Nat BY <1>1
    <3>2. a \in Int BY <2>1
    <3>3. ASSUME NEW S, S = a..n PROVE Newest(S, Kept) = {t \in S : n - t < Kept}
      BY <2>4, <3>1, <3>2, <3>3, NewestOfInterval
    <3> QED BY <2>2, <3>3, Zenon
  <2>6. \A t : t \in a..n /\ n - t < Kept <=> t \in 1..n /\ n - t < Kept
    BY <1>1, <2>1, <2>3, <2>4
  <2> QED BY <2>2, <2>5, <2>6
<1> HIDE DEF keep
<1>4. /\ Row("queued", "none") \in Rows /\ Pruned \in Rows /\ Row("queued", "none") # Pruned
      /\ Row("queued", "none").status = "queued" /\ Row("queued", "none").detail = "none"
      /\ Pruned.status = "pruned" /\ Pruned.detail = "none"
  BY DEF Row, Rows, Pruned, Open
<1>5. TypesOK'
  <2>1. row' \in [TaskIds -> Rows] BY <1>1, <1>2, <1>4
  <2>2. doing' \in [TaskIds -> Working \cup {"none", "ended"}] BY <1>1 DEF Working
  <2>3. \A t \in TaskIds : t > n <=> doing'[t] = "none"
    <3>1. ASSUME NEW t \in TaskIds, t # n PROVE t > n <=> doing'[t] = "none"
      BY <1>1, <3>1 DEF TasksInv, TypesOK, TaskIds
    <3>2. doing'[n] = "start" BY <1>1
    <3> QED BY <1>1, <3>1, <3>2
  <2>4. object \subseteq 1..n /\ image \subseteq 1..n /\ pushed \subseteq 1..n
    BY <1>1 DEF TasksInv, TypesOK
  <2>5. n \in 0..MaxTasks BY <1>1 DEF TaskIds
  <2>6. losses' \in 0..MaxLosses BY <1>1 DEF TasksInv, TypesOK
  <2> QED BY <1>1, <2>1, <2>2, <2>3, <2>4, <2>5, <2>6 DEF TypesOK
<1>6. ListIsNewest'
  <2>1. ASSUME NEW t \in TaskIds PROVE row'[t] # Pruned <=> t \in 1..n /\ n - t < Kept
    <3>1. CASE t = n BY <1>1, <1>2, <1>4, <3>1
    <3>2. CASE t # n /\ t \in keep
      <4>1. t \in 1..asked /\ asked - t < Kept BY <1>1, <1>3, <3>2 DEF TaskIds
      <4>2. t \in Listed BY <4>1 DEF TasksInv, ListIsNewest
      <4>3. row'[t] = row[t] BY <1>2, <3>2
      <4> QED BY <1>3, <3>2, <4>2, <4>3 DEF Listed
    <3>3. CASE t # n /\ t \notin keep BY <1>2, <1>3, <3>3
    <3> QED BY <3>1, <3>2, <3>3
  <2>2. 1..n \subseteq TaskIds BY <1>1 DEF TaskIds
  <2> QED BY <1>1, <2>1, <2>2 DEF ListIsNewest, Listed
<1>7. ASSUME NEW t \in TaskIds PROVE Progress(t)' /\ RowIsTrue(t)'
  <2>1. CASE t = n
    <3>1. doing'[t] = "start" /\ row'[t] = Row("queued", "none") BY <1>1, <1>2, <2>1
    <3> QED BY <3>1, <1>4 DEF Progress, RowIsTrue, HasObject, HasImage, IsPushed, Working
  <2>2. CASE t # n
    <3>1. doing'[t] = doing[t] /\ Progress(t) /\ RowIsTrue(t)
      BY <1>1, <2>2 DEF TasksInv, RowsAreTrue
    <3>2. row'[t] = row[t] \/ row'[t] = Pruned BY <1>2, <2>2
    <3>3. Progress(t)' BY <1>1, <3>1 DEF Progress
    <3>4. CASE row'[t] = row[t] BY <1>1, <3>1, <3>3, <3>4 DEF RowIsTrue
    <3>5. CASE row'[t] = Pruned BY <1>4, <3>3, <3>5 DEF RowIsTrue, Open
    <3> QED BY <3>2, <3>4, <3>5
  <2> QED BY <2>1, <2>2
<1>8. RowsAreTrue' BY <1>7 DEF RowsAreTrue
<1> QED BY <1>5, <1>6, <1>8 DEF TasksInv

LEMMA TasksNextInv == TasksInv /\ [TasksNext]_taskVars => TasksInv'
<1> SUFFICES ASSUME TasksInv, [TasksNext]_taskVars PROVE TasksInv'
  OBVIOUS
<1>0. doing \in [TaskIds -> Working \cup {"none", "ended"}] /\ losses \in Nat /\ MaxLosses \in Nat
  BY DEF TasksInv, TypesOK, TasksAssumption
<1>p. ASSUME NEW t \in TaskIds PROVE Progress(t)
  BY DEF TasksInv, RowsAreTrue
<1>r. \A s \in {"running", "completed", "failed"}, d \in {"none", "registered", "pushed"} :
        Row(s, d) \in Rows /\ Row(s, d).status = s /\ Row(s, d).detail = d
  BY DEF Row, Rows, Open
<1>1. CASE Create BY <1>1, CreateKeepsInv
<1>2. ASSUME NEW t \in TaskIds, MarkRunning(t) PROVE TasksInv'
  <2>1. /\ doing[t] = "start" /\ doing' = [doing EXCEPT ![t] = "generate"] /\ Mark(t, Row("running", "none"))
        /\ UNCHANGED <<asked, losses, object, image, pushed>>
    BY <1>2 DEF MarkRunning, Go
  <2>2. Progress(t)' BY <1>0, <2>1 DEF Progress, HasObject, HasImage, IsPushed
  <2> QED BY <1>r, <2>1, <2>2, MarkStep DEF Working, Open
<1>3. ASSUME NEW t \in TaskIds, Generate(t) PROVE TasksInv'
  <2>1. /\ doing[t] = "generate" /\ doing' = [doing EXCEPT ![t] = "store"]
        /\ UNCHANGED <<asked, row, losses, object, image, pushed>>
    BY <1>3 DEF Generate, Go
  <2>2. Progress(t)' BY <1>0, <2>1 DEF Progress, HasObject, HasImage, IsPushed
  <2> QED BY <2>1, <2>2, SilentStep DEF Working
<1>4. ASSUME NEW t \in TaskIds, StoreObject(t) PROVE TasksInv'
  <2>1. /\ doing[t] = "store" /\ doing' = [doing EXCEPT ![t] = "register"]
        /\ UNCHANGED <<asked, row, losses, image, pushed>> /\ object' = object \cup {t}
    BY <1>4 DEF StoreObject, Go
  <2>2. Progress(t)' BY <1>0, <2>1 DEF Progress, HasObject, HasImage, IsPushed
  <2> QED BY <2>1, <2>2, SilentStep DEF Working
<1>5. ASSUME NEW t \in TaskIds, RegisterImage(t) PROVE TasksInv'
  <2>1. /\ doing[t] = "register"
        /\ UNCHANGED <<asked, row, losses, object, pushed>> /\ image' = image \cup {t}
    BY <1>5 DEF RegisterImage, Go
  <2>2. PICK s \in {"push", "unpushed"} : doing' = [doing EXCEPT ![t] = s]
    BY <1>5 DEF RegisterImage, Go
  <2>3. t \in object BY <1>p, <2>1 DEF Progress, HasObject
  <2>4. Progress(t)' BY <1>0, <2>1, <2>2, <2>3 DEF Progress, HasObject, HasImage, IsPushed
  <2> QED BY <2>1, <2>2, <2>4, SilentStep DEF Working
<1>6. ASSUME NEW t \in TaskIds, Push(t) PROVE TasksInv'
  <2>1. /\ doing[t] = "push" /\ doing' = [doing EXCEPT ![t] = "record"]
        /\ UNCHANGED <<asked, row, losses, object, image>> /\ pushed' = pushed \cup {t}
    BY <1>6 DEF Push, Go
  <2>2. t \in object /\ t \in image BY <1>p, <2>1 DEF Progress, HasObject, HasImage
  <2>3. Progress(t)' BY <1>0, <2>1, <2>2 DEF Progress, HasObject, HasImage, IsPushed
  <2> QED BY <2>1, <2>3, SilentStep DEF Working
<1>7. ASSUME NEW t \in TaskIds, Record(t) PROVE TasksInv'
  <2>1. /\ doing[t] = "record" /\ doing' = [doing EXCEPT ![t] = "pushed"]
        /\ UNCHANGED <<asked, row, losses, object, image, pushed>>
    BY <1>7 DEF Record, Go
  <2>2. t \in object /\ t \in image /\ t \in pushed
    BY <1>p, <2>1 DEF Progress, HasObject, HasImage, IsPushed
  <2>3. Progress(t)' BY <1>0, <2>1, <2>2 DEF Progress, HasObject, HasImage, IsPushed
  <2> QED BY <2>1, <2>3, SilentStep DEF Working
<1>8. ASSUME NEW t \in TaskIds, MarkCompleted(t) PROVE TasksInv'
  <2>1. doing' = [doing EXCEPT ![t] = "ended"] /\ UNCHANGED <<asked, losses, object, image, pushed>>
    BY <1>8 DEF MarkCompleted, Go
  <2>2. Progress(t)' BY <1>0, <2>1 DEF Progress, HasObject, HasImage, IsPushed
  <2>3. CASE doing[t] = "unpushed" /\ Mark(t, Row("completed", "registered"))
    <3>1. t \in object /\ t \in image BY <1>p, <2>3 DEF Progress, HasObject, HasImage
    <3> QED BY <1>r, <2>1, <2>2, <2>3, <3>1, MarkStep DEF Working, Open
  <2>4. CASE doing[t] = "pushed" /\ Mark(t, Row("completed", "pushed"))
    <3>1. t \in object /\ t \in image /\ t \in pushed
      BY <1>p, <2>4 DEF Progress, HasObject, HasImage, IsPushed
    <3> QED BY <1>r, <2>1, <2>2, <2>4, <3>1, MarkStep DEF Working, Open
  <2> QED BY <1>8, <2>3, <2>4 DEF MarkCompleted, Go
<1>9. ASSUME NEW t \in TaskIds, Fails(t) PROVE TasksInv'
  <2>1. /\ doing[t] \in Working \ {"failed"} /\ doing' = [doing EXCEPT ![t] = "failed"]
        /\ UNCHANGED <<asked, row, losses, object, image, pushed>>
    BY <1>9 DEF Fails, Go, Working
  <2>2. Progress(t)' BY <1>0, <2>1 DEF Progress, HasObject, HasImage, IsPushed
  <2> QED BY <2>1, <2>2, SilentStep DEF Working
<1>10. ASSUME NEW t \in TaskIds, MarkFailed(t) PROVE TasksInv'
  <2>1. /\ doing[t] = "failed" /\ doing' = [doing EXCEPT ![t] = "ended"] /\ Mark(t, Row("failed", "none"))
        /\ UNCHANGED <<asked, losses, object, image, pushed>>
    BY <1>10 DEF MarkFailed, Go
  <2>2. Progress(t)' BY <1>0, <2>1 DEF Progress, HasObject, HasImage, IsPushed
  <2> QED BY <1>r, <2>1, <2>2, MarkStep DEF Working, Open
<1>11. ASSUME NEW t \in TaskIds, MarkLost(t) PROVE TasksInv'
  <2>1. /\ doing[t] \in Working /\ doing' = [doing EXCEPT ![t] = "ended"]
        /\ UNCHANGED <<asked, row, object, image, pushed>>
        /\ losses' = losses + 1 /\ losses < MaxLosses
    BY <1>11 DEF MarkLost, Go, Working
  <2>2. Progress(t)' BY <1>0, <2>1 DEF Progress, HasObject, HasImage, IsPushed
  <2>3. losses' \in 0..MaxLosses /\ losses <= losses' /\ losses' > 0 BY <1>0, <2>1
  <2>4. doing'[t] = "ended" BY <1>0, <2>1
  <2>5. RowIsTrue(t) BY DEF TasksInv, RowsAreTrue
  <2>6. RowIsTrue(t)' BY <2>1, <2>3, <2>4, <2>5 DEF RowIsTrue
  <2>7. Row("running", "none") \in Rows /\ Row("running", "none").status # "pruned" BY <1>r
  <2> QED BY <2>1, <2>2, <2>3, <2>6, <2>7, OneTask
<1>12. CASE ApiRestart
  <2>1. /\ doing' = [t \in TaskIds |-> IF t \in Live THEN "ended" ELSE doing[t]]
        /\ UNCHANGED <<asked, row, object, image, pushed>>
        /\ losses' \in 0..MaxLosses /\ losses' > 0
    BY <1>0, <1>12 DEF ApiRestart
  <2>2. \A t \in TaskIds : /\ doing'[t] \in {"none", "ended"}
                           /\ doing'[t] = "none" <=> doing[t] = "none"
                           /\ doing[t] = "ended" => doing'[t] = "ended"
    BY <1>0, <2>1 DEF Live
  <2>3. TypesOK' BY <1>0, <2>1, <2>2 DEF TasksInv, TypesOK
  <2>4. ListIsNewest' BY <2>1 DEF TasksInv, ListIsNewest, Listed
  <2>5. ASSUME NEW t \in TaskIds PROVE Progress(t)' /\ RowIsTrue(t)'
    <3>1. RowIsTrue(t) BY DEF TasksInv, RowsAreTrue
    <3>2. Progress(t)' BY <2>2 DEF Progress, HasObject, HasImage, IsPushed
    <3>3. RowIsTrue(t)' BY <2>1, <2>2, <3>1 DEF RowIsTrue
    <3> QED BY <3>2, <3>3
  <2> QED BY <2>3, <2>4, <2>5 DEF TasksInv, RowsAreTrue
<1>13. CASE UNCHANGED taskVars
  <2>1. UNCHANGED <<asked, row, doing, object, image, pushed, losses>> BY <1>13 DEF taskVars
  <2>2. TypesOK' /\ ListIsNewest' BY <2>1 DEF TasksInv, TypesOK, ListIsNewest, Listed
  <2>3. RowsAreTrue' BY <2>1 DEF TasksInv, RowsAreTrue, Progress, RowIsTrue
  <2> QED BY <2>2, <2>3 DEF TasksInv
<1> QED
  BY <1>1, <1>2, <1>3, <1>4, <1>5, <1>6, <1>7, <1>8, <1>9, <1>10, <1>11, <1>12, <1>13 DEF TasksNext

(* Whatever fails, is lost or restarts, and however many requests overlap: the   *)
(* list of tasks holds the newest requests and says of each only what is so. *)
THEOREM TasksAreTrue == TasksSpec => []TasksTellTheTruth
<1>1. TasksInv => TasksTellTheTruth
  <2> SUFFICES ASSUME TasksInv PROVE TasksTellTheTruth
    OBVIOUS
  <2>1. asked \in Nat /\ Kept \in Nat BY DEF TasksInv, TypesOK, TasksAssumption
  <2>2. Listed = Newest(1..asked, Kept)
    BY <2>1, NewestOfInterval DEF TasksInv, ListIsNewest
  <2>3. ASSUME NEW t \in Listed
        PROVE  /\ row[t].status = "completed" => t \in object \cap image
               /\ row[t].detail = "pushed" => t \in pushed
               /\ row[t].status \in Open /\ t \notin Live => losses > 0
               /\ row[t].status \in {"completed", "failed"} => doing[t] = "ended"
    <3>1. t \in TaskIds /\ RowIsTrue(t) BY DEF TasksInv, RowsAreTrue, Listed
    <3>2. doing[t] \in Working => t \in Live BY <3>1 DEF Live, Working
    <3> QED BY <3>1, <3>2 DEF RowIsTrue
  <2> QED BY <2>2, <2>3 DEF TasksTellTheTruth
<1>2. TasksSpec => []TasksInv BY TasksInitInv, TasksNextInv, PTL DEF TasksSpec
<1> QED BY <1>1, <1>2, PTL

HIDE TasksAssumption

-----------------------------------------------------------------------------
(* DisplayGroups: any jobs, screens and number of groups ever made. *)

(* What the group's row can be; an existing one belongs to a job. *)
GroupRows == [job : GroupJobs \cup {Nobody}, screens : 0..Parts, old : BOOLEAN, whole : BOOLEAN]

GroupTypes ==
  /\ groups \in 0..MaxGroups /\ group \in [GroupIds -> GroupRows]
  /\ \A g \in GroupIds : g > groups \/ group[g].job = Nobody => group[g] = Gone
  /\ current \in 0..groups /\ chosen \in 0..groups /\ spared \in 0..groups
  /\ stage \in {"idle", "claimed", "shown", "pruning", "story", "fill"}
  /\ running \in GroupJobs \cup {Nobody} /\ (stage = "idle" <=> running = Nobody)
  /\ filling \in 0..groups /\ (stage = "fill" <=> filling # Empty)
  /\ cuts \in Nat /\ removed \in BOOLEAN

(* The parts still to render find room in the group being filled. *)
RoomLeft ==
  /\ partsLeft \in 0..Parts
  /\ filling # Empty => group[filling].screens + partsLeft <= Parts

(* Between the two commits of the pruning: the objects of the groups about to go *)
(* are gone. *)
PruneOK ==
  /\ stage # "pruning" => stale = {}
  /\ \A g \in stale : g \in GroupIds /\ ~group[g].whole

(* Unless runs were cut short or groups deleted, a group that is not being       *)
(* filled has screens, and their objects unless it is about to go, as the newest *)
(* group of a job never is. *)
GroupsWhole ==
  cuts = 0 /\ ~removed =>
    /\ \A g \in Existing \ {filling} : group[g].screens > 0 /\ (group[g].whole \/ g \in stale)
    /\ filling # Empty => filling \in Existing /\ group[filling].whole
    /\ \A j \in GroupJobs : NewestOf(OfJob(j)) \cap stale = {}

GroupsInv == GroupTypes /\ RoomLeft /\ PruneOK /\ GroupsWhole
USE GroupsAssumption

LEMMA GoneIsARow ==
  /\ Gone \in GroupRows /\ Gone.job = Nobody /\ Gone.screens = 0 /\ Gone.whole = FALSE
  /\ Nobody \notin GroupJobs /\ Parts \in Nat /\ MaxGroups \in Nat /\ MaxCuts \in Nat
  /\ \A g \in GroupIds : g \in Nat /\ g # Empty /\ g <= MaxGroups
<1>1. Parts \in Nat /\ MaxGroups \in Nat /\ MaxCuts \in Nat /\ Nobody \notin GroupJobs
  BY DEF Nobody, GroupsAssumption
<1>. QED
  BY <1>1 DEF Gone, GroupRows, GroupIds, Empty

(* Of any groups there is a newest. *)
LEMMA NewestExists ==
  ASSUME NEW S \in SUBSET GroupIds, S # {}
  PROVE  \E g \in S : g \in NewestOf(S)
<1>1. MaxGroups \in Nat
  BY GoneIsARow
<1>. DEFINE T == {MaxGroups - h : h \in S}
<1>2. T \subseteq Nat /\ T # {}
  <2>1. \A h \in S : MaxGroups - h \in Nat
    BY <1>1 DEF GroupIds
  <2>2. PICK h \in S : TRUE
    OBVIOUS
  <2>3. MaxGroups - h \in T
    BY <2>2
  <2>. QED
    BY <2>1, <2>3
<1>3. \E x \in T : \A y \in T : ~ (<<y, x>> \in OpToRel(<, Nat))
  BY <1>2, WFMin, NatLessThanWellFounded
<1>4. PICK x \in T : \A y \in T : ~ (<<y, x>> \in OpToRel(<, Nat))
  BY <1>3
<1>5. \A y \in T : ~ (y < x)
  BY <1>2, <1>4, Zenon DEF OpToRel
<1>6. PICK g \in S : x = MaxGroups - g
  BY <1>4
<1>7. \A h \in S : ~ (MaxGroups - h < MaxGroups - g)
  BY <1>5, <1>6
<1>8. \A h \in S : h <= g
  BY <1>1, <1>7 DEF GroupIds
<1>. QED
  BY <1>8 DEF NewestOf

LEMMA GroupsInitInv == GroupsInit => GroupsInv
<1>. SUFFICES ASSUME GroupsInit PROVE GroupsInv
  OBVIOUS
<1>1. \A g \in GroupIds : group[g] = Gone
  BY DEF GroupsInit
<1>2. GroupTypes
  <2>1. group \in [GroupIds -> GroupRows]
    BY GoneIsARow DEF GroupsInit
  <2>2. groups = 0 /\ current = 0 /\ chosen = 0 /\ spared = 0 /\ filling = 0 /\ cuts = 0
    BY DEF GroupsInit, Empty
  <2>3. stage = "idle" /\ running = Nobody /\ removed = FALSE
    BY DEF GroupsInit
  <2>4. 0 \in 0..MaxGroups /\ 0 \in 0..0 /\ 0 \in Nat
    BY GoneIsARow
  <2>. QED
    BY <1>1, <2>1, <2>2, <2>3, <2>4 DEF GroupTypes, Empty
<1>3. RoomLeft
  BY GoneIsARow DEF GroupsInit, RoomLeft
<1>4. PruneOK
  BY DEF GroupsInit, PruneOK
<1>5. GroupsWhole
  BY <1>1 DEF GroupsInit, GroupsWhole, Existing
<1>. QED
  BY <1>2, <1>3, <1>4, <1>5 DEF GroupsInv

(* What a step that changes no row has to establish. *)
LEMMA SameGroups ==
  ASSUME GroupsInv, UNCHANGED <<group, groups, fill>>,
         current' \in 0..groups, chosen' \in 0..groups, spared' \in 0..groups,
         stage' \in {"idle", "claimed", "shown", "pruning", "story", "fill"},
         running' \in GroupJobs \cup {Nobody}, stage' = "idle" <=> running' = Nobody,
         stage' = "fill" <=> stage = "fill", UNCHANGED <<stale, cuts, removed>>,
         stage' # "pruning" => stale = {}
  PROVE  GroupsInv'
<1>1. GroupTypes'
  BY DEF GroupsInv, GroupTypes, fill
<1>2. RoomLeft' /\ PruneOK'
  BY DEF GroupsInv, RoomLeft, PruneOK, fill
<1>3. GroupsWhole'
  BY DEF GroupsInv, GroupsWhole, Existing, OfJob, NewestOf, fill
<1>. QED
  BY <1>1, <1>2, <1>3 DEF GroupsInv

LEMMA GroupsNextInv == GroupsInv /\ [GroupsNext]_groupVars => GroupsInv'
<1>. SUFFICES ASSUME GroupsInv, [GroupsNext]_groupVars PROVE GroupsInv'
  OBVIOUS
<1>. USE GoneIsARow
<1>t. /\ groups \in 0..MaxGroups /\ group \in [GroupIds -> GroupRows]
      /\ \A g \in GroupIds : g > groups \/ group[g].job = Nobody => group[g] = Gone
      /\ current \in 0..groups /\ chosen \in 0..groups /\ spared \in 0..groups
      /\ stage \in {"idle", "claimed", "shown", "pruning", "story", "fill"}
      /\ running \in GroupJobs \cup {Nobody} /\ (stage = "idle" <=> running = Nobody)
      /\ filling \in 0..groups /\ (stage = "fill" <=> filling # Empty)
      /\ cuts \in Nat /\ removed \in BOOLEAN
  BY DEF GroupsInv, GroupTypes
<1>p. /\ stage # "pruning" => stale = {}
      /\ \A g \in stale : g \in GroupIds /\ ~group[g].whole
      /\ partsLeft \in 0..Parts
      /\ filling # Empty => group[filling].screens + partsLeft <= Parts
  BY DEF GroupsInv, PruneOK, RoomLeft
<1>g. \A g \in GroupIds : /\ group[g] \in GroupRows /\ group[g].screens \in 0..Parts
                          /\ group[g].job \in GroupJobs \cup {Nobody}
                          /\ group[g].old \in BOOLEAN /\ group[g].whole \in BOOLEAN
  BY <1>t DEF GroupRows
<1>1. ASSUME NEW j \in GroupJobs, Claim(j) PROVE GroupsInv'
  BY <1>1, <1>t, <1>p, SameGroups DEF Claim, prune
<1>2. CASE ReadShowing
  BY <1>2, <1>t, <1>p, SameGroups DEF ReadShowing
<1>3. CASE NoStory
  BY <1>3, <1>t, <1>p, SameGroups DEF NoStory, Rest, prune
<1>4. ASSUME NEW j \in GroupJobs, DeleteJob(j) PROVE GroupsInv'
  BY <1>4, <1>t, <1>p, SameGroups DEF DeleteJob, prune
<1>5. ASSUME NEW g \in GroupIds, BeginDisplay(g) PROVE GroupsInv'
  <2>1. g \in 0..groups
    BY <1>5, <1>t DEF BeginDisplay, Existing
  <2>. QED
    BY <1>5, <2>1, <1>t, <1>p, SameGroups DEF BeginDisplay, prune
<1>6. CASE CommitDisplay
  <2>1. current' \in 0..groups /\ chosen' \in 0..groups
    BY <1>6, <1>t DEF CommitDisplay, Empty
  <2>. QED
    BY <1>6, <2>1, <1>t, <1>p, SameGroups DEF CommitDisplay, prune
<1>7. CASE ClearGrid
  <2>1. current' \in 0..groups
    BY <1>7, <1>t DEF ClearGrid, Empty
  <2>. QED
    BY <1>7, <2>1, <1>t, <1>p, SameGroups DEF ClearGrid, prune
<1>8. CASE ReadGroups
  <2>. DEFINE s == {g \in OfJob(running) \ {spared} : group[g].old} \ NewestOf(OfJob(running))
  <2>1. /\ stage = "shown" /\ stage' = "pruning" /\ stale' = s
        /\ group' = [g \in GroupIds |-> IF g \in stale' THEN [group[g] EXCEPT !.whole = FALSE] ELSE group[g]]
        /\ UNCHANGED <<groups, current, running, spared, filling, partsLeft, chosen, cuts, removed>>
    BY <1>8 DEF ReadGroups, fill
  <2>2. s \subseteq OfJob(running) /\ s \cap NewestOf(OfJob(running)) = {}
    OBVIOUS
  <2>. HIDE DEF s
  <2>3. s \subseteq GroupIds /\ \A g \in s : group[g] # Gone /\ group[g].job = running
    BY <2>2 DEF OfJob, Existing
  <2>4. filling = Empty /\ running \in GroupJobs /\ stale = {}
    BY <2>1, <1>t, <1>p
  <2>5. \A g \in GroupIds : /\ group'[g] = IF g \in s THEN [group[g] EXCEPT !.whole = FALSE] ELSE group[g]
                            /\ group'[g].job = group[g].job /\ group'[g].screens = group[g].screens
                            /\ group'[g].whole = (group[g].whole /\ g \notin s)
                            /\ group'[g] = Gone <=> group[g] = Gone
    <3>. SUFFICES ASSUME NEW g \in GroupIds
                  PROVE  /\ group'[g] = IF g \in s THEN [group[g] EXCEPT !.whole = FALSE] ELSE group[g]
                         /\ group'[g].job = group[g].job /\ group'[g].screens = group[g].screens
                         /\ group'[g].whole = (group[g].whole /\ g \notin s)
                         /\ group'[g] = Gone <=> group[g] = Gone
      OBVIOUS
    <3>1. CASE g \in s
      <4>1. group'[g] = [group[g] EXCEPT !.whole = FALSE] /\ group[g] \in GroupRows
        BY <2>1, <3>1, <1>g
      <4>2. group'[g].job = group[g].job /\ group'[g].screens = group[g].screens /\ group'[g].whole = FALSE
        BY <4>1 DEF GroupRows
      <4>3. group'[g] # Gone /\ group[g] # Gone
        BY <4>2, <2>3, <2>4, <3>1
      <4>. QED
        BY <4>1, <4>2, <4>3, <3>1
    <3>2. CASE g \notin s
      BY <2>1, <3>2, <1>g
    <3>. QED
      BY <3>1, <3>2
  <2>6. group' \in [GroupIds -> GroupRows]
    BY <2>1, <1>g DEF GroupRows
  <2>7. GroupTypes'
    BY <2>1, <2>5, <2>6, <1>t DEF GroupTypes
  <2>8. RoomLeft'
    BY <2>1, <2>4, <1>p DEF RoomLeft
  <2>9. PruneOK'
    BY <2>1, <2>3, <2>5 DEF PruneOK
  <2>10. GroupsWhole'
    <3>. SUFFICES ASSUME cuts = 0, ~removed PROVE GroupsWhole'
      BY <2>1 DEF GroupsWhole
    <3>1. Existing' = Existing /\ \A j \in GroupJobs : OfJob(j)' = OfJob(j)
      BY <2>5 DEF Existing, OfJob
    <3>2. \A g \in Existing : group[g].screens > 0 /\ group[g].whole
      BY <2>4 DEF GroupsInv, GroupsWhole, Existing, Empty
    <3>3. \A g \in Existing : group'[g].screens > 0 /\ (group'[g].whole \/ g \in stale')
      BY <3>2, <2>1, <2>5 DEF Existing
    <3>4. ASSUME NEW j \in GroupJobs PROVE NewestOf(OfJob(j)) \cap s = {}
      <4>1. CASE j = running
        BY <2>2, <4>1
      <4>2. CASE j # running
        BY <2>3, <4>2 DEF OfJob, NewestOf
      <4>. QED
        BY <4>1, <4>2
    <3>5. \A j \in GroupJobs : NewestOf(OfJob(j))' = NewestOf(OfJob(j))
      BY <3>1 DEF NewestOf
    <3>. QED
      BY <2>1, <2>4, <3>1, <3>3, <3>4, <3>5 DEF GroupsWhole
  <2>. QED
    BY <2>7, <2>8, <2>9, <2>10 DEF GroupsInv
<1>9. CASE CommitPrune
  <2>1. /\ stage = "pruning" /\ stage' = "story" /\ stale' = {} /\ spared' = Empty
        /\ group' = [g \in GroupIds |-> IF g \in stale THEN Gone ELSE group[g]]
        /\ UNCHANGED <<groups, current, running, filling, partsLeft, chosen, cuts, removed>>
    BY <1>9 DEF CommitPrune, fill
  <2>2. filling = Empty
    BY <2>1, <1>t
  <2>3. \A g \in GroupIds : group'[g] = IF g \in stale THEN Gone ELSE group[g]
    BY <2>1
  <2>4. group' \in [GroupIds -> GroupRows] /\ spared' \in 0..groups
    BY <2>1, <1>g, <1>t DEF Empty
  <2>5. GroupTypes'
    BY <2>1, <2>3, <2>4, <1>t DEF GroupTypes
  <2>6. RoomLeft' /\ PruneOK'
    BY <2>1, <2>2, <1>p DEF RoomLeft, PruneOK
  <2>7. GroupsWhole'
    BY <2>1, <2>2, <2>3 DEF GroupsInv, GroupsWhole, Existing, NewestOf
  <2>. QED
    BY <2>5, <2>6, <2>7 DEF GroupsInv
<1>10. CASE CreateGroup
  <2>. DEFINE n == groups + 1
              r == [job |-> running, screens |-> 0, old |-> FALSE, whole |-> TRUE]
  <2>1. /\ stage = "story" /\ stage' = "fill" /\ groups < MaxGroups /\ groups' = n
        /\ filling' = n /\ partsLeft' \in 1..Parts /\ group' = [group EXCEPT ![n] = r]
        /\ UNCHANGED <<current, running, spared, stale, chosen, cuts, removed>>
    BY <1>10 DEF CreateGroup, prune
  <2>2. /\ n \in GroupIds /\ n # Empty /\ n \in 0..MaxGroups /\ n > groups
        /\ \A x \in 0..groups : x \in 0..n
    BY <2>1, <1>t DEF GroupIds, Empty
  <2>3. running \in GroupJobs /\ stale = {} /\ filling = Empty
    BY <2>1, <1>t, <1>p
  <2>4. r \in GroupRows /\ r.job = running /\ r.screens = 0 /\ r.whole = TRUE /\ r # Gone
    BY <2>3 DEF GroupRows
  <2>. HIDE DEF n, r
  <2>5. partsLeft' \in 0..Parts /\ 0 + partsLeft' <= Parts
    <3>1. \A x \in 1..Parts : x \in 0..Parts /\ 0 + x <= Parts
      OBVIOUS
    <3>. QED
      BY <2>1, <3>1
  <2>6. \A g \in GroupIds : group'[g] = IF g = n THEN r ELSE group[g]
    BY <2>1, <2>2, <1>t
  <2>7. group' \in [GroupIds -> GroupRows]
    BY <2>1, <2>4, <1>t
  <2>8. \A g \in GroupIds : g > n => g > groups /\ g # n
    BY <2>2, <1>t DEF GroupIds
  <2>9. \A g \in GroupIds : g > n \/ group'[g].job = Nobody => group'[g] = Gone
    BY <2>2, <2>3, <2>4, <2>6, <2>8, <1>t
  <2>10. GroupTypes'
    BY <2>1, <2>2, <2>3, <2>7, <2>9, <1>t DEF GroupTypes
  <2>11. RoomLeft'
    BY <2>1, <2>2, <2>4, <2>5, <2>6 DEF RoomLeft
  <2>12. PruneOK'
    BY <2>1, <2>3 DEF PruneOK
  <2>13. GroupsWhole'
    <3>1. \A g \in Existing' \ {n} : g \in Existing \ {filling} /\ group'[g] = group[g]
      BY <2>3, <2>6 DEF Existing
    <3>2. n \in Existing' /\ group'[n].whole
      BY <2>2, <2>4, <2>6 DEF Existing
    <3>. QED
      BY <2>1, <2>3, <3>1, <3>2 DEF GroupsInv, GroupsWhole
  <2>. QED
    BY <2>10, <2>11, <2>12, <2>13 DEF GroupsInv
<1>11. CASE RenderPart
  <2>1. /\ stage = "fill" /\ partsLeft > 0 /\ partsLeft' = partsLeft - 1
        /\ UNCHANGED <<groups, current, stage, running, spared, stale, filling, chosen, cuts, removed>>
    BY <1>11 DEF RenderPart, prune
  <2>2. filling \in GroupIds /\ filling # Empty /\ stale = {}
    <3>1. filling \in 0..groups /\ filling # 0 /\ groups \in 0..MaxGroups
      BY <2>1, <1>t DEF Empty
    <3>. QED
      BY <2>1, <3>1, <1>t, <1>p DEF GroupIds
  <2>3. partsLeft' \in 0..Parts
    BY <2>1, <1>p
  <2>4. CASE UNCHANGED group
    <3>1. RoomLeft'
      BY <2>1, <2>2, <2>3, <2>4, <1>p, <1>g DEF RoomLeft
    <3>2. GroupTypes' /\ PruneOK'
      BY <2>1, <2>4, <1>t, <1>p DEF GroupTypes, PruneOK
    <3>3. GroupsWhole'
      BY <2>1, <2>4 DEF GroupsInv, GroupsWhole, Existing, OfJob, NewestOf
    <3>. QED
      BY <3>1, <3>2, <3>3 DEF GroupsInv
  <2>5. CASE group[filling] # Gone /\ group' = [group EXCEPT ![filling].screens = @ + 1]
    <3>. DEFINE r == [group[filling] EXCEPT !.screens = @ + 1]
    <3>1. group[filling].screens + 1 \in 0..Parts /\ group[filling].screens + 1 + partsLeft' <= Parts
      BY <2>1, <2>2, <1>p, <1>g
    <3>2. /\ r \in GroupRows /\ r.job = group[filling].job /\ r.whole = group[filling].whole
          /\ r.screens = group[filling].screens + 1
      BY <2>2, <3>1, <1>g DEF GroupRows
    <3>3. r # Gone /\ r.job # Nobody
      BY <2>2, <2>5, <3>2, <1>t, <1>g
    <3>. HIDE DEF r
    <3>4. group' = [group EXCEPT ![filling] = r]
      BY <2>5 DEF r
    <3>5. \A g \in GroupIds : group'[g] = IF g = filling THEN r ELSE group[g]
      BY <3>4, <1>t
    <3>6. group' \in [GroupIds -> GroupRows]
      BY <3>2, <3>4, <1>t
    <3>7. ~(filling > groups)
      BY <1>t
    <3>8. \A g \in GroupIds : g > groups \/ group'[g].job = Nobody => group'[g] = Gone
      BY <3>3, <3>5, <3>7, <1>t
    <3>9. GroupTypes'
      BY <2>1, <3>6, <3>8, <1>t DEF GroupTypes
    <3>10. RoomLeft' /\ PruneOK'
      <4>1. group'[filling].screens + partsLeft' <= Parts
        BY <2>2, <3>1, <3>2, <3>5
      <4>. QED
        BY <2>1, <2>2, <2>3, <4>1 DEF RoomLeft, PruneOK
    <3>11. GroupsWhole'
      <4>1. Existing' = Existing
        BY <2>2, <2>5, <3>3, <3>5 DEF Existing
      <4>2. \A g \in Existing \ {filling} : group'[g] = group[g]
        BY <3>5 DEF Existing
      <4>3. group'[filling].whole = group[filling].whole
        BY <2>2, <3>2, <3>5
      <4>. QED
        BY <2>1, <2>2, <4>1, <4>2, <4>3 DEF GroupsInv, GroupsWhole
    <3>. QED
      BY <3>9, <3>10, <3>11 DEF GroupsInv
  <2>. QED
    BY <1>11, <2>4, <2>5 DEF RenderPart
<1>12. CASE EndRun
  <2>1. /\ stage = "fill" /\ stage' = "idle" /\ running' = Nobody /\ filling' = Empty
        /\ group' = IF group[filling].screens = 0 THEN [group EXCEPT ![filling] = Gone] ELSE group
        /\ UNCHANGED <<groups, current, partsLeft, spared, stale, chosen, cuts, removed>>
    BY <1>12 DEF EndRun, Rest, prune
  <2>2. filling \in GroupIds /\ filling # Empty /\ stale = {}
    <3>1. filling \in 0..groups /\ filling # 0 /\ groups \in 0..MaxGroups
      BY <2>1, <1>t DEF Empty
    <3>. QED
      BY <2>1, <3>1, <1>t, <1>p DEF GroupIds
  <2>3. \A g \in GroupIds :
           group'[g] = IF g = filling /\ group[g].screens = 0 THEN Gone ELSE group[g]
    BY <2>1, <2>2, <1>t
  <2>4. group' \in [GroupIds -> GroupRows]
    BY <2>1, <1>t
  <2>5. GroupTypes'
    BY <2>1, <2>3, <2>4, <1>t DEF GroupTypes, Empty
  <2>6. RoomLeft' /\ PruneOK'
    BY <2>1, <2>2, <1>p DEF RoomLeft, PruneOK
  <2>7. GroupsWhole'
    <3>1. \A g \in Existing' : g \in Existing /\ group'[g] = group[g] /\ group[g] # Gone
                               /\ (g = filling => group[g].screens > 0)
      BY <2>2, <2>3, <1>g DEF Existing
    <3>. QED
      BY <2>1, <2>2, <3>1 DEF GroupsInv, GroupsWhole
  <2>. QED
    BY <2>5, <2>6, <2>7 DEF GroupsInv
<1>13. CASE CutShort
  <2>1. /\ stage' = "idle" /\ running' = Nobody /\ filling' = Empty /\ partsLeft' = 0
        /\ spared' = Empty /\ stale' = {} /\ cuts' = cuts + 1
        /\ UNCHANGED <<group, groups, current, chosen, removed>>
    BY <1>13 DEF CutShort, Rest
  <2>2. GroupTypes' /\ RoomLeft' /\ PruneOK'
    BY <2>1, <1>t DEF GroupTypes, RoomLeft, PruneOK, Empty
  <2>3. GroupsWhole'
    BY <2>1, <1>t DEF GroupsWhole
  <2>. QED
    BY <2>2, <2>3 DEF GroupsInv
<1>14. ASSUME NEW g \in GroupIds, DeleteGroup(g) PROVE GroupsInv'
  <2>1. /\ group' = [group EXCEPT ![g] = Gone] /\ removed' = TRUE
        /\ UNCHANGED <<groups, current, stage, running, spared, stale, filling, partsLeft, chosen, cuts>>
    BY <1>14 DEF DeleteGroup, prune, fill
  <2>2. \A h \in GroupIds : group'[h] = IF h = g THEN Gone ELSE group[h]
    BY <2>1, <1>t
  <2>3. GroupTypes'
    BY <2>1, <2>2, <1>t DEF GroupTypes
  <2>4. RoomLeft'
    <3>1. ASSUME filling # Empty PROVE group'[filling].screens + partsLeft <= Parts
      <4>1. filling \in GroupIds
        BY <3>1, <1>t DEF GroupIds, Empty
      <4>. QED
        BY <2>2, <3>1, <4>1, <1>p
    <3>. QED
      BY <2>1, <3>1, <1>p DEF RoomLeft
  <2>5. PruneOK'
    BY <2>1, <2>2, <1>p DEF PruneOK
  <2>6. GroupsWhole'
    BY <2>1 DEF GroupsWhole
  <2>. QED
    BY <2>3, <2>4, <2>5, <2>6 DEF GroupsInv
<1>15. ASSUME NEW g \in GroupIds, Age(g) PROVE GroupsInv'
  <2>. DEFINE r == [group[g] EXCEPT !.old = TRUE]
  <2>1. /\ group[g] # Gone /\ group' = [group EXCEPT ![g] = r]
        /\ UNCHANGED <<groups, current, stage, running, spared, stale, filling, partsLeft, chosen, cuts, removed>>
    BY <1>15 DEF Age, prune, fill, Existing
  <2>2. /\ r \in GroupRows /\ r.job = group[g].job /\ r.screens = group[g].screens
        /\ r.whole = group[g].whole
    BY <1>g DEF GroupRows
  <2>3. r # Gone
    BY <2>1, <2>2, <1>t
  <2>. HIDE DEF r
  <2>4. \A h \in GroupIds : group'[h] = IF h = g THEN r ELSE group[h]
    BY <2>1, <1>t
  <2>5. \A h \in GroupIds : /\ group'[h].job = group[h].job /\ group'[h].screens = group[h].screens
                            /\ group'[h].whole = group[h].whole
                            /\ (group'[h] = Gone <=> group[h] = Gone)
    BY <2>1, <2>2, <2>3, <2>4
  <2>6. group' \in [GroupIds -> GroupRows]
    BY <2>1, <2>2, <1>t
  <2>7. GroupTypes'
    BY <2>1, <2>5, <2>6, <1>t DEF GroupTypes
  <2>8. RoomLeft'
    <3>1. ASSUME filling # Empty PROVE group'[filling].screens + partsLeft <= Parts
      <4>1. filling \in GroupIds
        BY <3>1, <1>t DEF GroupIds, Empty
      <4>. QED
        BY <2>5, <3>1, <4>1, <1>p
    <3>. QED
      BY <2>1, <3>1, <1>p DEF RoomLeft
  <2>9. PruneOK'
    BY <2>1, <2>5, <1>p DEF PruneOK
  <2>10. GroupsWhole'
    <3>1. Existing' = Existing /\ \A j \in GroupJobs : OfJob(j)' = OfJob(j)
      BY <2>5 DEF Existing, OfJob
    <3>2. \A j \in GroupJobs : NewestOf(OfJob(j))' = NewestOf(OfJob(j))
      BY <3>1 DEF NewestOf
    <3>3. \A h \in Existing : group'[h].screens = group[h].screens /\ group'[h].whole = group[h].whole
      BY <2>5 DEF Existing
    <3>. QED
      BY <2>1, <3>1, <3>2, <3>3 DEF GroupsInv, GroupsWhole
  <2>. QED
    BY <2>7, <2>8, <2>9, <2>10 DEF GroupsInv
<1>16. CASE UNCHANGED groupVars
  BY <1>16, <1>t, <1>p, SameGroups DEF groupVars, prune
<1>. QED
  BY <1>1, <1>2, <1>3, <1>4, <1>5, <1>6, <1>7, <1>8, <1>9, <1>10, <1>11, <1>12, <1>13, <1>14, <1>15, <1>16
  DEF GroupsNext, RunJob
LEMMA GroupsInvHolds == GroupsSpec => []GroupsInv
  BY GroupsInitInv, GroupsNextInv, PTL DEF GroupsSpec

LEMMA GroupsInvTypes == GroupsInv => GroupsTypeOK
<1>. SUFFICES ASSUME GroupsInv PROVE GroupsTypeOK
  OBVIOUS
<1>1. /\ GroupTypes /\ groups \in 0..MaxGroups /\ group \in [GroupIds -> GroupRows]
      /\ \A g \in GroupIds : g > groups => group[g] = Gone
  BY DEF GroupsInv, GroupTypes
<1>2. \A g \in GroupIds : group[g].job \in GroupJobs \cup {Nobody} /\ group[g].screens \in 0..Parts
  BY <1>1 DEF GroupRows
<1>3. Existing \subseteq 1..groups
  BY <1>1 DEF Existing, GroupIds
<1>. QED
  BY <1>1, <1>2, <1>3 DEF GroupTypes, GroupsTypeOK

(* Every reachable state of the display groups' model is well typed: no group    *)
(* gets more screens than its job renders, and no pointer of the grid, of the    *)
(* pruning or of the worker is to a group never made. *)
THEOREM GroupsTypeCorrect == GroupsSpec => []GroupsTypeOK
  BY GroupsInvHolds, GroupsInvTypes, PTL

(* The group Display now takes, at any time. *)
NewestWorks ==
  cuts = 0 /\ ~removed => \A j \in GroupJobs : \A g \in NewestOf(Finished(j)) : Playable(g)

LEMMA InvNewestWorks == GroupsInv => NewestWorks
<1>. SUFFICES ASSUME GroupsInv, cuts = 0, ~removed, NEW j \in GroupJobs, NEW g \in NewestOf(Finished(j))
              PROVE  Playable(g)
  BY DEF NewestWorks
<1>1. g \in Existing \ {filling} /\ g \in Finished(j)
  BY DEF NewestOf, Finished, OfJob
<1>2. group[g].screens > 0 /\ (group[g].whole \/ g \in stale)
  BY <1>1 DEF GroupsInv, GroupsWhole
<1>3. CASE stage # "pruning"
  BY <1>2, <1>3 DEF Playable, GroupsInv, PruneOK
<1>4. CASE stage = "pruning"
  <2>1. filling = Empty /\ \A h \in Existing : h # Empty
    BY <1>4, GoneIsARow DEF GroupsInv, GroupTypes, Existing
  <2>2. Finished(j) = OfJob(j)
    BY <2>1 DEF Finished, OfJob
  <2>3. g \notin stale
    BY <2>2 DEF GroupsInv, GroupsWhole
  <2>. QED
    BY <1>2, <2>3 DEF Playable
<1>. QED
  BY <1>3, <1>4

(* A job with a playable group keeps one. *)
LEMMA StaysPlayable ==
  ASSUME GroupsInv, GroupsNext, cuts' = 0, ~removed', NEW j \in GroupJobs,
         NEW g \in Finished(j), Playable(g)
  PROVE  \E h \in Finished(j)' : Playable(h)'
<1>. USE GoneIsARow
<1>t. /\ groups \in 0..MaxGroups /\ group \in [GroupIds -> GroupRows] /\ cuts \in Nat
      /\ \A h \in GroupIds : h > groups \/ group[h].job = Nobody => group[h] = Gone
      /\ (stage = "fill" <=> filling # Empty)
      /\ stage # "pruning" => stale = {}
      /\ \A h \in stale : h \in GroupIds /\ ~group[h].whole
  BY DEF GroupsInv, GroupTypes, PruneOK
<1>g. /\ g \in GroupIds /\ group[g] # Gone /\ group[g].job = j /\ g # filling
      /\ group[g].screens > 0 /\ group[g].whole
  BY DEF Finished, OfJob, Existing, Playable
<1>k. ASSUME NEW h \in GroupIds, group'[h] = group[h], h # filling', group[h] # Gone,
             group[h].job = j, group[h].screens > 0, group[h].whole
      PROVE  \E x \in Finished(j)' : Playable(x)'
  <2>1. h \in Finished(j)'
    BY <1>k DEF Finished, OfJob, Existing
  <2>2. Playable(h)'
    BY <1>k DEF Playable
  <2>. QED
    BY <2>1, <2>2
<1>s. ASSUME UNCHANGED <<group, filling>> PROVE \E x \in Finished(j)' : Playable(x)'
  BY <1>s, <1>g, <1>k
<1>1. CASE \E i \in GroupJobs : Claim(i) \/ DeleteJob(i)
  BY <1>1, <1>s DEF Claim, DeleteJob, fill
<1>2. CASE ReadShowing \/ NoStory \/ CommitDisplay \/ ClearGrid
  BY <1>2, <1>s DEF ReadShowing, NoStory, CommitDisplay, ClearGrid, fill
<1>3. CASE CutShort
  BY <1>3, <1>t DEF CutShort
<1>4. ASSUME NEW h \in GroupIds, DeleteGroup(h) PROVE FALSE
  BY <1>4 DEF DeleteGroup
<1>5. ASSUME NEW h \in GroupIds, BeginDisplay(h) PROVE \E x \in Finished(j)' : Playable(x)'
  BY <1>5, <1>s DEF BeginDisplay, fill
<1>6. CASE ReadGroups
  <2>. DEFINE N == NewestOf(OfJob(running))
  <2>1. /\ stale' \cap N = {} /\ stale' \subseteq OfJob(running) /\ stage = "shown"
        /\ group' = [h \in GroupIds |-> IF h \in stale' THEN [group[h] EXCEPT !.whole = FALSE] ELSE group[h]]
        /\ UNCHANGED <<filling, cuts, removed>>
    BY <1>6 DEF ReadGroups, fill
  <2>2. filling = Empty /\ stale = {}
    BY <2>1, <1>t
  <2>3. CASE g \notin stale'
    BY <2>1, <2>3, <1>g, <1>k
  <2>4. CASE g \in stale'
    <3>1. running = j /\ OfJob(running) # {} /\ OfJob(running) \in SUBSET GroupIds
      BY <2>1, <2>4, <1>g DEF OfJob, Existing
    <3>2. PICK h \in OfJob(running) : h \in N
      BY <3>1, NewestExists
    <3>3. h \notin stale' /\ h \in GroupIds /\ group[h] # Gone /\ group[h].job = j /\ h # filling
      BY <2>1, <2>2, <3>1, <3>2 DEF OfJob, Existing
    <3>4. group[h].screens > 0 /\ group[h].whole
      BY <2>1, <2>2, <3>3 DEF GroupsInv, GroupsWhole, Existing
    <3>. QED
      BY <2>1, <3>3, <3>4, <1>k
  <2>. QED
    BY <2>3, <2>4
<1>7. CASE CommitPrune
  <2>1. /\ group' = [h \in GroupIds |-> IF h \in stale THEN Gone ELSE group[h]]
        /\ UNCHANGED filling
    BY <1>7 DEF CommitPrune, fill
  <2>2. g \notin stale
    BY <1>g, <1>t
  <2>. QED
    BY <2>1, <2>2, <1>g, <1>k
<1>8. CASE CreateGroup
  <2>1. /\ filling' = groups + 1
        /\ group' = [group EXCEPT ![groups + 1] = [job |-> running, screens |-> 0, old |-> FALSE, whole |-> TRUE]]
    BY <1>8 DEF CreateGroup
  <2>2. g # groups + 1
    <3>1. ~(g > groups)
      BY <1>g, <1>t
    <3>. QED
      BY <3>1, <1>t DEF GroupIds
  <2>3. group'[g] = group[g]
    BY <2>1, <2>2, <1>g, <1>t
  <2>. QED
    BY <2>1, <2>2, <2>3, <1>g, <1>k
<1>9. CASE RenderPart
  <2>1. UNCHANGED filling /\ (group' = group \/ group' = [group EXCEPT ![filling].screens = @ + 1])
    BY <1>9 DEF RenderPart
  <2>2. group'[g] = group[g]
    BY <2>1, <1>g, <1>t
  <2>. QED
    BY <2>1, <2>2, <1>g, <1>k
<1>10. CASE EndRun
  <2>1. filling' = Empty /\ (group' = group \/ group' = [group EXCEPT ![filling] = Gone])
    BY <1>10 DEF EndRun
  <2>2. group'[g] = group[g]
    BY <2>1, <1>g, <1>t
  <2>. QED
    BY <2>1, <2>2, <1>g, <1>k
<1>11. ASSUME NEW a \in GroupIds, Age(a) PROVE \E x \in Finished(j)' : Playable(x)'
  <2>1. group' = [group EXCEPT ![a].old = TRUE] /\ UNCHANGED filling
    BY <1>11 DEF Age, fill
  <2>2. CASE g # a
    <3>1. group'[g] = group[g]
      BY <2>1, <2>2, <1>g, <1>t
    <3>. QED
      BY <2>1, <3>1, <1>g, <1>k
  <2>3. CASE g = a
    <3>1. group'[g] = [group[g] EXCEPT !.old = TRUE] /\ group[g] \in GroupRows
      BY <2>1, <2>3, <1>g, <1>t
    <3>2. /\ group'[g].job = j /\ group'[g].screens = group[g].screens
          /\ group'[g].whole = group[g].whole
      BY <3>1, <1>g DEF GroupRows
    <3>3. group'[g] # Gone
      BY <3>2, <1>g
    <3>4. g \in Finished(j)'
      BY <2>1, <3>2, <3>3, <1>g DEF Finished, OfJob, Existing
    <3>5. Playable(g)'
      BY <3>2, <1>g DEF Playable
    <3>. QED
      BY <3>4, <3>5
  <2>. QED
    BY <2>2, <2>3
<1>. QED
  BY <1>1, <1>2, <1>3, <1>4, <1>5, <1>6, <1>7, <1>8, <1>9, <1>10, <1>11 DEF GroupsNext, RunJob

(* Once a run of a job has produced a group with a screen there is one for good, *)
(* and the group Display now takes has screens and their objects unless it is    *)
(* just being filled, however many jobs, groups and prunings: as long as no      *)
(* operator deletes groups and no run is cut short. *)
THEOREM DisplayNowKeepsWorking == GroupsSpec => DisplayNowWorks
<1>. DEFINE Keeps == cuts' = 0 /\ ~removed' =>
               \A j \in GroupJobs :
                 /\ (\E g \in Finished(j) : Playable(g)) => (\E g \in Finished(j) : Playable(g))'
                 /\ (\A g \in Taken(j) \ {filling} : Playable(g))'
<1>1. ASSUME GroupsInv, NewestWorks', GroupsNext PROVE Keeps
  <2>. SUFFICES ASSUME cuts' = 0, ~removed', NEW j \in GroupJobs
                PROVE  /\ (\E g \in Finished(j) : Playable(g)) => (\E g \in Finished(j) : Playable(g))'
                       /\ (\A g \in Taken(j) \ {filling} : Playable(g))'
    OBVIOUS
  <2>1. (\A g \in Taken(j) \ {filling} : Playable(g))'
    <3>1. (\A g \in NewestOf(Finished(j)) : Playable(g))'
      BY <1>1 DEF NewestWorks
    <3>2. (Taken(j) \ {filling} \subseteq NewestOf(Finished(j)))'
      BY DEF Taken, NewestOf, Finished
    <3>. QED
      BY <3>1, <3>2
  <2>2. ASSUME NEW g \in Finished(j), Playable(g) PROVE (\E h \in Finished(j) : Playable(h))'
    BY <1>1, <2>2, StaysPlayable
  <2>. QED
    BY <2>1, <2>2
<1>2. GroupsInv /\ NewestWorks' /\ GroupsNext => Keeps
  BY <1>1
<1>3. [GroupsInv /\ NewestWorks' /\ GroupsNext]_groupVars => [Keeps]_groupVars
  BY <1>2
<1>4. GroupsSpec => [][GroupsInv /\ NewestWorks' /\ GroupsNext]_groupVars
  BY GroupsInvHolds, InvNewestWorks, PTL DEF GroupsSpec
<1>. QED
  BY <1>3, <1>4, PTL DEF DisplayNowWorks

HIDE GroupsAssumption

-----------------------------------------------------------------------------
(* The four together. *)

(* A step of one part leaves the variables of the others alone: a behaviour of   *)
(* the four is one of each. *)
LEMMA PartsFollowTheirSpecs == Spec => AccessSpec /\ DriverSpec /\ TasksSpec /\ GroupsSpec
<1>1. Init => AccessInit /\ DriverInit /\ TasksInit /\ GroupsInit
  BY DEF Init
<1>2. [Next]_<<part, accessVars, panelVars, taskVars, groupVars>>
        => /\ [AccessNext]_accessVars /\ [DriverNext]_panelVars
           /\ [TasksNext]_taskVars /\ [GroupsNext]_groupVars
  BY DEF Next
<1>. QED
  BY <1>1, <1>2, PTL DEF Spec, AccessSpec, DriverSpec, TasksSpec, GroupsSpec

LEMMA TasksInvTypes == TasksInv => TasksTypeOK
  BY TasksAssumption DEF TasksInv, TypesOK, TasksTypeOK, Rows

(* Whichever part a behaviour follows, the variables of all four keep their      *)
(* types. *)
THEOREM TypeCorrect == Spec => []TypeOK
<1>1. TasksSpec => []TasksTypeOK
  BY TasksInitInv, TasksNextInv, TasksInvTypes, PTL DEF TasksSpec
<1>2. AccessTypeOK /\ DriverTypeOK /\ TasksTypeOK /\ GroupsTypeOK => TypeOK
  BY DEF TypeOK
<1>. QED
  BY <1>1, <1>2, PartsFollowTheirSpecs, AccessTypeCorrect, DriverTypeCorrect, GroupsTypeCorrect, PTL

(* In a behaviour of the four, each part keeps its promise: sessions are earned, *)
(* the list of tasks tells the truth, a panel's success is no lie, and Display   *)
(* now keeps working. *)
THEOREM PromisesKept ==
  Spec => []AccessIsEarned /\ []TasksTellTheTruth /\ AckedMeansShown /\ DisplayNowWorks
  BY PartsFollowTheirSpecs, SessionsAreEarned, TasksAreTrue, AcksAreTrue, DisplayNowKeepsWorking, PTL
=============================================================================
