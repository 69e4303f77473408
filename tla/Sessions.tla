------------------------------ MODULE Sessions ------------------------------
(***************************************************************************)
(* The sessions of one account: refresh-token families in the API, the     *)
(* NextAuth cookie of each browser, and the web server between them, which *)
(* exchanges a refresh token once and hands its successor to every request *)
(* that still carries the old cookie.  Requests and answers overtake each  *)
(* other, answers get lost, people sign out and change passwords, and the  *)
(* shop's managers suspend and remove the account meanwhile (Staff).       *)
(***************************************************************************)
EXTENDS Staff, Sequences

CONSTANTS Browsers,
          Me,           \* the person whose sessions these are
          Slots,        \* session reads in flight, 1..n
          Mixes,        \* budgets of a behaviour: logins, expiries, reset links, requests of Staff
          MaxLost,      \* answers of the API to the web server, or of that to a page, that are lost
          MaxTokens,    \* more than the budgets can issue
          MaxVersion    \* where tokenVersion stops counting: families end with it anyway

ASSUME SessionsAssumption ==
  /\ Me \in DOMAIN Staffers /\ MaxLost \in Nat /\ MaxVersion \in Nat
  /\ \A m \in Mixes : m.logins + m.expiries <= MaxTokens
  /\ Mixes \subseteq [logins : Nat, expiries : Nat, links : Nat, width : Slots, staffOps : Nat, kinds : SUBSET AllKinds]

VARIABLES tokens,     \* RefreshToken rows in order of creation
          stale,      \* tokens whose access token is within its leeway of expiry
          cookie,     \* the NextAuth cookie of each browser
          signing,    \* logins under way: the tokenVersion they read
          leaving,    \* browsers signing out
          calls,      \* reads of /api/auth/session
          handoff,    \* RefreshHandoff.entries, by the token they consumed
          exchange,   \* POST /auth/refresh by the token presented
          ended,      \* families somebody ended
          alarms,     \* families reported for reuse, with whether there was a cause
          unheard,    \* families an exchange of which got no answer, or was forgotten too early
          links,      \* PasswordResetToken rows: used or not
          resetting,  \* reset requests under way: the link they read
          changes,    \* passwords set through each link
          logins, expiries, mails, lost,
          width       \* session reads in flight at a time

db == <<tokens, ended, alarms, links, resetting, changes, mails>>
web == <<calls, handoff, exchange, unheard, lost, width>>
browser == <<stale, cookie, signing, leaving, logins, expiries>>
vars == <<staff, db, web, browser>>

NoCookie == [tok |-> 0]
NoCall == [st |-> "free"]
NoEntry == [st |-> "none"]
Version == people[Me].version
Usable == people[Me].active /\ ~people[Me].deleted
TokenIds == 1..Len(tokens)

Init ==
  /\ StaffInit
  /\ \E m \in Mixes :
       logins = m.logins /\ expiries = m.expiries /\ mails = m.links
       /\ width = m.width /\ staffOps = m.staffOps /\ kinds = m.kinds
  /\ tokens = <<>> /\ stale = {} /\ ended = {} /\ alarms = {} /\ unheard = {} /\ lost = 0
  /\ cookie = [b \in Browsers |-> NoCookie] /\ signing = [b \in Browsers |-> NoEntry] /\ leaving = {}
  /\ calls = [s \in Slots |-> NoCall] /\ handoff = <<>> /\ exchange = <<>>
  /\ links = <<>> /\ resetting = [c \in Clerks |-> 0] /\ changes = <<>>

-----------------------------------------------------------------------------
(* The API's session store.                                                *)

Live(f) == {t \in TokenIds : tokens[t].fam = f /\ tokens[t].state = "live"}

\* JwtStrategy.validate: account, tokenVersion and family (isSessionActive).
Valid(c) == Usable /\ c.ver = Version /\ Live(c.fam) # {}

\* Mutant: only the token in use is revoked, by what the request knew of it.
RevokedWhereKnown(fs, known) ==
  [t \in TokenIds |-> IF tokens[t].fam \in fs /\ t <= known THEN [tokens[t] EXCEPT !.state = IF @ = "live" THEN "revoked" ELSE @]
                      ELSE tokens[t]]

\* updateMany isRevoked = false.
RevokedWhere(fs, known) ==
  [t \in TokenIds |-> IF tokens[t].fam \in fs /\ tokens[t].state = "live"
                      THEN [tokens[t] EXCEPT !.state = "revoked"] ELSE tokens[t]]

Families == {tokens[t].fam : t \in TokenIds}

\* Mutant: every refresh opens a session of its own.
SuccessorAlone(t) == [fam |-> Len(tokens) + 1, state |-> "live"]

\* issueRefreshToken in the family of the token it replaces.
Successor(t) == [fam |-> tokens[t].fam, state |-> "live"]

\* A new row, with the entries the web server and the exchange keep by it.
Issue(rows, row, exchanges) ==
  /\ tokens' = Append(rows, row)
  /\ handoff' = Append(handoff, NoEntry)
  /\ exchange' = Append(exchanges, NoEntry)

\* validateUser: the password is right, the account usable.
Login(b) ==
  /\ cookie[b] = NoCookie /\ signing[b] = NoEntry /\ b \notin leaving /\ logins > 0 /\ Usable
  /\ logins' = logins - 1
  /\ signing' = [signing EXCEPT ![b] = [st |-> "checked", ver |-> Version]]
  /\ UNCHANGED <<staff, db, web, stale, cookie, leaving, expiries>>

\* login: a family of its own, an access token with the version read before.
OpenSession(b) ==
  LET t == Len(tokens) + 1
  IN /\ signing[b] # NoEntry
     /\ Issue(tokens, [fam |-> t, state |-> "live"], exchange)
     /\ cookie' = [cookie EXCEPT ![b] = [tok |-> t, fam |-> t, ver |-> signing[b].ver, error |-> FALSE]]
     /\ signing' = [signing EXCEPT ![b] = NoEntry]
     /\ UNCHANGED <<staff, ended, alarms, links, resetting, changes, mails, calls, unheard, lost, width, stale, leaving, logins, expiries>>

\* Who still carries the token a success answers for.
Carried(t) ==
  \/ \E b \in Browsers : cookie[b].tok = t
  \/ \E s \in Slots : /\ calls[s] # NoCall
                      /\ calls[s].was.tok = t \/ (calls[s].st = "done" /\ calls[s].out.tok = t)

\* Nobody carries the token or one before it: its successor is what is left of the session.
Gone(t) == \A u \in 1..t : tokens[u].fam = tokens[t].fam => ~Carried(u)

\* Time passes: the access token issued with t comes within its leeway of expiry.
Expire(t) ==
  /\ t \notin stale /\ expiries > 0
  /\ stale' = stale \cup {t} /\ expiries' = expiries - 1
  /\ UNCHANGED <<staff, db, web, cookie, signing, leaving, logins>>

\* Every session of the account ends: change, reset, reuse.
EndAll ==
  /\ tokens' = RevokedWhere(Families, Len(tokens))
  /\ people' = [people EXCEPT ![Me].version = IF @ < MaxVersion THEN @ + 1 ELSE @]

-----------------------------------------------------------------------------
(* The web server.                                                         *)

\* A page, a poll or a forced re-read after a 401 asks for the session.
Poll(s, b) ==
  /\ calls[s] = NoCall /\ s <= width /\ cookie[b] # NoCookie
  /\ calls' = [calls EXCEPT ![s] = [st |-> "sent", b |-> b, was |-> cookie[b]]]
  /\ UNCHANGED <<staff, db, handoff, exchange, unheard, lost, width, browser>>

Answered(call, out) == [st |-> "done", b |-> call.b, was |-> call.was, out |-> out]
Renewed(c, e) == [tok |-> e.tok, fam |-> c.fam, ver |-> e.ver, error |-> FALSE]

\* The jwt callback: still comfortably valid, or once() of its refresh token.  A named
\* bound: of one token the API has one exchange at a time, a second one waits for it.
JwtCallback(s) ==
  LET c == calls[s]
      t == c.was.tok
  IN /\ c.st = "sent"
     /\ \/ /\ t \notin stale
           /\ calls' = [calls EXCEPT ![s] = Answered(c, c.was)]
           /\ UNCHANGED <<handoff, exchange>>
        \/ /\ t \in stale /\ handoff[t].st = "done"
           /\ calls' = [calls EXCEPT ![s] = Answered(c, Renewed(c.was, handoff[t]))]
           /\ UNCHANGED <<handoff, exchange>>
        \/ /\ t \in stale /\ handoff[t].st = "running"
           /\ calls' = [calls EXCEPT ![s].st = "waiting"]
           /\ UNCHANGED <<handoff, exchange>>
        \/ /\ t \in stale /\ handoff[t] = NoEntry /\ exchange[t] = NoEntry
           /\ calls' = [calls EXCEPT ![s].st = "waiting"]
           /\ handoff' = [handoff EXCEPT ![t] = [st |-> "running"]]
           /\ exchange' = [exchange EXCEPT ![t] = [st |-> "sent"]]
     /\ UNCHANGED <<staff, db, unheard, lost, width, browser>>

\* AuthService.refresh: the row and the user as they are now.
ReadToken(t) ==
  /\ exchange[t].st = "sent"
  /\ exchange' = [exchange EXCEPT ![t] =
       IF tokens[t].state = "rotated" THEN [st |-> "reuse"]
       ELSE IF tokens[t].state = "revoked" \/ ~Usable THEN [st |-> "refused"]
       ELSE [st |-> "read", ver |-> Version]]
  /\ UNCHANGED <<staff, db, calls, handoff, unheard, lost, width, browser>>

\* The conditional update on isRevoked = false, rotatedAt = null.
Consumable(t) == tokens[t].state = "live"

\* One transaction: the token is consumed and its successor written, or somebody
\* was faster and it counts as reuse.
Rotate(t) ==
  LET new == Len(tokens) + 1
  IN /\ exchange[t].st = "read"
     /\ IF Consumable(t)
        THEN Issue([tokens EXCEPT ![t].state = "rotated"], Successor(t),
                   [exchange EXCEPT ![t] = [st |-> "ok", tok |-> new, ver |-> exchange[t].ver]])
        ELSE /\ exchange' = [exchange EXCEPT ![t] = [st |-> "reuse"]]
             /\ UNCHANGED <<tokens, handoff>>
     /\ UNCHANGED <<staff, ended, alarms, links, resetting, changes, mails, calls, unheard, lost, width, browser>>

\* onTokenReuse: every family is revoked and the version bumped.
ReportReuse(t) ==
  /\ exchange[t].st = "reuse"
  /\ EndAll
  /\ alarms' = alarms \cup {[fam |-> tokens[t].fam, cause |-> tokens[t].fam \in ended \cup unheard]}
  /\ ended' = ended \cup Families
  /\ exchange' = [exchange EXCEPT ![t] = [st |-> "refused"]]
  /\ UNCHANGED <<owner, cutOff, invites, desk, answer, staffOps, kinds, links, resetting, changes, mails, calls, handoff, unheard, lost, width, browser>>

\* Mutant: the exchange is shared only while it runs.
KeptWhileRunning(e) == NoEntry

\* Mutant: a failed exchange stays the token's entry.
KeptFailures(e) == IF e.st = "ok" THEN [st |-> "done", tok |-> e.tok, ver |-> e.ver] ELSE [st |-> "running"]

\* RefreshHandoff.once: a success answers for the grace window, a failure is dropped.
Kept(e) == IF e.st = "ok" THEN [st |-> "done", tok |-> e.tok, ver |-> e.ver] ELSE NoEntry

\* Everyone who waited for the exchange gets its outcome; an entry that was evicted
\* meanwhile stays forgotten.
Settle(t, e) ==
  /\ handoff' = [handoff EXCEPT ![t] = IF @ = NoEntry THEN NoEntry ELSE Kept(e)]
  /\ exchange' = [exchange EXCEPT ![t] = NoEntry]
  /\ calls' = [s \in Slots |->
       IF calls[s].st = "waiting" /\ calls[s].was.tok = t
       THEN Answered(calls[s], IF e.st = "ok" THEN Renewed(calls[s].was, e) ELSE [calls[s].was EXCEPT !.error = TRUE])
       ELSE calls[s]]

AnswerExchange(t) ==
  /\ exchange[t].st \in {"ok", "refused"}
  /\ Settle(t, exchange[t])
  /\ UNCHANGED <<staff, db, unheard, lost, width, browser>>

\* The answer never reaches the web server: to it the exchange failed.
LoseAnswer(t) ==
  /\ exchange[t].st = "ok" /\ lost < MaxLost /\ lost' = lost + 1
  /\ Settle(t, [st |-> "refused"])
  /\ unheard' = unheard \cup {tokens[t].fam}
  /\ UNCHANGED <<staff, db, width, browser>>

\* The grace window is over or the map is full, the oldest entry first: it goes by its age
\* alone, whoever still has the old cookie and even while its exchange runs.
Evict(t) ==
  /\ handoff[t] # NoEntry
  /\ \A u \in 1..(t - 1) : tokens[u].fam = tokens[t].fam => handoff[u].st # "done"
  /\ handoff' = [handoff EXCEPT ![t] = NoEntry]
  /\ unheard' = IF handoff[t].st = "running" \/ ~Gone(t) THEN unheard \cup {tokens[t].fam} ELSE unheard
  /\ UNCHANGED <<staff, db, calls, exchange, lost, width, browser>>

\* An answer sets the browser's cookie, whatever it holds by then, or finds no page.
Deliver(s) ==
  /\ calls[s].st = "done"
  /\ \/ cookie' = [cookie EXCEPT ![calls[s].b] = calls[s].out] /\ UNCHANGED lost
     \/ lost < MaxLost /\ lost' = lost + 1 /\ UNCHANGED cookie
  /\ calls' = [calls EXCEPT ![s] = NoCall]
  /\ UNCHANGED <<staff, db, handoff, exchange, unheard, width, stale, signing, leaving, logins, expiries>>

-----------------------------------------------------------------------------
(* The browser and its user.                                               *)

\* The response interceptor: a fresh token was refused twice, or none can be had.
SignOut(b) ==
  /\ cookie[b] # NoCookie /\ b \notin leaving
  /\ cookie[b].error \/ (cookie[b].tok \notin stale /\ ~Valid(cookie[b]))
  /\ cookie' = [cookie EXCEPT ![b] = NoCookie]
  /\ UNCHANGED <<staff, db, web, stale, signing, leaving, logins, expiries>>

\* POST /auth/logout, best effort, before the local sign-out.
Logout(b) ==
  /\ cookie[b] # NoCookie /\ b \notin leaving
  /\ leaving' = leaving \cup {b}
  /\ \/ /\ Valid(cookie[b])
        /\ tokens' = RevokedWhere({cookie[b].fam}, cookie[b].tok)
        /\ ended' = ended \cup {cookie[b].fam}
     \/ UNCHANGED <<tokens, ended>>
  /\ UNCHANGED <<staff, alarms, links, resetting, changes, mails, web, stale, cookie, signing, logins, expiries>>

DropCookie(b) ==
  /\ b \in leaving /\ leaving' = leaving \ {b}
  /\ cookie' = [cookie EXCEPT ![b] = NoCookie]
  /\ UNCHANGED <<staff, db, web, stale, signing, logins, expiries>>

\* The sessions page ends another family of the account.
RevokeSession(b, f) ==
  /\ cookie[b] # NoCookie /\ Valid(cookie[b]) /\ Live(f) # {}
  /\ tokens' = RevokedWhere({f}, Len(tokens))
  /\ ended' = ended \cup {f}
  /\ UNCHANGED <<staff, alarms, links, resetting, changes, mails, web, browser>>

\* change-password; the settings page signs this browser out after it.
ChangePassword(b) ==
  /\ cookie[b] # NoCookie /\ b \notin leaving /\ Valid(cookie[b]) /\ staffOps > 0
  /\ EndAll /\ ended' = ended \cup Families
  /\ staffOps' = staffOps - 1
  /\ leaving' = leaving \cup {b}
  /\ UNCHANGED <<owner, cutOff, invites, desk, answer, kinds, alarms, links, resetting, changes, mails, web, stale, cookie, signing, logins, expiries>>

\* A new reset link voids the earlier unused ones.
RequestReset ==
  /\ Usable /\ mails > 0 /\ mails' = mails - 1
  /\ links' = Append([l \in DOMAIN links |-> "used"], "unused")
  /\ changes' = Append(changes, 0)
  /\ UNCHANGED <<staff, tokens, ended, alarms, resetting, web, browser>>

ReadLink(c) ==
  /\ resetting[c] = 0 /\ Usable
  /\ \E l \in DOMAIN links : links[l] = "unused" /\ resetting' = [resetting EXCEPT ![c] = l]
  /\ UNCHANGED <<staff, tokens, ended, alarms, links, changes, mails, web, browser>>

\* Mutant: the link's use is not claimed in the transaction.
ClaimableAsRead(l) == TRUE

\* Single use: the conditional update loses the race to a concurrent reset.
Claimable(l) == links[l] = "unused"

ResetPassword(c) ==
  LET l == resetting[c]
  IN /\ l # 0
     /\ resetting' = [resetting EXCEPT ![c] = 0]
     /\ IF Claimable(l)
        THEN /\ EndAll /\ ended' = ended \cup Families
             /\ links' = [links EXCEPT ![l] = "used"] /\ changes' = [changes EXCEPT ![l] = @ + 1]
        ELSE UNCHANGED <<people, tokens, ended, links, changes>>
     /\ UNCHANGED <<owner, cutOff, invites, desk, answer, staffOps, kinds, alarms, mails, web, browser>>

-----------------------------------------------------------------------------

Refresh(t) ==
  t \in TokenIds /\ (ReadToken(t) \/ Rotate(t) \/ ReportReuse(t) \/ AnswerExchange(t))

Server ==
  \/ \E s \in Slots : JwtCallback(s) \/ Deliver(s)
  \/ \E t \in TokenIds : Refresh(t)

User ==
  \/ \E b \in Browsers : Login(b) \/ OpenSession(b) \/ Logout(b) \/ DropCookie(b) \/ ChangePassword(b)
  \/ \E b \in Browsers, f \in Families : RevokeSession(b, f)
  \/ RequestReset \/ \E c \in Clerks : ReadLink(c) \/ ResetPassword(c)

Next ==
  \/ Server \/ User
  \/ \E b \in Browsers, s \in Slots : Poll(s, b)
  \/ \E b \in Browsers : SignOut(b)
  \/ \E t \in TokenIds : Expire(t) \/ LoseAnswer(t) \/ Evict(t)
  \/ StaffStep /\ UNCHANGED <<db, web, browser>>

Spec == Init /\ [][Next]_vars

\* Requests are served, pages poll and act on what they are answered.  A read of the
\* session waits for no other browser: that the slots are few is the model's bound.
FairSpec ==
  /\ Spec
  /\ \A b \in Browsers : SF_vars(\E s \in Slots : Poll(s, b)) /\ WF_vars(SignOut(b)) /\ WF_vars(DropCookie(b))
  /\ \A s \in Slots : WF_vars(JwtCallback(s)) /\ WF_vars(Deliver(s))
  /\ \A t \in 1..MaxTokens : WF_vars(Refresh(t))

-----------------------------------------------------------------------------
(* Properties.                                                             *)

TypeOK ==
  /\ tokens \in Seq([fam : TokenIds, state : {"live", "rotated", "revoked"}])
  /\ Len(handoff) = Len(tokens) /\ Len(exchange) = Len(tokens) /\ stale \subseteq TokenIds
  /\ \A b \in Browsers : cookie[b] # NoCookie => cookie[b].tok \in TokenIds /\ tokens[cookie[b].tok].fam = cookie[b].fam
  /\ \A t \in TokenIds : exchange[t] # NoEntry => handoff[t].st # "done"

\* A session that was signed out, revoked or ended by a password change never has a
\* working token again, exchanges under way at that moment included.
EndedStaysEnded == \A f \in ended : Live(f) = {}

\* Signing everyone out has one of three causes: somebody ended the family before, the
\* answer of an exchange in it was lost, or the web server forgot an exchange of it while
\* the exchange ran or a cookie or request with the old token was still about.  Within the
\* grace window no order of a browser's requests and answers does it.
NoFalseAlarm == \A a \in alarms : a.cause

\* A reset link sets one password.
ResetOnce == \A l \in DOMAIN changes : changes[l] <= 1

\* A browser whose access token ran out gets a new one or is signed out: no session
\* read waits for an exchange that is over.
StaleRecovers ==
  \A b \in Browsers :
    (cookie[b] # NoCookie /\ cookie[b].tok \in stale) ~> (cookie[b] = NoCookie \/ cookie[b].tok \notin stale)

\* The refresh tokens together: what was ended stays ended, what is honest is not
\* taken for theft, and a reset link works once.
SessionsSound == TypeOK /\ EndedStaysEnded /\ NoFalseAlarm /\ ResetOnce
==============================================================================
