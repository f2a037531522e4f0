------------------------------- MODULE SignIn -------------------------------
(***************************************************************************)
(* Signing in: links sent by mail, sign-in at a provider, the user made on  *)
(* first arrival, sessions, their roll and their end.                       *)
(*                                                                         *)
(* A request is a record of `job` and makes one call of a store per step;   *)
(* every call is a transaction of its own.  Users, sessions, links and the  *)
(* states of a provider's sign-in are named by random ids never used again. *)
(*                                                                         *)
(* Abstracted: cookies, digests and the browser binding (a wrong one is a   *)
(* refusal like any other), display names, the source address of the rate   *)
(* limit, and time, but for what has run out and what has not.              *)
(***************************************************************************)
EXTENDS Naturals, FiniteSets

CONSTANTS
    Mails, Users, Sessions, Tokens,
    Nobody,          \* fills the fields a request or a record has no use for
    Requests,
    Plays,           \* what behaviours start from and may spend
    LinkRate         \* LINK_RATE_PER_EMAIL

VARIABLES
    mail,            \* the address of each stored user
    token,           \* links and provider states sent out
    session,
    issued,          \* every random id handed out so far
    job,
    play, begun, crashes

people == <<mail, token, session, issued>>

Absent == [at |-> "absent"]

(* What a request knows. *)
Idle == [kind |-> "idle", at |-> "idle", next |-> "idle", user |-> Nobody, mail |-> Nobody,
         session |-> Nobody, token |-> Nobody, account |-> Nobody, target |-> Nobody,
         role |-> Nobody, invite |-> Nobody]

(* A random id: which one makes no difference. *)
Fresh(ids) == IF ids \subseteq issued THEN {} ELSE {CHOOSE x \in ids : x \notin issued}

Active(r) == job[r] # Idle
Known(u)  == mail[u] # Nobody
Sent(t)   == token[t] # Absent
Open(s)   == session[s] # Absent

Begins(r, new) ==
    /\ ~Active(r)
    /\ r <= play.overlap /\ new.kind \in play.kinds
    /\ begun < play.requests
    /\ begun' = begun + 1
    /\ job' = [job EXCEPT ![r] = new]
    /\ UNCHANGED <<play, crashes>>

Goes(r, new) == job' = [job EXCEPT ![r] = new] /\ UNCHANGED <<play, begun, crashes>>
Step(r, at)  == Goes(r, [job[r] EXCEPT !.at = at])
Ends(r)      == Goes(r, Idle)
-----------------------------------------------------------------------------
(* Links by mail.                                                           *)
NewToken(kind, m) == [kind |-> kind, mail |-> m, spent |-> FALSE, age |-> "live"]

(* request_login_link: links long run out are purged and those still in the *)
(* window counted, then the new one is saved and mailed.                    *)
Recent(m) == {t \in Tokens : Sent(t) /\ token[t].kind = "link" /\ token[t].mail = m /\ token[t].age # "old"}

(* The calls of the stores: old links are purged, a link is stored.         *)
OldLinks         == {t \in Tokens : Sent(t) /\ token[t].kind = "link" /\ token[t].age = "old"}
LinksPurged      == [t \in Tokens |-> IF t \in OldLinks THEN Absent ELSE token[t]]
LinkSaved(t, m)  == [token EXCEPT ![t] = NewToken("link", m)]

RequestLink(r) ==
    \E m \in Mails :
        /\ Cardinality(Recent(m)) < LinkRate
        /\ Begins(r, [Idle EXCEPT !.kind = "link", !.at = "send", !.mail = m])
        /\ token' = LinksPurged
        /\ UNCHANGED <<mail, session, issued>>

SendLink(r) ==
    \E t \in Fresh(Tokens) :
        /\ job[r].at = "send"
        /\ token' = LinkSaved(t, job[r].mail)
        /\ issued' = issued \cup {t}
        /\ Ends(r)
        /\ UNCHANGED <<mail, session>>

(* start_oauth: states that ran out are purged, a new one is saved. *)
DeadStates       == {t \in Tokens : Sent(t) /\ token[t].kind = "state" /\ token[t].age # "live"}
StatesPurged     == [t \in Tokens |-> IF t \in DeadStates THEN Absent ELSE token[t]]
StateSaved(t)    == [token EXCEPT ![t] = NewToken("state", Nobody)]
StateConsumed(t) == [token EXCEPT ![t] = Absent]

StartOauth(r) ==
    /\ Begins(r, [Idle EXCEPT !.kind = "oauth", !.at = "state"])
    /\ token' = StatesPurged
    /\ UNCHANGED <<mail, session, issued>>

SaveState(r) ==
    \E t \in Fresh(Tokens) :
        /\ job[r].at = "state"
        /\ token' = StateSaved(t)
        /\ issued' = issued \cup {t}
        /\ Ends(r)
        /\ UNCHANGED <<mail, session>>

(* redeem_login_link, _finish_oauth: the link is marked used, the state is  *)
(* deleted, both only while live and unused.  The provider then says whose  *)
(* address it is, or refuses.                                               *)
Redeemable(t) == Sent(t) /\ ~token[t].spent /\ token[t].age = "live"

Redeem(r) ==
    \E t \in Tokens :
        /\ Redeemable(t) /\ token[t].kind = "link"
        /\ Begins(r, [Idle EXCEPT !.kind = "redeem", !.at = "look", !.token = t, !.mail = token[t].mail])
        /\ token' = [token EXCEPT ![t].spent = TRUE]
        /\ UNCHANGED <<mail, session, issued>>

(* What a provider answers: whose address, whether the answer is one to     *)
(* this very sign-in (issuer, client, nonce and time), and whether the      *)
(* provider has verified that address.                                      *)
Claims           == [mail : Mails, ours : BOOLEAN, verified : BOOLEAN]
Identifies(c)    == c.ours /\ c.verified

Callback(r) ==
    \E t \in Tokens, c \in Claims :
        /\ Redeemable(t) /\ token[t].kind = "state"
        /\ IF Identifies(c)
           THEN Begins(r, [Idle EXCEPT !.kind = "redeem", !.at = "look", !.token = t, !.mail = c.mail])
           ELSE Begins(r, [Idle EXCEPT !.kind = "redeem", !.at = "done"])
        /\ token' = StateConsumed(t)
        /\ UNCHANGED <<mail, session, issued>>

(* The user of the address is looked up; there is none, and one is made; it *)
(* was made meanwhile (EmailTaken), and is looked up again.                 *)
Holder(m) == {u \in Users : mail[u] = m}

LookUpUser(r) ==
    LET m == job[r].mail
    IN  /\ job[r].at \in {"look", "again"}
        /\ \/ \E u \in Holder(m) :
                /\ Goes(r, [job[r] EXCEPT !.at = "session", !.user = u])
                /\ UNCHANGED issued
           \/ /\ Holder(m) = {} /\ job[r].at = "look"
              /\ \E u \in Fresh(Users) :
                    /\ Goes(r, [job[r] EXCEPT !.at = "save_user", !.user = u])
                    /\ issued' = issued \cup {u}
        /\ UNCHANGED <<mail, token, session>>

AfterRefusal     == "again"

SaveUser(r) ==
    LET m == job[r].mail
    IN  /\ job[r].at = "save_user"
        /\ IF Holder(m) = {}
           THEN mail' = [mail EXCEPT ![job[r].user] = m] /\ Step(r, "session")
           ELSE UNCHANGED mail /\ Step(r, AfterRefusal)
        /\ UNCHANGED <<token, session, issued>>

(* save_session of a new one.  `mail` is history: who signed in. *)
SaveSession(r) ==
    \E s \in Fresh(Sessions) :
        /\ job[r].at = "session"
        /\ session' = [session EXCEPT ![s] = [user |-> job[r].user, mail |-> job[r].mail,
                                              revoked |-> FALSE, age |-> "fresh"]]
        /\ issued' = issued \cup {s}
        /\ Ends(r)
        /\ UNCHANGED <<mail, token>>

(* sign_out: one UPDATE. *)
SignedOut(s) == [session EXCEPT ![s].revoked = TRUE]

SignOut(r) ==
    \E s \in Sessions :
        /\ Open(s) /\ ~session[s].revoked
        /\ Begins(r, [Idle EXCEPT !.kind = "sign_out", !.at = "done"])
        /\ session' = SignedOut(s)
        /\ UNCHANGED <<mail, token, issued>>

Done(r) == job[r].at = "done" /\ Ends(r) /\ UNCHANGED people
-----------------------------------------------------------------------------
(* session_principal, before every request of someone signed in: the        *)
(* session is read, and one that has little left is saved with a new end.   *)
Live(s) == Open(s) /\ ~session[s].revoked /\ session[s].age # "expired"

Enters(r, s, new) ==
    Begins(r, IF session[s].age = "low"
              THEN [new EXCEPT !.user = session[s].user, !.session = s, !.next = new.at, !.at = "roll"]
              ELSE [new EXCEPT !.user = session[s].user])

(* A request that changes nothing else. *)
Visit(r) ==
    \E s \in Sessions :
        /\ Live(s)
        /\ Enters(r, s, [Idle EXCEPT !.kind = "visit", !.at = "done"])
        /\ UNCHANGED people

RolledAsRead(s) == FALSE

(* The upsert keeps revoked_at when there is one. *)
RevokedAfterRoll(s) == session[s].revoked

RollSession(r) ==
    LET s == job[r].session
    IN  /\ job[r].at = "roll"
        /\ session' = [session EXCEPT ![s].age = "fresh", ![s].revoked = RevokedAfterRoll(s)]
        /\ Goes(r, [job[r] EXCEPT !.at = job[r].next, !.next = "idle", !.session = Nobody])
        /\ UNCHANGED <<mail, token, issued>>

(* Time: links run out and leave the window of the rate limit, states run   *)
(* out, sessions do when nobody comes; none while a request rolls it.       *)
TokenAges(t) ==
    /\ Sent(t) /\ token[t].age # "old" /\ "redeem" \in play.kinds
    /\ token' = [token EXCEPT ![t].age = IF @ = "live" THEN "late" ELSE "old"]
    /\ UNCHANGED <<mail, session, issued, job, play, begun, crashes>>

SessionAges(s) ==
    /\ Open(s) /\ session[s].age # "expired" /\ "visit" \in play.kinds
    /\ \A r \in Requests : job[r].session # s
    /\ session' = [session EXCEPT ![s].age = IF @ = "fresh" THEN "low" ELSE "expired"]
    /\ UNCHANGED <<mail, token, issued, job, play, begun, crashes>>
-----------------------------------------------------------------------------
SignsIn(r) ==
    \/ RequestLink(r) \/ SendLink(r) \/ StartOauth(r) \/ SaveState(r)
    \/ Redeem(r) \/ Callback(r) \/ LookUpUser(r) \/ SaveUser(r) \/ SaveSession(r)
    \/ SignOut(r) \/ Visit(r) \/ RollSession(r) \/ Done(r)

TimePasses == (\E t \in Tokens : TokenAges(t)) \/ (\E s \in Sessions : SessionAges(s))

(* Whoever signs in with an address gets the one stored user of it: two     *)
(* first sign-ins side by side do not make a household two strangers        *)
(* (auth.py redeem_login_link, EmailTaken).                                 *)
SessionsNameTheirUser ==
    /\ \A u, v \in Users : Known(u) /\ mail[u] = mail[v] => u = v
    /\ \A s \in Sessions : Open(s) => Known(session[s].user) /\ mail[session[s].user] = session[s].mail
=============================================================================
