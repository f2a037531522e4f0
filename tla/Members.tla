------------------------------ MODULE Members -------------------------------
(***************************************************************************)
(* Accounts, their libraries, their members and the invites that add some.  *)
(*                                                                         *)
(* Every request of SignIn's people that changes an account: the first      *)
(* library founds one, an admin adds libraries, changes roles, removes      *)
(* members, mints and revokes invites; anyone signed in may accept one.     *)
(* Which account is meant is said by a library of it or, having only one,   *)
(* by silence; a role that may not act is refused.  Viewers and editors are *)
(* one role here; names of libraries are left out.                          *)
(***************************************************************************)
EXTENDS SignIn

CONSTANTS
    Accounts, Invites, Libraries,
    LibraryCap       \* LIBRARIES_PER_ACCOUNT

VARIABLES
    role,            \* a user's role in an account, or Nobody
    owner,           \* the account of each library, or Nobody
    accounts,
    invite,
    founder,         \* history: who an account was minted for
    barred,          \* history: invites done with when their user was removed
    overwritten      \* history: accounts where a grant replaced a membership

tenancy == <<role, owner, accounts, invite, founder, barred, overwritten>>
vars == <<people, tenancy, job, play, begun, crashes>>

Roles == {"admin", "editor"}

Member(u, a)  == role[u][a] # Nobody
Admins(a)     == {u \in Users : role[u][a] = "admin"}
AccountsOf(u) == {a \in Accounts : Member(u, a)}
Minted(i)     == invite[i] # Absent

(* The rows of the stores, and libraries a behaviour may start from: what   *)
(* the requests below could have left.                                      *)
TokenRows   == [kind : {"link"}, mail : Mails, spent : BOOLEAN, age : {"live", "late", "old"}]
               \cup [kind : {"state"}, mail : {Nobody}, spent : BOOLEAN, age : {"live", "late", "old"}]
SessionRows == [user : Users, mail : Mails, revoked : BOOLEAN, age : {"fresh", "low", "expired"}]
InviteRows  == [account : Accounts, role : Roles, user : Users \cup {Nobody}, granted : BOOLEAN,
                given : BOOLEAN, late : BOOLEAN, closed : BOOLEAN]

SoundStart(p) ==
    /\ p.mail \in [Users -> Mails \cup {Nobody}]
    /\ p.token \in [Tokens -> TokenRows \cup {Absent}]
    /\ p.session \in [Sessions -> SessionRows \cup {Absent}]
    /\ p.role \in [Users -> [Accounts -> Roles \cup {Nobody}]]
    /\ p.owner \in [Libraries -> Accounts \cup {Nobody}]
    /\ p.invite \in [Invites -> InviteRows \cup {Absent}]
    /\ p.founder \in [Accounts -> Users \cup {Nobody}]
    /\ \A u, v \in Users : p.mail[u] # Nobody /\ p.mail[u] = p.mail[v] => u = v
    /\ \A s \in Sessions : p.session[s] # Absent => p.mail[p.session[s].user] = p.session[s].mail
    /\ \A i \in Invites : p.invite[i] # Absent =>
          /\ \E l \in Libraries : p.owner[l] = p.invite[i].account
          /\ p.invite[i].granted => p.invite[i].given
    /\ \A a \in Accounts :
          IF \E l \in Libraries : p.owner[l] = a
          THEN /\ \E u \in Users : p.role[u][a] = "admin"
               /\ p.founder[a] # Nobody => p.role[p.founder[a]][a] # Nobody
          ELSE \A u \in Users : p.role[u][a] = Nobody
    /\ \A a, b \in Accounts : p.founder[a] = p.founder[b] /\ p.founder[a] # Nobody => a = b

ASSUME MembersAssumption ==
    /\ Nobody \notin Mails \cup Users \cup Accounts \cup Sessions \cup Invites \cup Roles
    /\ \A p \in Plays : SoundStart(p)

(* The requests of SignIn's people, each begun with a live session. *)
Asks(r, new) == \E s \in Sessions : Live(s) /\ Enters(r, s, new)
-----------------------------------------------------------------------------
(* create_library.  Someone of no account gets one, minted with its first   *)
(* membership and library in one transaction that looks again whether there *)
(* is a membership by now; an admin adds a library below the cap.           *)
BeginLibrary(r) ==
    /\ Asks(r, [Idle EXCEPT !.kind = "library", !.at = "resolve"])
    /\ UNCHANGED <<people, tenancy>>

CountIfAdmin(r, a) ==
    IF role[job[r].user][a] = "admin" THEN Goes(r, [job[r] EXCEPT !.at = "count", !.account = a])
    ELSE Ends(r)

Resolve(r) ==
    LET mine == AccountsOf(job[r].user)
    IN  /\ job[r].at = "resolve"
        /\ IF mine = {} THEN Step(r, "mint") ELSE \E a \in mine : CountIfAdmin(r, a)
        /\ UNCHANGED <<people, tenancy>>

HeldByNow(u) == AccountsOf(u)

(* An account is made with its admin, a library in an account.              *)
Founded(u, a)      == [role EXCEPT ![u][a] = "admin"]
LibraryAdded(l, a) == [owner EXCEPT ![l] = a]

MintFirstAccount(r) ==
    LET u == job[r].user
    IN  /\ job[r].at = "mint"
        /\ IF HeldByNow(u) # {}
           THEN /\ \E a \in HeldByNow(u) : CountIfAdmin(r, a)
                /\ UNCHANGED <<role, owner, accounts, founder, issued>>
           ELSE \E a \in Fresh(Accounts), l \in Fresh(Libraries) :
                /\ accounts' = accounts \cup {a}
                /\ role' = Founded(u, a)
                /\ owner' = LibraryAdded(l, a)
                /\ founder' = [founder EXCEPT ![a] = u]
                /\ issued' = issued \cup {a, l}
                /\ Ends(r)
        /\ UNCHANGED <<mail, token, session, invite, barred, overwritten>>

Held(a) == {l \in Libraries : owner[l] = a}

CountLibraries(r) ==
    /\ job[r].at = "count"
    /\ IF Cardinality(Held(job[r].account)) < LibraryCap THEN Step(r, "save_library") ELSE Ends(r)
    /\ UNCHANGED <<people, tenancy>>

SaveLibrary(r) ==
    \E l \in Fresh(Libraries) :
        /\ job[r].at = "save_library"
        /\ owner' = LibraryAdded(l, job[r].account)
        /\ issued' = issued \cup {l}
        /\ Ends(r)
        /\ UNCHANGED <<mail, token, session, role, accounts, invite, founder, barred, overwritten>>
-----------------------------------------------------------------------------
(* The admin's requests: who asks is looked up, and then only the one call  *)
(* that changes something.                                                  *)
BeginManage(r) ==
    /\ \E a \in accounts, new \in [kind : {"role", "remove"}, target : Users, role : Roles]
                                    \cup [kind : {"invite"}, target : {Nobody}, role : Roles] :
          Asks(r, [Idle EXCEPT !.kind = new.kind, !.at = "admin", !.account = a,
                               !.target = new.target, !.role = new.role])
    /\ UNCHANGED <<people, tenancy>>

BeginRevoke(r) ==
    /\ \E a \in accounts, i \in Invites :
          Asks(r, [Idle EXCEPT !.kind = "revoke", !.at = "admin", !.account = a, !.invite = i])
    /\ UNCHANGED <<people, tenancy>>

AdminAccount(r) ==
    /\ job[r].at = "admin"
    /\ IF role[job[r].user][job[r].account] = "admin" THEN Step(r, job[r].kind) ELSE Ends(r)
    /\ UNCHANGED <<people, tenancy>>

(* set_role and remove_member under _rewrite_members: the rule and the rows *)
(* it is asked of are in one transaction.                                   *)
LastMember(u, a) == {v \in Users : Member(v, a)} = {u}
LastAdmin(u, a)  == Admins(a) = {u}

ChangeMemberRole(r) ==
    LET u == job[r].target
        a == job[r].account
    IN  /\ job[r].at = "role"
        /\ role' = IF ~Member(u, a) \/ (job[r].role # "admin" /\ LastAdmin(u, a)) THEN role
                   ELSE [role EXCEPT ![u][a] = job[r].role]
        /\ Ends(r)
        /\ UNCHANGED <<people, owner, accounts, invite, founder, barred, overwritten>>

DoneWith(u, a) ==
    {i \in Invites : /\ Minted(i) /\ invite[i].account = a /\ invite[i].user = u /\ invite[i].granted
                     /\ \A q \in Requests : job[q].invite = i => job[q].at \notin {"look_member", "grant"}}

RemoveMember(r) ==
    LET u == job[r].target
        a == job[r].account
    IN  /\ job[r].at = "remove"
        /\ IF ~Member(u, a) \/ LastAdmin(u, a) THEN UNCHANGED <<role, barred, founder>>
           ELSE /\ role' = [role EXCEPT ![u][a] = Nobody]
                /\ barred' = barred \cup DoneWith(u, a)
                /\ founder' = [founder EXCEPT ![a] = IF @ = u THEN Nobody ELSE @]
        /\ Ends(r)
        /\ UNCHANGED <<people, owner, accounts, invite, overwritten>>

(* create_invite: the expired are purged, then the new one is saved.  An    *)
(* invite counts as open however its maker fares.                           *)
PurgeInvites(r) ==
    /\ job[r].at = "invite"
    /\ invite' = [i \in Invites |-> IF Minted(i) /\ invite[i].late THEN Absent ELSE invite[i]]
    /\ Step(r, "save_invite")
    /\ UNCHANGED <<people, role, owner, accounts, founder, barred, overwritten>>

FreshInvite(a, as)      == [account |-> a, role |-> as, user |-> Nobody, granted |-> FALSE,
                          given |-> FALSE, late |-> FALSE, closed |-> FALSE]
InviteSaved(i, a, as) == [invite EXCEPT ![i] = FreshInvite(a, as)]

SaveInvite(r) ==
    \E i \in Fresh(Invites) :
        /\ job[r].at = "save_invite"
        /\ invite' = InviteSaved(i, job[r].account, job[r].role)
        /\ issued' = issued \cup {i}
        /\ Ends(r)
        /\ UNCHANGED <<mail, token, session, role, owner, accounts, founder, barred, overwritten>>

RevokeInvite(r) ==
    LET i == job[r].invite
    IN  /\ job[r].at = "revoke"
        /\ invite' = IF Minted(i) /\ invite[i].account = job[r].account /\ invite[i].user = Nobody
                     THEN [invite EXCEPT ![i] = Absent] ELSE invite
        /\ Ends(r)
        /\ UNCHANGED <<people, role, owner, accounts, founder, barred, overwritten>>
-----------------------------------------------------------------------------
(* accept_invite: consume it, or find it half finished by oneself; look for *)
(* a membership and save one if there is none; mark the invite granted.     *)
BeginAccept(r) ==
    /\ \E i \in Invites :
          Asks(r, [Idle EXCEPT !.kind = "accept", !.at = "consume", !.invite = i])
    /\ UNCHANGED <<people, tenancy>>

Admitted(r) ==
    LET i == job[r].invite
    IN  Goes(r, [job[r] EXCEPT !.at = "look_member", !.account = invite[i].account, !.role = invite[i].role])

ConsumedForGood(i, u) == [invite[i] EXCEPT !.user = u, !.granted = TRUE]
Consumed(i, u) == [invite[i] EXCEPT !.user = u]

ConsumeInvite(r) ==
    LET i == job[r].invite
    IN  /\ job[r].at = "consume"
        /\ IF Minted(i) /\ invite[i].user = Nobody /\ ~invite[i].late
           THEN invite' = [invite EXCEPT ![i] = Consumed(i, job[r].user)] /\ Admitted(r)
           ELSE UNCHANGED invite /\ Step(r, "finish")
        /\ UNCHANGED <<people, role, owner, accounts, founder, barred, overwritten>>

MayFinishAgain(i, u) == Minted(i) /\ invite[i].user = u /\ ~invite[i].closed
MayFinish(i, u) == Minted(i) /\ invite[i].user = u /\ ~invite[i].granted /\ ~invite[i].closed

FinishInvite(r) ==
    /\ job[r].at = "finish"
    /\ IF MayFinish(job[r].invite, job[r].user) THEN Admitted(r) ELSE Ends(r)
    /\ UNCHANGED <<people, tenancy>>

(* `given` is history: the invite has brought its user in. *)
Given(i) == IF Minted(i) THEN [invite EXCEPT ![i].given = TRUE] ELSE invite

LookForMembership(r) ==
    LET i == job[r].invite
    IN  /\ job[r].at = "look_member"
        /\ IF Member(job[r].user, job[r].account)
           THEN invite' = Given(i) /\ Step(r, "mark")
           ELSE UNCHANGED invite /\ Step(r, "grant")
        /\ UNCHANGED <<people, role, owner, accounts, founder, barred, overwritten>>

(* save_membership replaces what is there. *)
SaveMembership(r) ==
    LET i == job[r].invite
        u == job[r].user
        a == job[r].account
    IN  /\ job[r].at = "grant"
        /\ role' = [role EXCEPT ![u][a] = job[r].role]
        /\ overwritten' = IF Member(u, a) THEN overwritten \cup {a} ELSE overwritten
        /\ invite' = Given(i)
        /\ Step(r, "mark")
        /\ UNCHANGED <<people, owner, accounts, founder, barred>>

MarkGranted(r) ==
    LET i == job[r].invite
    IN  /\ job[r].at = "mark"
        /\ invite' = IF Minted(i) THEN [invite EXCEPT ![i].granted = TRUE] ELSE invite
        /\ Ends(r)
        /\ UNCHANGED <<people, role, owner, accounts, founder, barred, overwritten>>

(* Time: an invite runs out, and so does the window to finish it; neither   *)
(* while a request is about it.                                             *)
InviteAges(i) ==
    /\ Minted(i) /\ \A r \in Requests : job[r].invite # i
    /\ "accept" \in play.kinds
    /\ \/ ~invite[i].late /\ invite' = [invite EXCEPT ![i].late = TRUE]
       \/ /\ invite[i].user # Nobody /\ ~invite[i].closed
          /\ invite' = [invite EXCEPT ![i].closed = TRUE]
    /\ UNCHANGED <<people, role, owner, accounts, founder, barred, overwritten, job, play, begun, crashes>>
-----------------------------------------------------------------------------
(* The server dies with all its requests. *)
Crash ==
    /\ crashes < play.crashes
    /\ \E r \in Requests : Active(r)
    /\ crashes' = crashes + 1
    /\ job' = [r \in Requests |-> Idle]
    /\ UNCHANGED <<people, tenancy, play, begun>>

Init ==
    /\ play \in Plays
    /\ mail = play.mail /\ token = play.token /\ session = play.session
    /\ role = play.role /\ owner = play.owner /\ invite = play.invite
    /\ accounts = {a \in Accounts : \E l \in Libraries : owner[l] = a}
    /\ founder = play.founder
    /\ issued = accounts \cup {u \in Users : Known(u)} \cup {t \in Tokens : Sent(t)}
                 \cup {s \in Sessions : Open(s)} \cup {l \in Libraries : owner[l] # Nobody}
                 \cup {i \in Invites : Minted(i)}
    /\ barred = {} /\ overwritten = {}
    /\ job = [r \in Requests |-> Idle]
    /\ begun = 0 /\ crashes = 0

Next ==
    \/ \E r \in Requests :
        \/ SignsIn(r) /\ UNCHANGED tenancy
        \/ BeginLibrary(r) \/ Resolve(r) \/ MintFirstAccount(r) \/ CountLibraries(r) \/ SaveLibrary(r)
        \/ BeginManage(r) \/ BeginRevoke(r) \/ AdminAccount(r)
        \/ ChangeMemberRole(r) \/ RemoveMember(r)
        \/ PurgeInvites(r) \/ SaveInvite(r) \/ RevokeInvite(r)
        \/ BeginAccept(r) \/ ConsumeInvite(r) \/ FinishInvite(r)
        \/ LookForMembership(r) \/ SaveMembership(r) \/ MarkGranted(r)
    \/ TimePasses /\ UNCHANGED tenancy
    \/ \E i \in Invites : InviteAges(i)
    \/ Crash

Spec == Init /\ [][Next]_vars
-----------------------------------------------------------------------------
(* "An account keeps at least one admin" (tenancy.py _refuse_if_last_admin) *)
(* and the library it was minted with, unless a grant overwrote a           *)
(* membership of it.                                                        *)
EveryAccountKeepsAnAdmin ==
    \A a \in accounts \ overwritten : Admins(a) # {} /\ Held(a) # {}

(* "Which is what keeps an admin's delete_member from being undoable by     *)
(* replaying an old link" (members.py accept_invite): an invite that was    *)
(* granted, with no acceptance under way, when its user was removed does    *)
(* not get as far as a grant again.                                         *)
RemovalIsFinal ==
    \A r \in Requests : job[r].at \in {"look_member", "grant"} => job[r].invite \notin barred

(* "A crash between them burned the link with nothing granted" (members.py  *)
(* accept_invite): an invite consumed whose user it never brought in can be *)
(* finished by that user while the window lasts, whatever crashed.          *)
HalfAnAcceptanceCanBeFinished ==
    \A i \in Invites :
        Minted(i) /\ invite[i].user # Nobody /\ ~invite[i].given /\ ~invite[i].closed
        => MayFinish(i, invite[i].user)

(* Nobody has two accounts they founded: two first libraries created side   *)
(* by side, or an invite accepted meanwhile, end in one (sqlite_store.py    *)
(* mint_first_account).  Who was removed from theirs may found another.     *)
OneOwnAccount ==
    \A a, b \in accounts : founder[a] = founder[b] /\ founder[a] # Nobody => a = b

(* A session that was signed out stays so, though a request of it that is   *)
(* under way saves it with a new end (sqlite_store.py save_session).        *)
SignedOutStaysOut ==
    [][\A s \in Sessions : Open(s) /\ session[s].revoked => session'[s].revoked]_vars

TypeOK ==
    /\ mail \in [Users -> Mails \cup {Nobody}]
    /\ role \in [Users -> [Accounts -> Roles \cup {Nobody}]]
    /\ owner \in [Libraries -> Accounts \cup {Nobody}]
    /\ accounts \subseteq Accounts
    /\ \A a \in Accounts : a \notin accounts => Held(a) = {} /\ \A u \in Users : ~Member(u, a)
    /\ \A i \in Invites : Minted(i) => invite[i].account \in accounts /\ (invite[i].granted => invite[i].given)

(* The accounts are sound between any two calls of two requests: rows have  *)
(* their shapes, a session is its user's, a person founds one account, and  *)
(* each account has an admin.                                               *)
AccountsAreSound ==
    /\ TypeOK
    /\ SessionsNameTheirUser
    /\ OneOwnAccount
    /\ EveryAccountKeepsAnAdmin
=============================================================================
