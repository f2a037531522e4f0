--------------------------- MODULE Members_proofs ---------------------------
(***************************************************************************)
(* That accounts and sessions are sound, that a removal is final, that half *)
(* an acceptance can be finished and that who signed out stays out: for any *)
(* number of people, accounts and requests, starting from any sound library.*)
(*                                                                         *)
(* The inductive invariant says of each request what it has learnt and may  *)
(* rely on, and of the rows that what is stored was issued, so an id drawn   *)
(* afresh disturbs none of them.                                           *)
(***************************************************************************)
EXTENDS Members, TLAPS

(* The names of the kinds of requests and of their steps.                   *)
Words ==
    {"idle", "done", "roll", "link", "send", "oauth", "state", "look", "again", "save_user", "session",
     "sign_out", "visit", "library", "resolve", "mint", "count", "save_library", "admin", "role", "remove",
     "invite", "save_invite", "revoke", "accept", "consume", "finish", "look_member", "grant", "mark",
     "redeem"}

JobRows ==
    [kind : Words, at : Words, next : Words, user : Users \cup {Nobody}, mail : Mails \cup {Nobody},
     session : Sessions \cup {Nobody}, token : Tokens \cup {Nobody}, account : Accounts \cup {Nobody},
     target : Users \cup {Nobody}, role : Roles \cup {Nobody}, invite : Invites \cup {Nobody}]

Rows ==
    /\ mail \in [Users -> Mails \cup {Nobody}]
    /\ token \in [Tokens -> TokenRows \cup {Absent}]
    /\ session \in [Sessions -> SessionRows \cup {Absent}]
    /\ role \in [Users -> [Accounts -> Roles \cup {Nobody}]]
    /\ owner \in [Libraries -> Accounts \cup {Nobody}]
    /\ accounts \subseteq Accounts
    /\ invite \in [Invites -> InviteRows \cup {Absent}]
    /\ founder \in [Accounts -> Users \cup {Nobody}]
    /\ job \in [Requests -> JobRows]

(* Whatever is stored was issued, so no id drawn afresh is in use.          *)
IssuedInv ==
    /\ \A u \in Users : Known(u) => u \in issued
    /\ \A s \in Sessions : Open(s) => s \in issued
    /\ \A l \in Libraries : owner[l] # Nobody => l \in issued
    /\ \A i \in Invites : Minted(i) => i \in issued
    /\ accounts \subseteq issued

(* What a request j relies on when the step it does next is w; at "admin"   *)
(* and "roll" it relies on what the steps after those will.                 *)
Signing   == {"send", "look", "again", "save_user", "session"}
Managing  == {"role", "remove", "invite", "save_invite", "revoke"}
Accepting == {"look_member", "grant", "mark"}
Filling   == {"resolve", "mint", "count", "save_library"}
Managed   == {"role", "remove", "invite", "revoke"}
Resumed   == {"done", "resolve", "admin", "consume"}

Needs(j, w) ==
    /\ w \in Signing => j.mail \in Mails
    /\ w = "session" => j.user \in Users /\ mail[j.user] = j.mail
    /\ w \in Managing \cup Accepting \cup Filling \cup {"consume", "finish"} => j.user \in Users
    /\ w \in Managing \cup Accepting \cup {"count", "save_library"} => j.account \in accounts
    /\ w \in {"role", "remove"} => j.target \in Users
    /\ w \in {"role", "invite", "save_invite", "look_member", "grant"} => j.role \in Roles
    /\ w \in {"revoke", "consume", "finish"} \cup Accepting => j.invite \in Invites
    /\ w \in Accepting => j.invite \in issued
    /\ w = "mark" /\ Minted(j.invite) => invite[j.invite].given

Ready(j, w) ==
    IF w = "admin" THEN j.kind \in Managed /\ Needs(j, j.kind) ELSE Needs(j, w)

JobReady(j) ==
    IF j.at = "roll" THEN /\ j.session \in Sessions /\ Open(j.session)
                          /\ j.next \in Resumed /\ Ready(j, j.next)
    ELSE Ready(j, j.at)

JobsInv == \A r \in Requests : JobReady(job[r])

(* A user about to be saved is nobody yet, and no other request's.          *)
NewUsersInv ==
    \A r \in Requests : job[r].at = "save_user" =>
        /\ job[r].user \in Users /\ job[r].user \in issued /\ ~Known(job[r].user)
        /\ \A q \in Requests : job[q].at = "save_user" /\ job[q].user = job[r].user => q = r

AccountsInv ==
    /\ \A a \in Accounts : a \notin accounts => Held(a) = {} /\ \A u \in Users : ~Member(u, a)
    /\ OneOwnAccount
    /\ \A a \in accounts : founder[a] # Nobody => Member(founder[a], a)
    /\ EveryAccountKeepsAnAdmin

(* An invite barred from bringing anyone in is granted, or gone for good.   *)
InvitesInv ==
    /\ \A i \in Invites : Minted(i) => invite[i].account \in accounts /\ (invite[i].granted => invite[i].given)
    /\ \A i \in Invites : i \in barred => i \in issued
    /\ \A i \in Invites : i \in barred /\ Minted(i) => invite[i].granted /\ invite[i].user # Nobody

IInv ==
    /\ Rows
    /\ IssuedInv
    /\ JobsInv
    /\ NewUsersInv
    /\ SessionsNameTheirUser
    /\ AccountsInv
    /\ InvitesInv
    /\ RemovalIsFinal
-----------------------------------------------------------------------------
(* What a step may do to the rows without disturbing any waiting request.   *)
Later ==
    /\ accounts \subseteq accounts'
    /\ issued \subseteq issued'
    /\ \A u \in Users : Known(u) => mail'[u] = mail[u]
    /\ \A s \in Sessions : Open(s) => Open(s)'
    /\ \A i \in Invites : i \in issued /\ (Minted(i) => invite[i].given) => (Minted(i)' => invite'[i].given)

(* The job of request r is replaced, the others are not.                    *)
OnlyJob(r) == job' = [job EXCEPT ![r] = job'[r]]

(* Nothing a request needs is taken from it while rows only get later.      *)
LEMMA NeedsLast ==
    ASSUME MembersAssumption, Later, NEW j \in JobRows, NEW w, Needs(j, w)
    PROVE  Needs(j, w)'
<1>1. j.user \in Users /\ mail[j.user] = j.mail /\ j.mail \in Mails => mail'[j.user] = j.mail
    BY DEF Later, Known, MembersAssumption
<1>2. w \in Accepting => j.invite \in Invites /\ j.invite \in issued
    BY DEF Needs
<1>3. w = "mark" => (Minted(j.invite)' => invite'[j.invite].given)
    BY <1>2 DEF Later, Needs, Accepting
<1> QED
    BY <1>1, <1>2, <1>3 DEF Later, Needs, Signing, Accepting

LEMMA ReadyLasts ==
    ASSUME MembersAssumption, Later, NEW j \in JobRows, JobReady(j)
    PROVE  JobReady(j)'
<1>1. \A w : Ready(j, w) => Ready(j, w)'
    BY NeedsLast DEF Ready
<1> QED
    BY <1>1 DEF JobReady, Later

(* One request moves on: it has what it needs and so have the others.       *)
LEMMA JobsStep ==
    ASSUME MembersAssumption, job \in [Requests -> JobRows], JobsInv, Later, NEW r \in Requests, OnlyJob(r),
           job'[r] \in JobRows, JobReady(job[r])'
    PROVE  job' \in [Requests -> JobRows] /\ JobsInv'
<1>1. job' \in [Requests -> JobRows]
    BY DEF OnlyJob
<1>2. ASSUME NEW q \in Requests PROVE JobReady(job[q])'
    <2>1. CASE q = r
        BY <2>1
    <2>2. CASE q # r
        <3>1. job'[q] = job[q]
            BY <2>2 DEF OnlyJob
        <3>2. \A j \in JobRows : JobReady(j) => JobReady(j)'
            BY ReadyLasts
        <3> QED
            BY <3>1, <3>2 DEF JobsInv
    <2> QED
        BY <2>1, <2>2
<1> QED
    BY <1>1, <1>2 DEF JobsInv

LEMMA NewUsersStep ==
    ASSUME job \in [Requests -> JobRows], NewUsersInv, NEW r \in Requests, OnlyJob(r),
           job'[r].at # "save_user", mail' = mail, issued \subseteq issued'
    PROVE  NewUsersInv'
BY DEF NewUsersInv, OnlyJob, Known

LEMMA FinalStep ==
    ASSUME job \in [Requests -> JobRows], RemovalIsFinal, NEW r \in Requests, OnlyJob(r), barred' = barred,
           job'[r].at \in {"look_member", "grant"} => job'[r].invite \notin barred
    PROVE  RemovalIsFinal'
BY DEF RemovalIsFinal, OnlyJob

(* A step that changes nothing but its job and the tokens.                  *)
LEMMA QuietStep ==
    ASSUME MembersAssumption, IInv, NEW r \in Requests, OnlyJob(r), job'[r] \in JobRows, JobReady(job[r])',
           job'[r].at # "save_user",
           job'[r].at \in {"look_member", "grant"} => job'[r].invite \notin barred,
           token' \in [Tokens -> TokenRows \cup {Absent}],
           UNCHANGED <<mail, session, role, owner, accounts, invite, founder, barred, overwritten>>,
           issued \subseteq issued'
    PROVE  IInv'
<1>1. Later
    BY DEF Later, Open, Minted
<1>2. job' \in [Requests -> JobRows] /\ JobsInv'
    BY <1>1, JobsStep DEF IInv, Rows
<1>3. NewUsersInv' /\ RemovalIsFinal'
    BY NewUsersStep, FinalStep DEF IInv, Rows
<1>4. Rows' /\ IssuedInv'
    BY <1>2 DEF IInv, Rows, IssuedInv, Known, Open, Minted
<1>5. SessionsNameTheirUser' /\ AccountsInv' /\ InvitesInv'
    BY DEF IInv, SessionsNameTheirUser, Known, Open, AccountsInv, Held, Member, OneOwnAccount,
           EveryAccountKeepsAnAdmin, Admins, InvitesInv, Minted
<1> QED
    BY <1>2, <1>3, <1>4, <1>5 DEF IInv

(* A request that is over, or idle, needs nothing.                          *)
LEMMA IdleIsReady ==
    Idle \in JobRows /\ Idle.at = "idle" /\ \A j \in JobRows : j.at \in {"idle", "done"} => JobReady(j)
<1>1. Idle \in JobRows
    BY DEF Idle, JobRows, Words
<1>3. Idle.at = "idle"
    BY DEF Idle
<1>2. \A j \in JobRows : j.at \in {"idle", "done"} => JobReady(j)
    BY DEF JobReady, Ready, Needs, Signing, Managing, Accepting, Filling
<1> QED
    BY <1>1, <1>2, <1>3

LEMMA Moves ==
    ASSUME job \in [Requests -> JobRows], NEW r \in Requests
    PROVE  /\ \A new : job' = [job EXCEPT ![r] = new] => OnlyJob(r) /\ job'[r] = new
           /\ Ends(r) => OnlyJob(r) /\ job'[r] = Idle
           /\ \A at \in Words : Step(r, at) =>
                 /\ OnlyJob(r) /\ job'[r] = [job[r] EXCEPT !.at = at]
                 /\ job'[r] \in JobRows /\ job'[r].at = at
<1>1. \A new : job' = [job EXCEPT ![r] = new] => OnlyJob(r) /\ job'[r] = new
    BY DEF OnlyJob
<1>2. \A at \in Words : Step(r, at) => job' = [job EXCEPT ![r] = [job[r] EXCEPT !.at = at]]
    BY DEF Step, Goes
<1>3. \A at \in Words : [job[r] EXCEPT !.at = at] \in JobRows /\ [job[r] EXCEPT !.at = at].at = at
    BY DEF JobRows
<1> QED
    BY <1>1, <1>2, <1>3 DEF Ends, Goes

(* What is missing is not a row.                                            *)
LEMMA AbsentIsNoRow ==
    Absent \notin TokenRows /\ Absent \notin SessionRows /\ Absent \notin InviteRows
<1>1. DOMAIN Absent = {"at"}
    BY DEF Absent
<1>2. \A x \in TokenRows : "kind" \in DOMAIN x
    BY DEF TokenRows
<1>3. \A x \in SessionRows \cup InviteRows : "user" \in DOMAIN x
    BY DEF SessionRows, InviteRows
<1> QED
    BY <1>1, <1>2, <1>3
-----------------------------------------------------------------------------
(* Requests of someone signed in begin: at once, or after the session that  *)
(* has little left was rolled.                                              *)
LEMMA Entering ==
    ASSUME MembersAssumption, IInv, NEW r \in Requests, NEW s \in Sessions, Live(s),
           NEW new \in JobRows, new.at \in Resumed, Enters(r, s, new), UNCHANGED <<people, tenancy>>,
           \A j \in JobRows :
              /\ j.user \in Users /\ j.kind = new.kind /\ j.account = new.account
              /\ j.target = new.target /\ j.role = new.role /\ j.invite = new.invite
              => Ready(j, new.at)
    PROVE  IInv'
<1> DEFINE u == session[s].user
           plain == [new EXCEPT !.user = u]
           rolled == [new EXCEPT !.user = u, !.session = s, !.next = new.at, !.at = "roll"]
<1>1. u \in Users /\ Open(s)
    BY AbsentIsNoRow DEF Live, Open, IInv, Rows, SessionRows
<1>2. plain \in JobRows /\ rolled \in JobRows
    <2> HIDE DEF u
    <2>1. u \in Users \cup {Nobody} /\ s \in Sessions \cup {Nobody} /\ "roll" \in Words
        BY <1>1 DEF Words
    <2>2. plain \in JobRows
        BY <2>1 DEF JobRows
    <2>3. rolled \in JobRows
        BY <2>1 DEF JobRows
    <2> QED
        BY <2>2, <2>3
<1>3. Ready(plain, new.at) /\ Ready(rolled, new.at)
    <2>1. plain.user = u /\ plain.kind = new.kind /\ plain.account = new.account
          /\ plain.target = new.target /\ plain.role = new.role /\ plain.invite = new.invite
        BY DEF JobRows
    <2>2. rolled.user = u /\ rolled.kind = new.kind /\ rolled.account = new.account
          /\ rolled.target = new.target /\ rolled.role = new.role /\ rolled.invite = new.invite
        BY DEF JobRows
    <2> QED
        BY <1>1, <1>2, <2>1, <2>2
<1>4. plain.at = new.at /\ rolled.at = "roll" /\ rolled.next = new.at /\ rolled.session = s
    BY DEF JobRows
<1>5. JobReady(plain) /\ JobReady(rolled)
    BY <1>1, <1>3, <1>4 DEF JobReady, Resumed
<1>6. new.at \notin {"save_user", "look_member", "grant"}
    BY DEF Resumed
<1> HIDE DEF plain, rolled
<1>7. job' = [job EXCEPT ![r] = plain] \/ job' = [job EXCEPT ![r] = rolled]
    BY DEF Enters, Begins, plain, rolled, u
<1>8. /\ OnlyJob(r) /\ job'[r] \in {plain, rolled}
    BY <1>7, Moves DEF IInv, Rows
<1>9. JobReady(job'[r])
    BY <1>5, <1>8
<1>10. JobReady(job[r])'
    BY <1>9 DEF JobReady, Ready, Needs, Open, Minted, people, tenancy
<1> QED
    BY <1>2, <1>4, <1>6, <1>8, <1>10, QuietStep DEF IInv, Rows, people, tenancy

LEMMA AsksToBegin ==
    ASSUME MembersAssumption, IInv, NEW r \in Requests,
           Visit(r) \/ BeginLibrary(r) \/ BeginManage(r) \/ BeginRevoke(r) \/ BeginAccept(r),
           Visit(r) => UNCHANGED tenancy
    PROVE  IInv'
<1>1. CASE Visit(r)
    <2> DEFINE new == [Idle EXCEPT !.kind = "visit", !.at = "done"]
    <2>1. PICK s \in Sessions : Live(s) /\ Enters(r, s, new) /\ UNCHANGED people
        BY <1>1 DEF Visit
    <2>2. new \in JobRows /\ new.at = "done" /\ new.at \in Resumed
        BY DEF Idle, JobRows, Words, Resumed
    <2>3. \A j \in JobRows : Ready(j, "done")
        BY DEF Ready, Needs, Signing, Managing, Accepting, Filling
    <2> HIDE DEF new
    <2> QED
        BY <1>1, <2>1, <2>2, <2>3, Entering
<1>2. CASE BeginLibrary(r)
    <2> DEFINE new == [Idle EXCEPT !.kind = "library", !.at = "resolve"]
    <2>1. PICK s \in Sessions : Live(s) /\ Enters(r, s, new)
        BY <1>2 DEF BeginLibrary, Asks
    <2>2. new \in JobRows /\ new.at = "resolve" /\ new.at \in Resumed
        BY DEF Idle, JobRows, Words, Resumed
    <2>3. \A j \in JobRows : j.user \in Users => Ready(j, "resolve")
        BY DEF Ready, Needs, Signing, Managing, Accepting, Filling
    <2> HIDE DEF new
    <2> QED
        BY <1>2, <2>1, <2>2, <2>3, Entering DEF BeginLibrary
<1>3. CASE BeginManage(r)
    <2>1. PICK a \in accounts, kind \in {"role", "remove", "invite"}, target \in Users \cup {Nobody}, to \in Roles :
             /\ kind # "invite" => target \in Users
             /\ Asks(r, [Idle EXCEPT !.kind = kind, !.at = "admin", !.account = a,
                                     !.target = target, !.role = to])
        BY <1>3 DEF BeginManage
    <2> DEFINE new == [Idle EXCEPT !.kind = kind, !.at = "admin", !.account = a, !.target = target, !.role = to]
    <2>2. PICK s \in Sessions : Live(s) /\ Enters(r, s, new)
        BY <2>1 DEF Asks
    <2>3. new \in JobRows /\ new.at = "admin" /\ new.at \in Resumed
        BY DEF Idle, JobRows, Words, Resumed, IInv, Rows
    <2>4. new.kind = kind /\ new.account = a /\ new.target = target /\ new.role = to
        BY DEF Idle
    <2> HIDE DEF new
    <2>5. ASSUME NEW j \in JobRows, j.user \in Users, j.kind = new.kind, j.account = new.account,
                 j.target = new.target, j.role = new.role
          PROVE  Ready(j, "admin")
        BY <2>1, <2>4, <2>5 DEF Ready, Needs, Signing, Managing, Accepting, Filling, Managed
    <2>6. UNCHANGED <<people, tenancy>>
        BY <1>3 DEF BeginManage
    <2> QED
        BY <2>2, <2>3, <2>5, <2>6, Entering
<1>4. CASE BeginRevoke(r)
    <2>1. PICK a \in accounts, i \in Invites :
             Asks(r, [Idle EXCEPT !.kind = "revoke", !.at = "admin", !.account = a, !.invite = i])
        BY <1>4 DEF BeginRevoke
    <2> DEFINE new == [Idle EXCEPT !.kind = "revoke", !.at = "admin", !.account = a, !.invite = i]
    <2>2. PICK s \in Sessions : Live(s) /\ Enters(r, s, new)
        BY <2>1 DEF Asks
    <2>3. new \in JobRows /\ new.at = "admin" /\ new.at \in Resumed
        BY DEF Idle, JobRows, Words, Resumed, IInv, Rows
    <2>4. new.kind = "revoke" /\ new.account = a /\ new.invite = i
        BY DEF Idle
    <2> HIDE DEF new
    <2>5. ASSUME NEW j \in JobRows, j.user \in Users, j.kind = new.kind, j.account = new.account,
                 j.invite = new.invite
          PROVE  Ready(j, "admin")
        BY <2>1, <2>4, <2>5 DEF Ready, Needs, Signing, Managing, Accepting, Filling, Managed
    <2> QED
        BY <1>4, <2>2, <2>3, <2>5, Entering DEF BeginRevoke
<1>5. CASE BeginAccept(r)
    <2>1. PICK i \in Invites : Asks(r, [Idle EXCEPT !.kind = "accept", !.at = "consume", !.invite = i])
        BY <1>5 DEF BeginAccept
    <2> DEFINE new == [Idle EXCEPT !.kind = "accept", !.at = "consume", !.invite = i]
    <2>2. PICK s \in Sessions : Live(s) /\ Enters(r, s, new)
        BY <2>1 DEF Asks
    <2>3. new \in JobRows /\ new.at = "consume" /\ new.at \in Resumed
        BY DEF Idle, JobRows, Words, Resumed
    <2>4. new.invite = i
        BY DEF Idle
    <2> HIDE DEF new
    <2>5. ASSUME NEW j \in JobRows, j.user \in Users, j.invite = new.invite PROVE Ready(j, "consume")
        BY <2>1, <2>4, <2>5 DEF Ready, Needs, Signing, Managing, Accepting, Filling
    <2> QED
        BY <1>5, <2>2, <2>3, <2>5, Entering DEF BeginAccept
<1> QED
    BY <1>1, <1>2, <1>3, <1>4, <1>5
-----------------------------------------------------------------------------
(* Links and states: only the tokens change, and one request.               *)
LEMMA TokenRowsAreRows ==
    /\ \A m \in Mails : NewToken("link", m) \in TokenRows
    /\ NewToken("state", Nobody) \in TokenRows
    /\ \A x \in TokenRows : x.kind = "link" => x.mail \in Mails
    /\ \A x \in TokenRows : [x EXCEPT !.spent = TRUE] \in TokenRows
    /\ \A x \in TokenRows, age \in {"late", "old"} : [x EXCEPT !.age = age] \in TokenRows
BY DEF TokenRows, NewToken

LEMMA LinksAndStates ==
    ASSUME MembersAssumption, IInv, NEW r \in Requests, UNCHANGED tenancy,
           RequestLink(r) \/ SendLink(r) \/ StartOauth(r) \/ SaveState(r)
    PROVE  IInv'
<1>1. CASE RequestLink(r)
    <2>1. PICK m \in Mails : job' = [job EXCEPT ![r] = [Idle EXCEPT !.kind = "link", !.at = "send", !.mail = m]]
        BY <1>1 DEF RequestLink, LinksPurged, OldLinks, Begins
    <2> DEFINE new == [Idle EXCEPT !.kind = "link", !.at = "send", !.mail = m]
    <2>2. new \in JobRows /\ new.at = "send" /\ new.mail = m
        BY DEF Idle, JobRows, Words
    <2> HIDE DEF new
    <2>3. OnlyJob(r) /\ job'[r] = new
        BY <2>1, Moves DEF IInv, Rows, new
    <2>4. JobReady(job[r])'
        BY <2>2, <2>3 DEF JobReady, Ready, Needs, Signing, Managing, Accepting, Filling
    <2>5. token' \in [Tokens -> TokenRows \cup {Absent}]
        BY <1>1 DEF RequestLink, LinksPurged, OldLinks, IInv, Rows
    <2> QED
        BY <1>1, <2>2, <2>3, <2>4, <2>5, QuietStep DEF RequestLink, LinksPurged, OldLinks, tenancy
<1>2. CASE StartOauth(r)
    <2> DEFINE new == [Idle EXCEPT !.kind = "oauth", !.at = "state"]
    <2>1. job' = [job EXCEPT ![r] = new]
        BY <1>2 DEF StartOauth, StatesPurged, DeadStates, Begins
    <2>2. new \in JobRows /\ new.at = "state"
        BY DEF Idle, JobRows, Words
    <2> HIDE DEF new
    <2>3. OnlyJob(r) /\ job'[r] = new
        BY <2>1, Moves DEF IInv, Rows
    <2>4. JobReady(job[r])'
        BY <2>2, <2>3 DEF JobReady, Ready, Needs, Signing, Managing, Accepting, Filling
    <2>5. token' \in [Tokens -> TokenRows \cup {Absent}]
        BY <1>2 DEF StartOauth, StatesPurged, DeadStates, IInv, Rows
    <2> QED
        BY <1>2, <2>2, <2>3, <2>4, <2>5, QuietStep DEF StartOauth, StatesPurged, DeadStates, tenancy
<1>3. CASE SendLink(r) \/ SaveState(r)
    <2>1. OnlyJob(r) /\ job'[r] = Idle
        BY <1>3, Moves DEF SendLink, LinkSaved, SaveState, StateSaved, IInv, Rows
    <2>2. JobReady(job[r])'
        BY <2>1, IdleIsReady DEF JobReady, Ready, Needs, Signing, Managing, Accepting, Filling
    <2>3. job[r].at = "send" => job[r].mail \in Mails
        BY DEF IInv, JobsInv, JobReady, Ready, Needs, Signing
    <2>4. token' \in [Tokens -> TokenRows \cup {Absent}]
        BY <1>3, <2>3, TokenRowsAreRows DEF SendLink, LinkSaved, SaveState, StateSaved, IInv, Rows
    <2> QED
        BY <1>3, <2>1, <2>2, <2>4, IdleIsReady, QuietStep DEF SendLink, LinkSaved, SaveState, StateSaved, tenancy
<1> QED
    BY <1>1, <1>2, <1>3

LEMMA RedeemingATicket ==
    ASSUME MembersAssumption, IInv, NEW r \in Requests, UNCHANGED tenancy, Redeem(r) \/ Callback(r)
    PROVE  IInv'
<1>1. PICK t \in Tokens :
         /\ Redeemable(t)
         /\ token' \in {[token EXCEPT ![t].spent = TRUE], [token EXCEPT ![t] = Absent]}
         /\ \/ \E m \in Mails :
                 job' = [job EXCEPT ![r] = [Idle EXCEPT !.kind = "redeem", !.at = "look", !.token = t, !.mail = m]]
            \/ job' = [job EXCEPT ![r] = [Idle EXCEPT !.kind = "redeem", !.at = "done"]]
    <2>1. \A t \in Tokens : Redeemable(t) /\ token[t].kind = "link" => token[t].mail \in Mails
        BY TokenRowsAreRows DEF Redeemable, Sent, IInv, Rows
    <2>2. CASE Redeem(r)
        BY <2>1, <2>2 DEF Redeem, Begins
    <2>3. CASE Callback(r)
        BY <2>3 DEF Callback, StateConsumed, Claims, Begins
    <2> QED
        BY <2>2, <2>3
<1>2. token' \in [Tokens -> TokenRows \cup {Absent}]
    <2>1. token[t] \in TokenRows /\ token \in [Tokens -> TokenRows \cup {Absent}]
        BY <1>1 DEF Redeemable, Sent, IInv, Rows
    <2>2. [token[t] EXCEPT !.spent = TRUE] \in TokenRows
        BY <2>1, TokenRowsAreRows
    <2> QED
        BY <1>1, <2>1, <2>2
<1>3. OnlyJob(r) /\ job'[r] \in JobRows /\ job'[r].at \in {"look", "done"}
      /\ (job'[r].at = "look" => job'[r].mail \in Mails)
    <2>1. CASE \E m \in Mails :
             job' = [job EXCEPT ![r] = [Idle EXCEPT !.kind = "redeem", !.at = "look", !.token = t, !.mail = m]]
        <3>1. PICK m \in Mails :
                 job' = [job EXCEPT ![r] = [Idle EXCEPT !.kind = "redeem", !.at = "look", !.token = t, !.mail = m]]
            BY <2>1
        <3> DEFINE new == [Idle EXCEPT !.kind = "redeem", !.at = "look", !.token = t, !.mail = m]
        <3>2. new \in JobRows /\ new.at = "look" /\ new.mail = m
            BY DEF Idle, JobRows, Words
        <3>3. OnlyJob(r) /\ job'[r] = new
            BY <3>1, Moves DEF IInv, Rows
        <3> HIDE DEF new
        <3> QED
            BY <3>2, <3>3
    <2>2. CASE job' = [job EXCEPT ![r] = [Idle EXCEPT !.kind = "redeem", !.at = "done"]]
        <3> DEFINE new == [Idle EXCEPT !.kind = "redeem", !.at = "done"]
        <3>1. new \in JobRows /\ new.at = "done"
            BY DEF Idle, JobRows, Words
        <3> HIDE DEF new
        <3> QED
            BY <2>2, <3>1, Moves DEF IInv, Rows, new
    <2> QED
        BY <1>1, <2>1, <2>2
<1>4. JobReady(job[r])'
    BY <1>3 DEF JobReady, Ready, Needs, Signing, Managing, Accepting, Filling
<1> QED
    BY <1>2, <1>3, <1>4, QuietStep DEF Redeem, Callback, StateConsumed, Claims, tenancy
-----------------------------------------------------------------------------
(* The user of an address: found, or made, once.                            *)
WithUser(j, u, at) == [j EXCEPT !.at = at, !.user = u]

LEMMA WithUserFields ==
    ASSUME NEW j \in JobRows, NEW u \in Users, NEW at \in Words
    PROVE  WithUser(j, u, at) \in JobRows /\ WithUser(j, u, at).at = at
           /\ WithUser(j, u, at).user = u /\ WithUser(j, u, at).mail = j.mail
<1>1. WithUser(j, u, at) \in JobRows
    BY DEF JobRows, WithUser
<1>2. WithUser(j, u, at).at = at /\ WithUser(j, u, at).user = u
    BY DEF JobRows, WithUser
<1>3. WithUser(j, u, at).mail = j.mail
    BY DEF JobRows, WithUser
<1> QED
    BY <1>1, <1>2, <1>3

LEMMA LookingUp ==
    ASSUME MembersAssumption, IInv, NEW r \in Requests, UNCHANGED tenancy, LookUpUser(r)
    PROVE  IInv'
<1>1. job[r].mail \in Mails /\ job[r] \in JobRows
    BY DEF LookUpUser, IInv, JobsInv, JobReady, Ready, Needs, Signing, Rows
<1>2. CASE \E u \in Holder(job[r].mail) : Goes(r, [job[r] EXCEPT !.at = "session", !.user = u]) /\ UNCHANGED issued
    <2>1. PICK u \in Users : /\ mail[u] = job[r].mail
                             /\ job' = [job EXCEPT ![r] = [job[r] EXCEPT !.at = "session", !.user = u]]
                             /\ UNCHANGED issued
        BY <1>2 DEF Holder, Goes
    <2>2. OnlyJob(r) /\ job'[r] = WithUser(job[r], u, "session")
        BY <2>1, Moves DEF IInv, Rows, WithUser
    <2>3. job'[r] \in JobRows /\ job'[r].at = "session" /\ job'[r].user = u /\ job'[r].mail = job[r].mail
        <3>1. "session" \in Words
            BY DEF Words
        <3> QED
            BY <1>1, <2>2, <3>1, WithUserFields
    <2>4. JobReady(job[r])'
        BY <1>1, <2>1, <2>3 DEF LookUpUser, JobReady, Ready, Needs, Signing, Managing, Accepting, Filling
    <2> QED
        BY <2>1, <2>2, <2>3, <2>4, QuietStep DEF LookUpUser, tenancy, IInv, Rows
<1>3. CASE \E u \in Fresh(Users) : /\ Goes(r, [job[r] EXCEPT !.at = "save_user", !.user = u])
                                   /\ issued' = issued \cup {u}
    <2>1. PICK u \in Users : /\ u \notin issued /\ issued' = issued \cup {u}
                             /\ job' = [job EXCEPT ![r] = [job[r] EXCEPT !.at = "save_user", !.user = u]]
        BY <1>3 DEF Fresh, Goes
    <2>2. OnlyJob(r) /\ job'[r] = WithUser(job[r], u, "save_user")
        BY <2>1, Moves DEF IInv, Rows, WithUser
    <2>3. job'[r] \in JobRows /\ job'[r].at = "save_user" /\ job'[r].user = u /\ job'[r].mail = job[r].mail
        <3>1. "save_user" \in Words
            BY DEF Words
        <3> QED
            BY <1>1, <2>2, <3>1, WithUserFields
    <2>4. JobReady(job[r])'
        BY <1>1, <2>3 DEF JobReady, Ready, Needs, Signing, Managing, Accepting, Filling
    <2>5. Later
        BY <2>1 DEF LookUpUser, tenancy, Later, Open, Minted
    <2>6. job' \in [Requests -> JobRows] /\ JobsInv'
        BY <2>2, <2>3, <2>4, <2>5, JobsStep DEF IInv, Rows
    <2>7. NewUsersInv'
        <3>1. ~Known(u)
            BY <2>1 DEF IInv, IssuedInv
        <3>2. \A q \in Requests : q # r => job'[q] = job[q]
            BY <2>2 DEF OnlyJob, IInv, Rows
        <3>3. UNCHANGED mail /\ NewUsersInv
            BY DEF LookUpUser, IInv
        <3>4. \A q \in Requests : q # r /\ job[q].at = "save_user" => job[q].user # u
            BY <2>1, <3>3 DEF NewUsersInv
        <3> QED
            BY <2>1, <2>3, <3>1, <3>2, <3>3, <3>4 DEF NewUsersInv, Known
    <2>8. RemovalIsFinal'
        BY <2>2, <2>3, FinalStep DEF IInv, Rows, tenancy
    <2>9. Rows' /\ IssuedInv'
        BY <2>1, <2>6 DEF LookUpUser, tenancy, IInv, Rows, IssuedInv, Known, Open, Minted
    <2>10. SessionsNameTheirUser' /\ AccountsInv' /\ InvitesInv'
        <3>1. UNCHANGED <<mail, session, role, owner, accounts, invite, founder, barred, overwritten>>
            BY DEF LookUpUser, tenancy
        <3> QED
            BY <2>1, <3>1 DEF IInv, SessionsNameTheirUser, Known, Open, AccountsInv, Held, Member,
               OneOwnAccount, EveryAccountKeepsAnAdmin, Admins, InvitesInv, Minted
    <2> QED
        BY <2>6, <2>7, <2>8, <2>9, <2>10 DEF IInv
<1> QED
    BY <1>2, <1>3 DEF LookUpUser

LEMMA SavingAUser ==
    ASSUME MembersAssumption, IInv, NEW r \in Requests, UNCHANGED tenancy, SaveUser(r)
    PROVE  IInv'
<1> DEFINE u == job[r].user
           m == job[r].mail
<1>1. m \in Mails /\ job[r] \in JobRows
    BY DEF SaveUser, IInv, JobsInv, JobReady, Ready, Needs, Signing, Rows
<1>2. u \in Users /\ u \in issued /\ ~Known(u)
      /\ \A q \in Requests : job[q].at = "save_user" /\ job[q].user = u => q = r
    BY DEF SaveUser, IInv, NewUsersInv
<1>3. CASE Holder(m) = {}
    <2>1. mail' = [mail EXCEPT ![u] = m] /\ Step(r, "session")
        BY <1>3 DEF SaveUser
    <2>2. OnlyJob(r) /\ job'[r] \in JobRows /\ job'[r] = [job[r] EXCEPT !.at = "session"] /\ job'[r].at = "session"
        BY <2>1, Moves DEF IInv, Rows, Words
    <2>3. job'[r].user = u /\ job'[r].mail = m
        BY <2>2, <1>1 DEF JobRows
    <2>4. mail'[u] = m /\ \A v \in Users : v # u => mail'[v] = mail[v]
        BY <1>2, <2>1 DEF IInv, Rows
    <2> HIDE DEF u, m
    <2>5. JobReady(job[r])'
        BY <1>1, <1>2, <2>2, <2>3, <2>4 DEF JobReady, Ready, Needs, Signing, Managing, Accepting, Filling
    <2>6. Later
        BY <1>2, <2>4 DEF SaveUser, tenancy, Later, Open, Minted, Known
    <2>7. job' \in [Requests -> JobRows] /\ JobsInv'
        BY <2>2, <2>5, <2>6, JobsStep DEF IInv, Rows
    <2>8. NewUsersInv'
        <3>1. \A q \in Requests : q # r => job'[q] = job[q]
            BY <2>2 DEF OnlyJob, IInv, Rows
        <3>2. UNCHANGED issued /\ NewUsersInv
            BY DEF SaveUser, IInv
        <3>3. \A q \in Requests : job'[q].at = "save_user" =>
                 q # r /\ job'[q] = job[q] /\ job[q].user \in Users /\ job[q].user # u
            BY <1>2, <2>2, <3>1, <3>2 DEF NewUsersInv
        <3> QED
            BY <2>4, <3>2, <3>3 DEF NewUsersInv, Known
    <2>9. RemovalIsFinal'
        BY <2>2, FinalStep DEF IInv, Rows, tenancy
    <2>10. Rows' /\ IssuedInv'
        BY <1>1, <1>2, <2>1, <2>4, <2>7 DEF SaveUser, tenancy, IInv, Rows, IssuedInv, Known, Open, Minted, u, m
    <2>11. SessionsNameTheirUser'
        <3>1. \A v \in Users : mail[v] # m
            BY <1>3 DEF Holder
        <3>2. \A s \in Sessions : Open(s) => session[s].user \in Users /\ session[s].user # u
            BY <1>2, AbsentIsNoRow DEF IInv, SessionsNameTheirUser, Rows, SessionRows, Open
        <3> QED
            BY <1>1, <1>2, <2>4, <3>1, <3>2 DEF SaveUser, IInv, SessionsNameTheirUser, Known, Open
    <2>12. AccountsInv' /\ InvitesInv'
        BY DEF SaveUser, tenancy, IInv, AccountsInv, Held, Member,
           OneOwnAccount, EveryAccountKeepsAnAdmin, Admins, InvitesInv, Minted
    <2> QED
        BY <2>7, <2>8, <2>9, <2>10, <2>11, <2>12 DEF IInv
<1>4. CASE Holder(m) # {}
    <2>1. UNCHANGED mail /\ Step(r, "again")
        BY <1>4 DEF SaveUser, AfterRefusal
    <2>2. OnlyJob(r) /\ job'[r] \in JobRows /\ job'[r] = [job[r] EXCEPT !.at = "again"] /\ job'[r].at = "again"
        BY <2>1, Moves DEF IInv, Rows, Words
    <2>3. job'[r].mail = m
        BY <2>2, <1>1 DEF JobRows
    <2>4. JobReady(job[r])'
        BY <1>1, <2>2, <2>3 DEF JobReady, Ready, Needs, Signing, Managing, Accepting, Filling
    <2> QED
        BY <2>1, <2>2, <2>4, QuietStep DEF SaveUser, tenancy, IInv, Rows
<1> QED
    BY <1>3, <1>4

-----------------------------------------------------------------------------
(* Sessions: saved for the user of the address, ended, rolled.              *)

(* A step that leaves every session its user, address and end.              *)
LEMMA SessionStep ==
    ASSUME MembersAssumption, IInv, NEW r \in Requests, OnlyJob(r), job'[r] \in JobRows, JobReady(job[r])',
           job'[r].at \notin {"save_user", "look_member", "grant"},
           session' \in [Sessions -> SessionRows \cup {Absent}],
           \A s \in Sessions : Open(s) => Open(s)',
           \A s \in Sessions : Open(s)' =>
              s \in issued' /\ Known(session'[s].user) /\ mail[session'[s].user] = session'[s].mail,
           issued \subseteq issued', UNCHANGED <<mail, token, tenancy>>
    PROVE  IInv'
<1>1. Later
    BY DEF Later, Minted, tenancy
<1>2. job' \in [Requests -> JobRows] /\ JobsInv'
    BY <1>1, JobsStep DEF IInv, Rows
<1>3. NewUsersInv' /\ RemovalIsFinal'
    BY NewUsersStep, FinalStep DEF IInv, Rows, tenancy
<1>4. Rows' /\ IssuedInv'
    BY <1>2 DEF IInv, Rows, IssuedInv, Known, Open, Minted, tenancy
<1>5. SessionsNameTheirUser'
    BY DEF IInv, SessionsNameTheirUser, Known, Open
<1>6. AccountsInv' /\ InvitesInv'
    BY DEF IInv, AccountsInv, Held, Member, OneOwnAccount, EveryAccountKeepsAnAdmin, Admins, InvitesInv,
           Minted, tenancy
<1> QED
    BY <1>2, <1>3, <1>4, <1>5, <1>6 DEF IInv

LEMMA SavingASession ==
    ASSUME MembersAssumption, IInv, NEW r \in Requests, UNCHANGED tenancy, SaveSession(r)
    PROVE  IInv'
<1> DEFINE row == [user |-> job[r].user, mail |-> job[r].mail, revoked |-> FALSE, age |-> "fresh"]
<1>1. PICK x \in Sessions : x \notin issued /\ issued' = issued \cup {x} /\ session' = [session EXCEPT ![x] = row]
    BY DEF SaveSession, Fresh
<1>2. job[r].user \in Users /\ job[r].mail \in Mails /\ mail[job[r].user] = job[r].mail
    BY DEF SaveSession, IInv, JobsInv, JobReady, Ready, Needs, Signing
<1>3. row \in SessionRows /\ row.user = job[r].user /\ row.mail = job[r].mail
    BY <1>2 DEF SessionRows
<1>4. OnlyJob(r) /\ job'[r] = Idle
    BY Moves DEF SaveSession, IInv, Rows
<1>5. JobReady(job[r])'
    BY <1>4, IdleIsReady DEF JobReady, Ready, Needs, Signing, Managing, Accepting, Filling
<1> HIDE DEF row
<1>6. session' \in [Sessions -> SessionRows \cup {Absent}]
    BY <1>1, <1>3 DEF IInv, Rows
<1>7. session'[x] = row /\ \A s \in Sessions : s # x => session'[s] = session[s]
    BY <1>1 DEF IInv, Rows
<1>8. \A s \in Sessions : Open(s) => Open(s)'
    BY <1>3, <1>7, AbsentIsNoRow DEF Open
<1>9. ASSUME NEW s \in Sessions, Open(s)'
      PROVE  s \in issued' /\ Known(session'[s].user) /\ mail[session'[s].user] = session'[s].mail
    <2>1. CASE s = x
        BY <1>1, <1>2, <1>3, <1>7, <2>1 DEF Known, MembersAssumption
    <2>2. CASE s # x
        BY <1>1, <1>7, <1>9, <2>2 DEF Open, IInv, IssuedInv, SessionsNameTheirUser
    <2> QED
        BY <2>1, <2>2
<1> QED
    BY <1>1, <1>4, <1>5, <1>6, <1>8, <1>9, IdleIsReady, SessionStep DEF SaveSession

LEMMA SigningOut ==
    ASSUME MembersAssumption, IInv, NEW r \in Requests, UNCHANGED tenancy, SignOut(r)
    PROVE  IInv'
<1> DEFINE new == [Idle EXCEPT !.kind = "sign_out", !.at = "done"]
<1>1. PICK x \in Sessions : Open(x) /\ session' = [session EXCEPT ![x].revoked = TRUE] /\ job' = [job EXCEPT ![r] = new]
    BY DEF SignOut, SignedOut, Begins
<1>2. new \in JobRows /\ new.at = "done"
    BY DEF Idle, JobRows, Words
<1> HIDE DEF new
<1>3. OnlyJob(r) /\ job'[r] = new
    BY <1>1, Moves DEF IInv, Rows
<1>4. JobReady(job[r])'
    BY <1>2, <1>3 DEF JobReady, Ready, Needs, Signing, Managing, Accepting, Filling
<1>5. session[x] \in SessionRows /\ session \in [Sessions -> SessionRows \cup {Absent}]
    BY <1>1 DEF Open, IInv, Rows
<1>6. [session[x] EXCEPT !.revoked = TRUE] \in SessionRows
      /\ [session[x] EXCEPT !.revoked = TRUE].user = session[x].user
      /\ [session[x] EXCEPT !.revoked = TRUE].mail = session[x].mail
    BY <1>5 DEF SessionRows
<1>7. session'[x] = [session[x] EXCEPT !.revoked = TRUE] /\ \A s \in Sessions : s # x => session'[s] = session[s]
    BY <1>1, <1>5
<1>8. session' \in [Sessions -> SessionRows \cup {Absent}]
    BY <1>1, <1>5, <1>6
<1>9. \A s \in Sessions : Open(s)' => /\ Open(s) /\ session'[s].user = session[s].user
                                      /\ session'[s].mail = session[s].mail
    BY <1>1, <1>6, <1>7 DEF Open
<1>10. \A s \in Sessions : Open(s) => Open(s)'
    BY <1>6, <1>7, AbsentIsNoRow DEF Open
<1>11. \A s \in Sessions : Open(s)' =>
          s \in issued' /\ Known(session'[s].user) /\ mail[session'[s].user] = session'[s].mail
    BY <1>9 DEF SignOut, SignedOut, IInv, IssuedInv, SessionsNameTheirUser
<1> QED
    BY <1>2, <1>3, <1>4, <1>8, <1>10, <1>11, SessionStep DEF SignOut, SignedOut

(* The request that rolled its session goes on as it would have.            *)
Resuming(j) == [j EXCEPT !.at = j.next, !.next = "idle", !.session = Nobody]

LEMMA ResumingFields ==
    ASSUME NEW j \in JobRows
    PROVE  /\ Resuming(j) \in JobRows
           /\ Resuming(j).at = j.next /\ Resuming(j).kind = j.kind /\ Resuming(j).user = j.user
           /\ Resuming(j).account = j.account /\ Resuming(j).target = j.target
           /\ Resuming(j).role = j.role /\ Resuming(j).invite = j.invite
<1>1. "idle" \in Words
    BY DEF Words
<1>2. Resuming(j) \in JobRows
    BY <1>1 DEF JobRows, Resuming
<1>3. Resuming(j).at = j.next /\ Resuming(j).kind = j.kind /\ Resuming(j).user = j.user
    BY DEF JobRows, Resuming
<1>4. Resuming(j).account = j.account /\ Resuming(j).target = j.target
      /\ Resuming(j).role = j.role /\ Resuming(j).invite = j.invite
    BY DEF JobRows, Resuming
<1> QED
    BY <1>2, <1>3, <1>4

LEMMA Rolling ==
    ASSUME MembersAssumption, IInv, NEW r \in Requests, UNCHANGED tenancy, RollSession(r)
    PROVE  IInv'
<1> DEFINE x == job[r].session
           row == [session[x] EXCEPT !.age = "fresh", !.revoked = session[x].revoked]
<1>1. /\ job[r] \in JobRows /\ x \in Sessions /\ Open(x)
      /\ job[r].next \in Resumed /\ Ready(job[r], job[r].next)
    BY DEF RollSession, IInv, Rows, JobsInv, JobReady
<1>2. job' = [job EXCEPT ![r] = Resuming(job[r])]
    BY DEF RollSession, Goes, Resuming
<1>3. OnlyJob(r) /\ job'[r] = Resuming(job[r])
    BY <1>2, Moves DEF IInv, Rows
<1>4. job'[r] \in JobRows /\ job'[r].at = job[r].next
    BY <1>1, <1>3, ResumingFields
<1>5. JobReady(job[r])'
    <2>1. job'[r].kind = job[r].kind /\ job'[r].user = job[r].user
          /\ job'[r].account = job[r].account /\ job'[r].target = job[r].target
          /\ job'[r].role = job[r].role /\ job'[r].invite = job[r].invite
        BY <1>1, <1>3, ResumingFields
    <2>2. UNCHANGED <<mail, accounts, issued, invite>>
        BY DEF RollSession, tenancy
    <2> HIDE DEF x
    <2> QED
        BY <1>1, <1>4, <2>1, <2>2
        DEF JobReady, Ready, Needs, Minted, Signing, Managing, Accepting, Filling, Managed, Resumed
<1>6. session[x] \in SessionRows /\ session \in [Sessions -> SessionRows \cup {Absent}]
    BY <1>1 DEF Open, IInv, Rows
<1>7. row \in SessionRows /\ row.user = session[x].user /\ row.mail = session[x].mail
    BY <1>6 DEF SessionRows
<1>8. session' = [session EXCEPT ![x] = row]
    BY <1>1, <1>6 DEF RollSession, RevokedAfterRoll
<1> HIDE DEF row, x
<1>9. session'[x] = row /\ \A s \in Sessions : s # x => session'[s] = session[s]
    BY <1>1, <1>6, <1>8
<1>10. session' \in [Sessions -> SessionRows \cup {Absent}]
    BY <1>6, <1>7, <1>8
<1>11. \A s \in Sessions : Open(s)' => /\ Open(s) /\ session'[s].user = session[s].user
                                       /\ session'[s].mail = session[s].mail
    BY <1>1, <1>7, <1>9 DEF Open
<1>12. \A s \in Sessions : Open(s) => Open(s)'
    BY <1>7, <1>9, AbsentIsNoRow DEF Open
<1>13. \A s \in Sessions : Open(s)' =>
          s \in issued' /\ Known(session'[s].user) /\ mail[session'[s].user] = session'[s].mail
    BY <1>11 DEF RollSession, IInv, IssuedInv, SessionsNameTheirUser
<1>14. job'[r].at \notin {"save_user", "look_member", "grant"}
    BY <1>1, <1>4 DEF Resumed
<1> QED
    BY <1>3, <1>4, <1>5, <1>10, <1>12, <1>13, <1>14, SessionStep DEF RollSession

LEMMA DoneIsDone ==
    ASSUME MembersAssumption, IInv, NEW r \in Requests, UNCHANGED tenancy, Done(r)
    PROVE  IInv'
<1>1. OnlyJob(r) /\ job'[r] = Idle
    BY Moves DEF Done, IInv, Rows
<1>2. JobReady(job[r])'
    BY <1>1, IdleIsReady DEF JobReady, Ready, Needs, Signing, Managing, Accepting, Filling
<1> QED
    BY <1>1, <1>2, IdleIsReady, QuietStep DEF Done, people, tenancy, IInv, Rows

(* The invariant outside the jobs, when the jobs stay as they are.          *)
LEMMA TimeStep ==
    ASSUME MembersAssumption, IInv, UNCHANGED tenancy, TimePasses
    PROVE  IInv'
<1>1. UNCHANGED <<mail, issued, job, role, owner, accounts, invite, founder, barred, overwritten>>
    BY DEF TimePasses, TokenAges, SessionAges, tenancy
<1>2. token' \in [Tokens -> TokenRows \cup {Absent}]
    <2>1. ASSUME NEW t \in Tokens, TokenAges(t) PROVE token' \in [Tokens -> TokenRows \cup {Absent}]
        <3>1. token[t] \in TokenRows /\ token \in [Tokens -> TokenRows \cup {Absent}]
            BY <2>1 DEF TokenAges, Sent, IInv, Rows
        <3>2. PICK age \in {"late", "old"} : token' = [token EXCEPT ![t] = [token[t] EXCEPT !.age = age]]
            BY <2>1 DEF TokenAges
        <3>3. [token[t] EXCEPT !.age = age] \in TokenRows
            BY <3>1, TokenRowsAreRows
        <3> QED
            BY <3>1, <3>2, <3>3
    <2>2. ASSUME NEW s \in Sessions, SessionAges(s) PROVE token' \in [Tokens -> TokenRows \cup {Absent}]
        BY <2>2 DEF SessionAges, IInv, Rows
    <2> QED
        BY <2>1, <2>2 DEF TimePasses
<1>3. /\ session' \in [Sessions -> SessionRows \cup {Absent}]
      /\ \A s \in Sessions : Open(s)' <=> Open(s)
      /\ \A s \in Sessions : Open(s) => session'[s].user = session[s].user /\ session'[s].mail = session[s].mail
    <2> DEFINE Goal ==
            /\ session' \in [Sessions -> SessionRows \cup {Absent}]
            /\ \A s \in Sessions : Open(s)' <=> Open(s)
            /\ \A s \in Sessions : Open(s) => session'[s].user = session[s].user /\ session'[s].mail = session[s].mail
    <2>1. ASSUME NEW x \in Sessions, SessionAges(x) PROVE Goal
        <3>1. session[x] \in SessionRows /\ session \in [Sessions -> SessionRows \cup {Absent}]
            BY <2>1 DEF SessionAges, Open, IInv, Rows
        <3>2. PICK age \in {"low", "expired"} : session' = [session EXCEPT ![x] = [session[x] EXCEPT !.age = age]]
            BY <2>1 DEF SessionAges
        <3> DEFINE row == [session[x] EXCEPT !.age = age]
        <3>3. row \in SessionRows /\ row.user = session[x].user /\ row.mail = session[x].mail
            BY <3>1 DEF SessionRows
        <3> HIDE DEF row
        <3>4. session' = [session EXCEPT ![x] = row]
            BY <3>2 DEF row
        <3>5. session'[x] = row /\ \A s \in Sessions : s # x => session'[s] = session[s]
            BY <3>1, <3>4
        <3>6. session' \in [Sessions -> SessionRows \cup {Absent}]
            BY <3>1, <3>3, <3>4
        <3>7. Open(x) /\ Open(x)'
            BY <3>1, <3>3, <3>5, AbsentIsNoRow DEF Open
        <3> QED
            BY <3>3, <3>5, <3>6, <3>7 DEF Open
    <2>2. ASSUME NEW t \in Tokens, TokenAges(t) PROVE Goal
        BY <2>2 DEF TokenAges, IInv, Rows, Open
    <2> QED
        BY <2>1, <2>2 DEF TimePasses
<1>4. Rows' /\ IssuedInv'
    BY <1>1, <1>2, <1>3 DEF IInv, Rows, IssuedInv, Known, Minted
<1>5. JobsInv'
    BY <1>1, <1>3 DEF IInv, JobsInv, JobReady, Ready, Needs, Minted
<1>6. NewUsersInv' /\ RemovalIsFinal'
    BY <1>1 DEF IInv, NewUsersInv, RemovalIsFinal, Known
<1>7. SessionsNameTheirUser'
    BY <1>1, <1>3 DEF IInv, SessionsNameTheirUser, Known
<1>8. AccountsInv' /\ InvitesInv'
    BY <1>1 DEF IInv, AccountsInv, Held, Member, OneOwnAccount, EveryAccountKeepsAnAdmin, Admins, InvitesInv, Minted
<1> QED
    BY <1>4, <1>5, <1>6, <1>7, <1>8 DEF IInv

-----------------------------------------------------------------------------
(* Requests that look before they change anything.                          *)

(* What the steps of Members say of their job.                              *)
LEMMA WaitingJob ==
    ASSUME IInv, NEW r \in Requests, job[r].at # "roll"
    PROVE  job[r] \in JobRows /\ Ready(job[r], job[r].at)
BY DEF IInv, Rows, JobsInv, JobReady

(* The request is over.                                                     *)
LEMMA EndedJob ==
    ASSUME IInv, NEW r \in Requests, Ends(r)
    PROVE  /\ OnlyJob(r) /\ job'[r] \in JobRows /\ JobReady(job[r])'
           /\ job'[r].at \notin {"save_user", "look_member", "grant"}
<1>1. OnlyJob(r) /\ job'[r] = Idle
    BY Moves DEF IInv, Rows
<1>2. JobReady(job[r])'
    BY <1>1, IdleIsReady DEF JobReady, Ready, Needs, Signing, Managing, Accepting, Filling
<1> QED
    BY <1>1, <1>2, IdleIsReady

(* The request goes on to another step, knowing nothing new.                *)
LEMMA SteppedJob ==
    ASSUME IInv, NEW r \in Requests, NEW at \in Words, Step(r, at)
    PROVE  /\ OnlyJob(r) /\ job'[r] \in JobRows /\ job'[r].at = at
           /\ job'[r].kind = job[r].kind /\ job'[r].user = job[r].user /\ job'[r].account = job[r].account
           /\ job'[r].target = job[r].target /\ job'[r].role = job[r].role /\ job'[r].invite = job[r].invite
<1>1. OnlyJob(r) /\ job'[r] = [job[r] EXCEPT !.at = at] /\ job'[r] \in JobRows /\ job'[r].at = at
    BY Moves DEF IInv, Rows
<1>2. job[r] \in JobRows
    BY DEF IInv, Rows
<1> QED
    BY <1>1, <1>2 DEF JobRows

(* The request has found the account it is about.                           *)
InAccount(j, a) == [j EXCEPT !.at = "count", !.account = a]

LEMMA CountedJob ==
    ASSUME IInv, NEW r \in Requests, NEW a \in accounts, job[r].user \in Users, CountIfAdmin(r, a), accounts' = accounts
    PROVE  /\ OnlyJob(r) /\ job'[r] \in JobRows /\ JobReady(job[r])'
           /\ job'[r].at \notin {"save_user", "look_member", "grant"}
<1>1. CASE Ends(r)
    BY <1>1, EndedJob
<1>2. CASE Goes(r, [job[r] EXCEPT !.at = "count", !.account = a])
    <2>1. OnlyJob(r) /\ job'[r] = InAccount(job[r], a)
        BY <1>2, Moves DEF IInv, Rows, Goes, InAccount
    <2>2. job[r] \in JobRows /\ a \in Accounts \cup {Nobody} /\ "count" \in Words
        BY DEF IInv, Rows, Words
    <2>3. InAccount(job[r], a) \in JobRows
        BY <2>2 DEF JobRows, InAccount
    <2>4. InAccount(job[r], a).at = "count" /\ InAccount(job[r], a).account = a /\ InAccount(job[r], a).user = job[r].user
        BY <2>2 DEF JobRows, InAccount
    <2>5. JobReady(job[r])'
        BY <2>1, <2>4 DEF JobReady, Ready, Needs, Signing, Managing, Accepting, Filling
    <2> QED
        BY <2>1, <2>3, <2>4, <2>5
<1> QED
    BY <1>1, <1>2 DEF CountIfAdmin

LEMMA LookingOnly ==
    ASSUME MembersAssumption, IInv, NEW r \in Requests, Resolve(r) \/ CountLibraries(r) \/ AdminAccount(r)
    PROVE  IInv'
<1> USE DEF JobReady, Ready, Needs, Signing, Managing, Accepting, Filling
<1>1. UNCHANGED <<people, tenancy>> /\ job[r] \in JobRows /\ Ready(job[r], job[r].at)
    BY WaitingJob DEF Resolve, CountLibraries, AdminAccount
<1>2. /\ OnlyJob(r) /\ job'[r] \in JobRows /\ JobReady(job[r])'
      /\ job'[r].at \notin {"save_user", "look_member", "grant"}
    <2>1. CASE Resolve(r)
        <3>1. job[r].user \in Users
            BY <1>1, <2>1 DEF Resolve
        <3>2. CASE Step(r, "mint")
            <4>1. "mint" \in Words
                BY DEF Words
            <4> QED
                BY <3>1, <3>2, <4>1, SteppedJob
        <3>3. CASE \E a \in AccountsOf(job[r].user) : CountIfAdmin(r, a)
            <4>1. PICK a \in Accounts : Member(job[r].user, a) /\ CountIfAdmin(r, a)
                BY <3>3 DEF AccountsOf
            <4>2. a \in accounts
                BY <3>1, <4>1 DEF IInv, AccountsInv
            <4> QED
                BY <1>1, <3>1, <4>1, <4>2, CountedJob DEF tenancy
        <3> QED
            BY <2>1, <3>2, <3>3 DEF Resolve
    <2>2. CASE CountLibraries(r)
        <3>1. CASE Step(r, "save_library")
            <4>1. "save_library" \in Words
                BY DEF Words
            <4>2. job[r].user \in Users /\ job[r].account \in accounts
                BY <1>1, <2>2 DEF CountLibraries
            <4> QED
                BY <1>1, <3>1, <4>1, <4>2, SteppedJob DEF tenancy
        <3> QED
            BY <2>2, <3>1, EndedJob DEF CountLibraries
    <2>3. CASE AdminAccount(r)
        <3>1. CASE Step(r, job[r].kind)
            <4>1. job[r].kind \in Words /\ job[r].kind \in Managed /\ Needs(job[r], job[r].kind)
                BY <1>1, <2>3 DEF AdminAccount, Managed, Words
            <4>2. /\ OnlyJob(r) /\ job'[r] \in JobRows /\ job'[r].at = job[r].kind
                  /\ job'[r].user = job[r].user /\ job'[r].account = job[r].account
                  /\ job'[r].target = job[r].target /\ job'[r].role = job[r].role /\ job'[r].invite = job[r].invite
                BY <3>1, <4>1, SteppedJob
            <4>3. UNCHANGED <<mail, accounts, invite, issued>>
                BY <1>1 DEF people, tenancy
            <4> QED
                BY <4>1, <4>2, <4>3 DEF Managed, Minted
        <3> QED
            BY <2>3, <3>1, EndedJob DEF AdminAccount
    <2> QED
        BY <2>1, <2>2, <2>3
<1> QED
    BY <1>1, <1>2, QuietStep DEF people, tenancy, IInv, Rows

(* An acceptance goes on with what the invite says.                         *)
Admit(j, i) == [j EXCEPT !.at = "look_member", !.account = invite[i].account, !.role = invite[i].role]

LEMMA AdmittedJob ==
    ASSUME IInv, NEW r \in Requests, job[r].at \in {"consume", "finish"}, Admitted(r),
           Minted(job[r].invite), UNCHANGED <<accounts, issued>>
    PROVE  /\ OnlyJob(r) /\ job'[r] \in JobRows /\ JobReady(job[r])' /\ job'[r].at = "look_member"
           /\ job'[r].invite = job[r].invite
<1> DEFINE i == job[r].invite
<1>1. job[r] \in JobRows /\ job[r].user \in Users /\ i \in Invites
    BY WaitingJob DEF Ready, Needs
<1>2. invite[i] \in InviteRows /\ i \in issued /\ invite[i].account \in accounts
    BY <1>1 DEF Minted, IInv, Rows, IssuedInv, InvitesInv
<1>3. /\ invite[i].account \in Accounts \cup {Nobody} /\ invite[i].role \in Roles \cup {Nobody}
      /\ invite[i].role \in Roles /\ "look_member" \in Words
    BY <1>2 DEF InviteRows, Words
<1>4. job' = [job EXCEPT ![r] = Admit(job[r], i)]
    BY DEF Admitted, Goes, Admit
<1>5. OnlyJob(r) /\ job'[r] = Admit(job[r], i)
    BY <1>4, Moves DEF IInv, Rows
<1>6. Admit(job[r], i) \in JobRows
    BY <1>1, <1>3 DEF JobRows, Admit
<1>7. /\ Admit(job[r], i).at = "look_member" /\ Admit(job[r], i).account = invite[i].account
      /\ Admit(job[r], i).role = invite[i].role /\ Admit(job[r], i).user = job[r].user
      /\ Admit(job[r], i).invite = i
    BY <1>1 DEF JobRows, Admit
<1> HIDE DEF i
<1>8. JobReady(job[r])'
    BY <1>1, <1>2, <1>3, <1>5, <1>7 DEF JobReady, Ready, Needs, Signing, Managing, Accepting, Filling
<1> QED
    BY <1>5, <1>6, <1>7, <1>8 DEF i

LEMMA Finishing ==
    ASSUME MembersAssumption, IInv, NEW r \in Requests, FinishInvite(r)
    PROVE  IInv'
<1> DEFINE i == job[r].invite
<1>1. UNCHANGED <<mail, token, session, issued, role, owner, accounts, invite, founder, barred, overwritten>>
    BY DEF FinishInvite, people, tenancy
<1>2. CASE Ends(r)
    BY <1>1, <1>2, EndedJob, QuietStep DEF IInv, Rows
<1>3. CASE MayFinish(i, job[r].user) /\ Admitted(r)
    <2>1. i \in Invites /\ Minted(i) /\ ~invite[i].granted
        BY <1>3, WaitingJob DEF FinishInvite, Ready, Needs, MayFinish
    <2>2. i \notin barred
        BY <2>1 DEF IInv, InvitesInv
    <2>3. /\ OnlyJob(r) /\ job'[r] \in JobRows /\ JobReady(job[r])' /\ job'[r].at = "look_member"
          /\ job'[r].invite = i
        BY <1>1, <1>3, <2>1, AdmittedJob DEF FinishInvite
    <2> QED
        BY <1>1, <2>2, <2>3, QuietStep DEF IInv, Rows
<1> QED
    BY <1>2, <1>3 DEF FinishInvite

-----------------------------------------------------------------------------
(* Steps that change invites.                                               *)
LEMMA InviteStep ==
    ASSUME MembersAssumption, IInv, NEW r \in Requests, OnlyJob(r), job'[r] \in JobRows, JobReady(job[r])',
           job'[r].at # "save_user",
           job'[r].at \in {"look_member", "grant"} => job'[r].invite \notin barred,
           invite' \in [Invites -> InviteRows \cup {Absent}],
           \A i \in Invites : Minted(i)' =>
              \/ i \notin issued /\ i \in issued' /\ invite'[i].account \in accounts /\ ~invite'[i].granted
              \/ /\ Minted(i) /\ invite'[i].account = invite[i].account
                 /\ invite[i].given => invite'[i].given
                 /\ invite[i].granted => invite'[i].granted
                 /\ invite'[i].granted => invite'[i].given
                 /\ invite[i].user # Nobody => invite'[i].user = invite[i].user,
           issued \subseteq issued',
           UNCHANGED <<mail, token, session, role, owner, accounts, founder, barred, overwritten>>
    PROVE  IInv'
<1>1. Later
    BY DEF Later, Open, Minted
<1>2. job' \in [Requests -> JobRows] /\ JobsInv'
    BY <1>1, JobsStep DEF IInv, Rows
<1>3. NewUsersInv' /\ RemovalIsFinal'
    BY NewUsersStep, FinalStep DEF IInv, Rows
<1>4. Rows'
    BY <1>2 DEF IInv, Rows
<1>5. IssuedInv'
    BY DEF IInv, IssuedInv, Known, Open
<1>6. InvitesInv'
    BY DEF IInv, IssuedInv, InvitesInv
<1>7. SessionsNameTheirUser' /\ AccountsInv'
    BY DEF IInv, SessionsNameTheirUser, Known, Open, AccountsInv, Held, Member, OneOwnAccount,
           EveryAccountKeepsAnAdmin, Admins
<1> QED
    BY <1>2, <1>3, <1>4, <1>5, <1>6, <1>7 DEF IInv

LEMMA InviteRowsAreRows ==
    ASSUME NEW x \in InviteRows
    PROVE  /\ \A u \in Users : LET y == [x EXCEPT !.user = u]
                               IN  y \in InviteRows /\ y.account = x.account /\ y.granted = x.granted
                                   /\ y.given = x.given
           /\ LET y == [x EXCEPT !.given = TRUE]
              IN  y \in InviteRows /\ y.account = x.account /\ y.granted = x.granted /\ y.given /\ y.user = x.user
           /\ LET y == [x EXCEPT !.granted = TRUE]
              IN  y \in InviteRows /\ y.account = x.account /\ y.granted /\ y.given = x.given /\ y.user = x.user
           /\ LET y == [x EXCEPT !.late = TRUE]
              IN  y \in InviteRows /\ y.account = x.account /\ y.granted = x.granted /\ y.given = x.given
                  /\ y.user = x.user
           /\ LET y == [x EXCEPT !.closed = TRUE]
              IN  y \in InviteRows /\ y.account = x.account /\ y.granted = x.granted /\ y.given = x.given
                  /\ y.user = x.user
BY DEF InviteRows

(* One invite is rewritten, none is made or taken away.                     *)
LEMMA Rewriting ==
    ASSUME IInv, NEW i \in Invites, Minted(i), NEW row \in InviteRows, invite' = [invite EXCEPT ![i] = row],
           row.account = invite[i].account,
           invite[i].given => row.given,
           invite[i].granted => row.granted,
           row.granted => row.given,
           invite[i].user # Nobody => row.user = invite[i].user
    PROVE  /\ invite' \in [Invites -> InviteRows \cup {Absent}] /\ invite'[i] = row
           /\ \A k \in Invites : Minted(k)' =>
                 /\ Minted(k) /\ invite'[k].account = invite[k].account
                 /\ invite[k].given => invite'[k].given
                 /\ invite[k].granted => invite'[k].granted
                 /\ invite'[k].granted => invite'[k].given
                 /\ invite[k].user # Nobody => invite'[k].user = invite[k].user
<1>1. invite \in [Invites -> InviteRows \cup {Absent}]
    BY DEF IInv, Rows
<1>2. invite'[i] = row /\ \A k \in Invites : k # i => invite'[k] = invite[k]
    BY <1>1
<1>3. \A k \in Invites : Minted(k) => (invite[k].granted => invite[k].given)
    BY DEF IInv, InvitesInv
<1> QED
    BY <1>1, <1>2, <1>3 DEF Minted

LEMMA MakingInvites ==
    ASSUME MembersAssumption, IInv, NEW r \in Requests, PurgeInvites(r) \/ SaveInvite(r) \/ RevokeInvite(r)
    PROVE  IInv'
<1> USE DEF JobReady, Ready, Needs, Signing, Managing, Accepting, Filling
<1>0. job[r].at # "roll" /\ job[r] \in JobRows /\ Ready(job[r], job[r].at)
    BY WaitingJob DEF PurgeInvites, SaveInvite, InviteSaved, FreshInvite, RevokeInvite
<1>1. CASE PurgeInvites(r)
    <2>1. "save_invite" \in Words
        BY DEF Words
    <2>2. job[r].user \in Users /\ job[r].account \in accounts /\ job[r].role \in Roles
        BY <1>0, <1>1 DEF PurgeInvites
    <2>3. OnlyJob(r) /\ job'[r] \in JobRows /\ JobReady(job[r])' /\ job'[r].at = "save_invite"
        BY <1>1, <2>1, <2>2, SteppedJob DEF PurgeInvites
    <2>4. invite' \in [Invites -> InviteRows \cup {Absent}]
        BY <1>1 DEF PurgeInvites, IInv, Rows
    <2>5. \A i \in Invites : Minted(i)' => Minted(i) /\ invite'[i] = invite[i]
        BY <1>1 DEF PurgeInvites, Minted
    <2>6. \A i \in Invites : Minted(i) => (invite[i].granted => invite[i].given)
        BY DEF IInv, InvitesInv
    <2> QED
        BY <1>1, <2>3, <2>4, <2>5, <2>6, InviteStep DEF PurgeInvites, people
<1>2. CASE SaveInvite(r)
    <2> DEFINE row == [account |-> job[r].account, role |-> job[r].role, user |-> Nobody,
                       granted |-> FALSE, given |-> FALSE, late |-> FALSE, closed |-> FALSE]
    <2>1. PICK x \in Invites : x \notin issued /\ issued' = issued \cup {x} /\ invite' = [invite EXCEPT ![x] = row]
        BY <1>2 DEF SaveInvite, InviteSaved, FreshInvite, Fresh
    <2>2. job[r].account \in accounts /\ job[r].account \in Accounts /\ job[r].role \in Roles
        BY <1>0, <1>2 DEF SaveInvite, InviteSaved, FreshInvite, IInv, Rows
    <2>3. row \in InviteRows /\ row.account = job[r].account /\ ~row.granted
        BY <2>2 DEF InviteRows
    <2> HIDE DEF row
    <2>4. invite' \in [Invites -> InviteRows \cup {Absent}]
        BY <2>1, <2>3 DEF IInv, Rows
    <2>5. invite'[x] = row /\ \A i \in Invites : i # x => invite'[i] = invite[i]
        BY <2>1 DEF IInv, Rows
    <2>6. \A i \in Invites : Minted(i) => (invite[i].granted => invite[i].given)
        BY DEF IInv, InvitesInv
    <2>7. OnlyJob(r) /\ job'[r] \in JobRows /\ JobReady(job[r])'
          /\ job'[r].at \notin {"save_user", "look_member", "grant"}
        BY <1>2, EndedJob DEF SaveInvite, InviteSaved, FreshInvite
    <2>8. \A i \in Invites : Minted(i)' =>
             \/ i \notin issued /\ i \in issued' /\ invite'[i].account \in accounts /\ ~invite'[i].granted
             \/ Minted(i) /\ invite'[i] = invite[i]
        BY <2>1, <2>2, <2>3, <2>5 DEF Minted
    <2> QED
        BY <1>2, <2>1, <2>4, <2>6, <2>7, <2>8, InviteStep DEF SaveInvite, InviteSaved, FreshInvite
<1>3. CASE RevokeInvite(r)
    <2>1. OnlyJob(r) /\ job'[r] \in JobRows /\ JobReady(job[r])'
          /\ job'[r].at \notin {"save_user", "look_member", "grant"}
        BY <1>3, EndedJob DEF RevokeInvite
    <2>2. invite' \in [Invites -> InviteRows \cup {Absent}]
        BY <1>3 DEF RevokeInvite, IInv, Rows
    <2>3. \A i \in Invites : Minted(i)' => Minted(i) /\ invite'[i] = invite[i]
        BY <1>3 DEF RevokeInvite, Minted, IInv, Rows
    <2>4. \A i \in Invites : Minted(i) => (invite[i].granted => invite[i].given)
        BY DEF IInv, InvitesInv
    <2> QED
        BY <1>3, <2>1, <2>2, <2>3, <2>4, InviteStep DEF RevokeInvite, people
<1> QED
    BY <1>1, <1>2, <1>3

LEMMA Consuming ==
    ASSUME MembersAssumption, IInv, NEW r \in Requests, ConsumeInvite(r)
    PROVE  IInv'
<1> DEFINE i == job[r].invite
           u == job[r].user
<1>1. job[r] \in JobRows /\ u \in Users /\ i \in Invites /\ job[r].at = "consume"
    BY WaitingJob DEF ConsumeInvite, Ready, Needs
<1>2. CASE Minted(i) /\ invite[i].user = Nobody /\ invite' = [invite EXCEPT ![i] = Consumed(i, u)] /\ Admitted(r)
    <2>1. invite[i] \in InviteRows
        BY <1>1, <1>2 DEF Minted, IInv, Rows
    <2>2. /\ Consumed(i, u) \in InviteRows /\ Consumed(i, u).account = invite[i].account
          /\ Consumed(i, u).granted = invite[i].granted /\ Consumed(i, u).given = invite[i].given
        BY <1>1, <2>1, InviteRowsAreRows DEF Consumed
    <2>3. invite[i].granted => invite[i].given
        BY <1>1, <1>2 DEF IInv, InvitesInv
    <2>4. i \notin barred
        BY <1>1, <1>2 DEF IInv, InvitesInv
    <2>5. UNCHANGED <<mail, token, session, issued, role, owner, accounts, founder, barred, overwritten>>
        BY DEF ConsumeInvite, people
    <2>6. /\ OnlyJob(r) /\ job'[r] \in JobRows /\ JobReady(job[r])' /\ job'[r].at = "look_member"
          /\ job'[r].invite = i
        BY <1>1, <1>2, <2>5, AdmittedJob
    <2> HIDE DEF i, u
    <2>7. /\ invite' \in [Invites -> InviteRows \cup {Absent}]
          /\ \A k \in Invites : Minted(k)' =>
                /\ Minted(k) /\ invite'[k].account = invite[k].account
                /\ invite[k].given => invite'[k].given
                /\ invite[k].granted => invite'[k].granted
                /\ invite'[k].granted => invite'[k].given
                /\ invite[k].user # Nobody => invite'[k].user = invite[k].user
        BY <1>1, <1>2, <2>2, <2>3, Rewriting
    <2> QED
        BY <2>4, <2>5, <2>6, <2>7, InviteStep
<1>3. CASE UNCHANGED invite /\ Step(r, "finish")
    <2>1. "finish" \in Words
        BY DEF Words
    <2>2. OnlyJob(r) /\ job'[r] \in JobRows /\ job'[r].at = "finish" /\ job'[r].user = u /\ job'[r].invite = i
        BY <1>3, <2>1, SteppedJob
    <2>3. JobReady(job[r])'
        BY <1>1, <2>2 DEF JobReady, Ready, Needs, Signing, Managing, Accepting, Filling
    <2> QED
        BY <1>3, <2>2, <2>3, QuietStep DEF ConsumeInvite, people, IInv, Rows
<1> QED
    BY <1>2, <1>3 DEF ConsumeInvite

(* The invite has brought its user in: it is marked so, if it is there yet. *)
LEMMA GivenRows ==
    ASSUME IInv, NEW i \in Invites, invite' = Given(i)
    PROVE  /\ invite' \in [Invites -> InviteRows \cup {Absent}]
           /\ invite'[i] # Absent => invite'[i].given
           /\ \A k \in Invites : Minted(k)' =>
                 /\ Minted(k) /\ invite'[k].account = invite[k].account
                 /\ invite[k].given => invite'[k].given
                 /\ invite[k].granted => invite'[k].granted
                 /\ invite'[k].granted => invite'[k].given
                 /\ invite[k].user # Nobody => invite'[k].user = invite[k].user
<1>1. \A k \in Invites : Minted(k) => (invite[k].granted => invite[k].given)
    BY DEF IInv, InvitesInv
<1>2. CASE ~Minted(i)
    BY <1>1, <1>2 DEF Minted, IInv, Rows, Given
<1>3. CASE Minted(i)
    <2> DEFINE row == [invite[i] EXCEPT !.given = TRUE]
    <2>1. invite[i] \in InviteRows
        BY <1>3 DEF Minted, IInv, Rows
    <2>2. /\ row \in InviteRows /\ row.account = invite[i].account /\ row.user = invite[i].user
          /\ row.given /\ row.granted = invite[i].granted
        BY <2>1, InviteRowsAreRows
    <2>3. invite' = [invite EXCEPT ![i] = row]
        BY <1>3 DEF Given
    <2> HIDE DEF row
    <2> QED
        BY <1>1, <1>3, <2>2, <2>3, Rewriting DEF Minted
<1> QED
    BY <1>2, <1>3

LEMMA GrantedRows ==
    ASSUME IInv, NEW i \in Invites, Minted(i) => invite[i].given,
           invite' = IF Minted(i) THEN [invite EXCEPT ![i].granted = TRUE] ELSE invite
    PROVE  /\ invite' \in [Invites -> InviteRows \cup {Absent}]
           /\ \A k \in Invites : Minted(k)' =>
                 /\ Minted(k) /\ invite'[k].account = invite[k].account
                 /\ invite[k].given => invite'[k].given
                 /\ invite[k].granted => invite'[k].granted
                 /\ invite'[k].granted => invite'[k].given
                 /\ invite[k].user # Nobody => invite'[k].user = invite[k].user
<1>1. \A k \in Invites : Minted(k) => (invite[k].granted => invite[k].given)
    BY DEF IInv, InvitesInv
<1>2. CASE ~Minted(i)
    BY <1>1, <1>2 DEF Minted, IInv, Rows
<1>3. CASE Minted(i)
    <2> DEFINE row == [invite[i] EXCEPT !.granted = TRUE]
    <2>1. invite[i] \in InviteRows
        BY <1>3 DEF Minted, IInv, Rows
    <2>2. /\ row \in InviteRows /\ row.account = invite[i].account /\ row.user = invite[i].user
          /\ row.granted /\ row.given = invite[i].given
        BY <2>1, InviteRowsAreRows
    <2>3. invite' = [invite EXCEPT ![i] = row]
        BY <1>3
    <2> HIDE DEF row
    <2> QED
        BY <1>1, <1>3, <2>2, <2>3, Rewriting
<1> QED
    BY <1>2, <1>3

LEMMA LookingForMembership ==
    ASSUME MembersAssumption, IInv, NEW r \in Requests, LookForMembership(r)
    PROVE  IInv'
<1> DEFINE i == job[r].invite
<1>1. /\ job[r] \in JobRows /\ job[r].user \in Users /\ i \in Invites /\ i \in issued
      /\ job[r].account \in accounts /\ job[r].role \in Roles
    BY WaitingJob DEF LookForMembership, Ready, Needs, Accepting
<1>2. CASE invite' = Given(i) /\ Step(r, "mark")
    <2>1. /\ invite' \in [Invites -> InviteRows \cup {Absent}]
          /\ invite'[i] # Absent => invite'[i].given
          /\ \A k \in Invites : Minted(k)' =>
                 /\ Minted(k) /\ invite'[k].account = invite[k].account
                 /\ invite[k].given => invite'[k].given
                 /\ invite[k].granted => invite'[k].granted
                 /\ invite'[k].granted => invite'[k].given
                 /\ invite[k].user # Nobody => invite'[k].user = invite[k].user
        BY <1>1, <1>2, GivenRows
    <2>2. "mark" \in Words
        BY DEF Words
    <2>3. /\ OnlyJob(r) /\ job'[r] \in JobRows /\ job'[r].at = "mark" /\ job'[r].user = job[r].user
          /\ job'[r].account = job[r].account /\ job'[r].invite = i
        BY <1>2, <2>2, SteppedJob
    <2>4. UNCHANGED <<mail, token, session, issued, role, owner, accounts, founder, barred, overwritten>>
        BY DEF LookForMembership, people
    <2> HIDE DEF i
    <2>5. JobReady(job[r])'
        BY <1>1, <2>1, <2>3, <2>4 DEF JobReady, Ready, Needs, Minted, Signing, Managing, Accepting, Filling
    <2> QED
        BY <2>1, <2>3, <2>4, <2>5, InviteStep
<1>3. CASE UNCHANGED invite /\ Step(r, "grant")
    <2>1. "grant" \in Words
        BY DEF Words
    <2>2. /\ OnlyJob(r) /\ job'[r] \in JobRows /\ job'[r].at = "grant" /\ job'[r].user = job[r].user
          /\ job'[r].account = job[r].account /\ job'[r].role = job[r].role /\ job'[r].invite = i
        BY <1>3, <2>1, SteppedJob
    <2>3. UNCHANGED <<mail, token, session, issued, role, owner, accounts, founder, barred, overwritten>>
        BY DEF LookForMembership, people
    <2>4. JobReady(job[r])'
        BY <1>1, <2>2, <2>3 DEF JobReady, Ready, Needs, Signing, Managing, Accepting, Filling
    <2>5. i \notin barred
        BY DEF LookForMembership, IInv, RemovalIsFinal
    <2> QED
        BY <1>3, <2>2, <2>3, <2>4, <2>5, QuietStep DEF IInv, Rows
<1> QED
    BY <1>2, <1>3 DEF LookForMembership

LEMMA Marking ==
    ASSUME MembersAssumption, IInv, NEW r \in Requests, MarkGranted(r)
    PROVE  IInv'
<1> DEFINE i == job[r].invite
<1>1. i \in Invites /\ (Minted(i) => invite[i].given)
    BY WaitingJob DEF MarkGranted, Ready, Needs, Accepting
<1>2. /\ invite' \in [Invites -> InviteRows \cup {Absent}]
      /\ \A k \in Invites : Minted(k)' =>
             /\ Minted(k) /\ invite'[k].account = invite[k].account
             /\ invite[k].given => invite'[k].given
             /\ invite[k].granted => invite'[k].granted
             /\ invite'[k].granted => invite'[k].given
             /\ invite[k].user # Nobody => invite'[k].user = invite[k].user
    BY <1>1, GrantedRows DEF MarkGranted
<1>3. OnlyJob(r) /\ job'[r] \in JobRows /\ JobReady(job[r])'
      /\ job'[r].at \notin {"save_user", "look_member", "grant"}
    BY EndedJob DEF MarkGranted
<1> QED
    BY <1>2, <1>3, InviteStep DEF MarkGranted, people

LEMMA InvitesAge ==
    ASSUME MembersAssumption, IInv, NEW i \in Invites, InviteAges(i)
    PROVE  IInv'
<1>1. UNCHANGED <<mail, token, session, issued, job, role, owner, accounts, founder, barred, overwritten>>
    BY DEF InviteAges, people
<1>2. invite[i] \in InviteRows /\ Minted(i)
    BY DEF InviteAges, Minted, IInv, Rows
<1>3. (invite[i].granted => invite[i].given)
    BY <1>2 DEF IInv, InvitesInv
<1>4. PICK row \in InviteRows :
         /\ invite' = [invite EXCEPT ![i] = row] /\ row.account = invite[i].account
         /\ row.granted = invite[i].granted /\ row.given = invite[i].given /\ row.user = invite[i].user
    <2>1. CASE invite' = [invite EXCEPT ![i].late = TRUE]
        BY <1>2, <2>1, InviteRowsAreRows
    <2>2. CASE invite' = [invite EXCEPT ![i].closed = TRUE]
        BY <1>2, <2>2, InviteRowsAreRows
    <2> QED
        BY <2>1, <2>2 DEF InviteAges
<1>5. /\ invite' \in [Invites -> InviteRows \cup {Absent}]
      /\ \A k \in Invites : Minted(k)' =>
             /\ Minted(k) /\ invite'[k].account = invite[k].account
             /\ invite[k].given => invite'[k].given
             /\ invite[k].granted => invite'[k].granted
             /\ invite'[k].granted => invite'[k].given
             /\ invite[k].user # Nobody => invite'[k].user = invite[k].user
    BY <1>2, <1>3, <1>4, Rewriting
<1>6. Later
    BY <1>1, <1>5 DEF Later, Open
<1>7. Rows' /\ IssuedInv'
    BY <1>1, <1>5 DEF IInv, Rows, IssuedInv, Known, Open
<1>8. JobsInv'
    <2>1. \A j \in JobRows : JobReady(j) => JobReady(j)'
        BY <1>6, ReadyLasts
    <2> QED
        BY <1>1, <2>1 DEF IInv, Rows, JobsInv
<1>9. NewUsersInv' /\ RemovalIsFinal' /\ SessionsNameTheirUser'
    BY <1>1 DEF IInv, NewUsersInv, RemovalIsFinal, SessionsNameTheirUser, Known, Open
<1>10. AccountsInv'
    BY <1>1 DEF IInv, AccountsInv, Held, Member, OneOwnAccount, EveryAccountKeepsAnAdmin, Admins
<1>11. InvitesInv'
    BY <1>1, <1>5 DEF IInv, InvitesInv
<1> QED
    BY <1>7, <1>8, <1>9, <1>10, <1>11 DEF IInv

-----------------------------------------------------------------------------
(* Steps that change accounts, members and libraries.                       *)
LEMMA AccountStep ==
    ASSUME MembersAssumption, IInv, NEW r \in Requests, OnlyJob(r), job'[r] \in JobRows, JobReady(job[r])',
           job'[r].at \notin {"save_user", "look_member", "grant"},
           role' \in [Users -> [Accounts -> Roles \cup {Nobody}]],
           owner' \in [Libraries -> Accounts \cup {Nobody}],
           accounts' \subseteq Accounts, accounts \subseteq accounts',
           founder' \in [Accounts -> Users \cup {Nobody}],
           \A l \in Libraries : owner'[l] # Nobody => l \in issued',
           accounts' \subseteq issued', issued \subseteq issued',
           AccountsInv',
           UNCHANGED <<mail, token, session, invite, barred>>
    PROVE  IInv'
<1>1. Later
    BY DEF Later, Open, Minted
<1>2. job' \in [Requests -> JobRows] /\ JobsInv'
    BY <1>1, JobsStep DEF IInv, Rows
<1>3. NewUsersInv' /\ RemovalIsFinal'
    BY NewUsersStep, FinalStep DEF IInv, Rows
<1>4. Rows' /\ IssuedInv'
    BY <1>2 DEF IInv, Rows, IssuedInv, Known, Open, Minted
<1>5. SessionsNameTheirUser' /\ InvitesInv'
    BY DEF IInv, SessionsNameTheirUser, Known, Open, InvitesInv, Minted
<1> QED
    BY <1>2, <1>3, <1>4, <1>5 DEF IInv

(* A step that gives, changes or takes the role of one user in one account. *)
Recast(u, a, to) == [role EXCEPT ![u][a] = to]

LEMMA OneRoleChanges ==
    ASSUME IInv, NEW u \in Users, NEW a \in accounts, NEW to \in Roles \cup {Nobody},
           role' = Recast(u, a, to)
    PROVE  /\ role' \in [Users -> [Accounts -> Roles \cup {Nobody}]]
           /\ role'[u][a] = to
           /\ \A v \in Users, b \in Accounts : v # u \/ b # a => role'[v][b] = role[v][b]
BY DEF IInv, Rows, Recast

LEMMA Minting ==
    ASSUME MembersAssumption, IInv, NEW r \in Requests, MintFirstAccount(r)
    PROVE  IInv'
<1> DEFINE u == job[r].user
<1>1. job[r] \in JobRows /\ u \in Users
    BY WaitingJob DEF MintFirstAccount, Founded, LibraryAdded, Ready, Needs, Filling
<1>2. UNCHANGED <<mail, token, session, invite, barred, overwritten>>
    BY DEF MintFirstAccount, Founded, LibraryAdded
<1>3. CASE HeldByNow(u) # {}
    <2>1. PICK a \in Accounts : Member(u, a) /\ CountIfAdmin(r, a)
        BY <1>3 DEF MintFirstAccount, Founded, LibraryAdded, HeldByNow, AccountsOf
    <2>2. a \in accounts
        BY <1>1, <2>1 DEF IInv, AccountsInv
    <2>3. UNCHANGED <<role, owner, accounts, founder, issued>>
        BY <1>3 DEF MintFirstAccount, Founded, LibraryAdded
    <2>4. /\ OnlyJob(r) /\ job'[r] \in JobRows /\ JobReady(job[r])'
          /\ job'[r].at \notin {"save_user", "look_member", "grant"}
        BY <1>1, <2>1, <2>2, <2>3, CountedJob
    <2> QED
        BY <1>2, <2>3, <2>4, QuietStep DEF IInv, Rows
<1>4. CASE HeldByNow(u) = {}
    <2>1. PICK a \in Accounts, l \in Libraries :
             /\ a \notin issued /\ l \notin issued
             /\ accounts' = accounts \cup {a} /\ issued' = issued \cup {a, l}
             /\ role' = [role EXCEPT ![u][a] = "admin"]
             /\ owner' = [owner EXCEPT ![l] = a]
             /\ founder' = [founder EXCEPT ![a] = u]
             /\ Ends(r)
        BY <1>4 DEF MintFirstAccount, Founded, LibraryAdded, Fresh
    <2>2. \A b \in Accounts : ~Member(u, b)
        BY <1>4 DEF HeldByNow, AccountsOf
    <2>3. a \notin accounts /\ owner[l] = Nobody
        BY <2>1 DEF IInv, IssuedInv
    <2> HIDE DEF u
    <2>4. /\ role' \in [Users -> [Accounts -> Roles \cup {Nobody}]]
          /\ role'[u][a] = "admin"
          /\ \A v \in Users, b \in Accounts : v # u \/ b # a => role'[v][b] = role[v][b]
        BY <1>1, <2>1 DEF IInv, Rows, Roles
    <2>5. /\ owner' \in [Libraries -> Accounts \cup {Nobody}]
          /\ owner'[l] = a /\ \A k \in Libraries : k # l => owner'[k] = owner[k]
        BY <2>1 DEF IInv, Rows
    <2>6. /\ founder' \in [Accounts -> Users \cup {Nobody}]
          /\ founder'[a] = u /\ \A b \in Accounts : b # a => founder'[b] = founder[b]
        BY <1>1, <2>1 DEF IInv, Rows
    <2>7. accounts \subseteq Accounts /\ AccountsInv
        BY DEF IInv, Rows
    <2>8. AccountsInv'
        <3>1. \A b \in Accounts : b \notin accounts' => Held(b)' = {} /\ \A v \in Users : ~Member(v, b)'
            BY <2>1, <2>4, <2>5, <2>7 DEF AccountsInv, Held, Member
        <3>2. OneOwnAccount'
            <4>1. \A b \in accounts : founder[b] # u
                BY <1>1, <2>2, <2>7, MembersAssumption DEF AccountsInv, MembersAssumption
            <4>2. OneOwnAccount
                BY <2>7 DEF AccountsInv
            <4> QED
                BY <2>1, <2>3, <2>6, <2>7, <4>1, <4>2 DEF OneOwnAccount
        <3>3. \A b \in accounts' : founder'[b] # Nobody => Member(founder[b], b)'
            <4>1. ASSUME NEW b \in accounts', founder'[b] # Nobody PROVE role'[founder'[b]][b] # Nobody
                <5>1. CASE b = a
                    BY <2>4, <2>6, <5>1, MembersAssumption DEF MembersAssumption, Roles
                <5>2. CASE b # a
                    <6>1. b \in accounts /\ b \in Accounts /\ founder'[b] = founder[b] /\ founder[b] \in Users
                        BY <2>1, <2>6, <2>7, <4>1, <5>2 DEF IInv, Rows
                    <6>2. role[founder[b]][b] # Nobody
                        BY <2>7, <4>1, <6>1 DEF AccountsInv, Member
                    <6> QED
                        BY <2>4, <5>2, <6>1, <6>2
                <5> QED
                    BY <5>1, <5>2
            <4> QED
                BY <4>1 DEF Member
        <3>4. EveryAccountKeepsAnAdmin'
            <4>1. ASSUME NEW b \in accounts' \ overwritten' PROVE Admins(b)' # {} /\ Held(b)' # {}
                <5>1. CASE b = a
                    BY <1>1, <2>4, <2>5, <5>1 DEF Admins, Held
                <5>2. CASE b # a
                    <6>1. b \in accounts \ overwritten /\ b \in Accounts
                        BY <1>2, <2>1, <2>7, <4>1, <5>2
                    <6>2. PICK v \in Users, k \in Libraries : role[v][b] = "admin" /\ owner[k] = b
                        BY <2>7, <6>1 DEF AccountsInv, EveryAccountKeepsAnAdmin, Admins, Held
                    <6>3. role'[v][b] = "admin" /\ owner'[k] = b
                        BY <2>3, <2>4, <2>5, <5>2, <6>1, <6>2, MembersAssumption DEF MembersAssumption
                    <6> QED
                        BY <6>3 DEF Admins, Held
                <5> QED
                    BY <5>1, <5>2
            <4> QED
                BY <4>1 DEF EveryAccountKeepsAnAdmin
        <3> QED
            BY <3>1, <3>2, <3>3, <3>4 DEF AccountsInv
    <2>9. \A k \in Libraries : owner'[k] # Nobody => k \in issued'
        BY <2>1, <2>5 DEF IInv, IssuedInv
    <2>10. accounts' \subseteq issued' /\ accounts' \subseteq Accounts
        BY <2>1, <2>7 DEF IInv, IssuedInv
    <2> QED
        BY <1>2, <2>1, <2>4, <2>5, <2>6, <2>8, <2>9, <2>10, EndedJob, AccountStep
<1> QED
    BY <1>3, <1>4

LEMMA AddingALibrary ==
    ASSUME MembersAssumption, IInv, NEW r \in Requests, SaveLibrary(r)
    PROVE  IInv'
<1> DEFINE a == job[r].account
<1>1. a \in accounts
    BY WaitingJob DEF SaveLibrary, LibraryAdded, Ready, Needs
<1>2. PICK l \in Libraries : /\ l \notin issued /\ issued' = issued \cup {l}
                             /\ owner' = [owner EXCEPT ![l] = a] /\ Ends(r)
    BY DEF SaveLibrary, LibraryAdded, Fresh
<1>3. UNCHANGED <<mail, token, session, role, accounts, invite, founder, barred, overwritten>>
    BY DEF SaveLibrary, LibraryAdded
<1>4. owner[l] = Nobody /\ accounts \subseteq Accounts /\ AccountsInv
    BY <1>2 DEF IInv, IssuedInv, Rows
<1> HIDE DEF a
<1>5. /\ owner' \in [Libraries -> Accounts \cup {Nobody}]
      /\ owner'[l] = a /\ \A k \in Libraries : k # l => owner'[k] = owner[k]
    BY <1>1, <1>2, <1>4 DEF IInv, Rows
<1>6. AccountsInv'
    <2>1. \A b \in Accounts : b \notin accounts' => Held(b)' = {} /\ \A v \in Users : ~Member(v, b)'
        BY <1>1, <1>3, <1>4, <1>5 DEF AccountsInv, Held, Member
    <2>2. OneOwnAccount' /\ \A b \in accounts' : founder'[b] # Nobody => Member(founder[b], b)'
        BY <1>3, <1>4 DEF AccountsInv, OneOwnAccount, Member
    <2>3. EveryAccountKeepsAnAdmin'
        <3>1. ASSUME NEW b \in accounts \ overwritten PROVE Held(b)' # {}
            <4>1. b \in Accounts /\ b # Nobody
                BY <1>4, <3>1, MembersAssumption DEF MembersAssumption
            <4>2. PICK k \in Libraries : owner[k] = b
                BY <1>4, <3>1 DEF AccountsInv, EveryAccountKeepsAnAdmin, Held
            <4>3. owner'[k] = b
                BY <1>4, <1>5, <4>1, <4>2
            <4> QED
                BY <4>3 DEF Held
        <3> QED
            BY <1>3, <1>4, <3>1 DEF AccountsInv, EveryAccountKeepsAnAdmin, Admins
    <2> QED
        BY <2>1, <2>2, <2>3 DEF AccountsInv
<1>7. \A k \in Libraries : owner'[k] # Nobody => k \in issued'
    BY <1>2, <1>5 DEF IInv, IssuedInv
<1>8. /\ role' \in [Users -> [Accounts -> Roles \cup {Nobody}]] /\ accounts' \subseteq Accounts
      /\ founder' \in [Accounts -> Users \cup {Nobody}] /\ accounts' \subseteq issued' /\ issued \subseteq issued'
    BY <1>2, <1>3 DEF IInv, Rows, IssuedInv
<1> QED
    BY <1>2, <1>3, <1>5, <1>6, <1>7, <1>8, EndedJob, AccountStep

(* Members whose role changes, who come or who leave: the account keeps its *)
(* rules as long as someone is an admin and a founder stays a member.       *)
LEMMA RolesChange ==
    ASSUME MembersAssumption, IInv, NEW u \in Users, NEW a \in accounts, NEW to \in Roles \cup {Nobody},
           role' = Recast(u, a, to),
           UNCHANGED <<owner, accounts>>,
           \/ founder' = founder /\ to # Nobody
           \/ founder' = [founder EXCEPT ![a] = IF @ = u THEN Nobody ELSE @],
           overwritten \subseteq overwritten',
           a \notin overwritten' => Admins(a)' # {}
    PROVE  AccountsInv'
<1>1. /\ role'[u][a] = to
      /\ \A v \in Users, b \in Accounts : v # u \/ b # a => role'[v][b] = role[v][b]
    BY OneRoleChanges
<1>2. AccountsInv /\ accounts \subseteq Accounts /\ founder \in [Accounts -> Users \cup {Nobody}]
    BY DEF IInv, Rows
<1>3. \A b \in Accounts : b \notin accounts' => Held(b)' = {} /\ \A v \in Users : ~Member(v, b)'
    BY <1>1, <1>2 DEF AccountsInv, Held, Member
<1>4. \A b \in Accounts : founder'[b] # Nobody =>
         founder'[b] = founder[b] /\ (b = a /\ founder[b] = u => to # Nobody)
    BY <1>2
<1>5. OneOwnAccount'
    BY <1>2, <1>4 DEF AccountsInv, OneOwnAccount
<1>6. \A b \in accounts' : founder'[b] # Nobody => Member(founder[b], b)'
    <2>1. ASSUME NEW b \in accounts, founder'[b] # Nobody PROVE role'[founder'[b]][b] # Nobody
        <3>1. b \in Accounts /\ founder'[b] = founder[b] /\ founder[b] \in Users /\ role[founder[b]][b] # Nobody
            BY <1>2, <1>4, <2>1 DEF AccountsInv, Member
        <3> QED
            BY <1>1, <1>4, <2>1, <3>1
    <2> QED
        BY <2>1 DEF Member
<1>7. EveryAccountKeepsAnAdmin'
    <2>1. ASSUME NEW b \in accounts \ overwritten' PROVE Admins(b)' # {} /\ Held(b)' # {}
        <3>1. b \in Accounts /\ b \notin overwritten /\ Held(b) # {} /\ Admins(b) # {}
            BY <1>2, <2>1 DEF AccountsInv, EveryAccountKeepsAnAdmin
        <3>2. Held(b)' # {}
            BY <3>1 DEF Held
        <3>3. b # a => Admins(b)' # {}
            BY <1>1, <3>1 DEF Admins
        <3> QED
            BY <2>1, <3>2, <3>3
    <2> QED
        BY <2>1 DEF EveryAccountKeepsAnAdmin
<1> QED
    BY <1>3, <1>5, <1>6, <1>7 DEF AccountsInv

LEMMA ChangingARole ==
    ASSUME MembersAssumption, IInv, NEW r \in Requests, ChangeMemberRole(r)
    PROVE  IInv'
<1> DEFINE u == job[r].target
           a == job[r].account
           to == job[r].role
<1>1. u \in Users /\ a \in accounts /\ to \in Roles
    BY WaitingJob DEF ChangeMemberRole, Ready, Needs, Managing
<1>2. UNCHANGED <<mail, token, session, issued, owner, accounts, invite, founder, barred, overwritten>> /\ Ends(r)
    BY DEF ChangeMemberRole, people
<1>3. /\ OnlyJob(r) /\ job'[r] \in JobRows /\ JobReady(job[r])'
      /\ job'[r].at \notin {"save_user", "look_member", "grant"}
    BY <1>2, EndedJob
<1>4. CASE role' = role
    BY <1>2, <1>3, <1>4, QuietStep DEF IInv, Rows
<1>5. CASE Member(u, a) /\ ~(to # "admin" /\ LastAdmin(u, a)) /\ role' = Recast(u, a, to)
    <2> HIDE DEF u, a, to
    <2>1. /\ role' \in [Users -> [Accounts -> Roles \cup {Nobody}]] /\ role'[u][a] = to
          /\ \A v \in Users, b \in Accounts : v # u \/ b # a => role'[v][b] = role[v][b]
        BY <1>1, <1>5, OneRoleChanges
    <2>2. a \in Accounts /\ accounts \subseteq Accounts
        BY <1>1 DEF IInv, Rows
    <2>3. a \notin overwritten => \E v \in Users : role'[v][a] = "admin"
        <3>1. CASE to = "admin"
            BY <1>1, <2>1, <3>1
        <3>2. CASE Admins(a) # {u} /\ a \notin overwritten
            <4>1. PICK v \in Users : v # u /\ role[v][a] = "admin"
                BY <1>1, <3>2 DEF IInv, AccountsInv, EveryAccountKeepsAnAdmin, Admins
            <4> QED
                BY <2>1, <2>2, <4>1
        <3> QED
            BY <1>5, <3>1, <3>2 DEF LastAdmin
    <2>4. AccountsInv'
        <3>1. to # Nobody
            BY <1>1, MembersAssumption DEF MembersAssumption
        <3>2. a \notin overwritten' => {v \in Users : role'[v][a] = "admin"} # {}
            BY <1>2, <2>3
        <3> QED
            BY <1>1, <1>2, <1>5, <3>1, <3>2, RolesChange DEF Admins
    <2>5. /\ owner' \in [Libraries -> Accounts \cup {Nobody}] /\ accounts' \subseteq Accounts
          /\ founder' \in [Accounts -> Users \cup {Nobody}]
          /\ \A l \in Libraries : owner'[l] # Nobody => l \in issued'
          /\ accounts' \subseteq issued'
        BY <1>2 DEF IInv, Rows, IssuedInv
    <2> QED
        BY <1>2, <1>3, <2>1, <2>4, <2>5, AccountStep
<1> QED
    BY <1>4, <1>5 DEF ChangeMemberRole, Recast

LEMMA RemovingAMember ==
    ASSUME MembersAssumption, IInv, NEW r \in Requests, RemoveMember(r)
    PROVE  IInv'
<1> DEFINE u == job[r].target
           a == job[r].account
<1>1. u \in Users /\ a \in accounts
    BY WaitingJob DEF RemoveMember, Ready, Needs, Managing
<1>2. UNCHANGED <<mail, token, session, issued, owner, accounts, invite, overwritten>> /\ Ends(r)
    BY DEF RemoveMember, people
<1>3. /\ OnlyJob(r) /\ job'[r] \in JobRows /\ JobReady(job[r])'
      /\ job'[r].at \notin {"save_user", "look_member", "grant"}
    BY <1>2, EndedJob
<1>4. CASE UNCHANGED <<role, barred, founder>>
    BY <1>2, <1>3, <1>4, QuietStep DEF IInv, Rows
<1>5. CASE /\ ~LastAdmin(u, a) /\ role' = Recast(u, a, Nobody)
           /\ barred' = barred \cup DoneWith(u, a)
           /\ founder' = [founder EXCEPT ![a] = IF @ = u THEN Nobody ELSE @]
    <2> HIDE DEF u, a
    <2>1. /\ role' \in [Users -> [Accounts -> Roles \cup {Nobody}]] /\ role'[u][a] = Nobody
          /\ \A v \in Users, b \in Accounts : v # u \/ b # a => role'[v][b] = role[v][b]
        BY <1>1, <1>5, OneRoleChanges
    <2>2. a \in Accounts
        BY <1>1 DEF IInv, Rows
    <2>3. a \notin overwritten => \E v \in Users : role'[v][a] = "admin"
        <3>1. ASSUME a \notin overwritten PROVE \E v \in Users : role'[v][a] = "admin"
            <4>1. PICK v \in Users : v # u /\ role[v][a] = "admin"
                BY <1>1, <1>5, <3>1 DEF IInv, AccountsInv, EveryAccountKeepsAnAdmin, Admins, LastAdmin
            <4> QED
                BY <2>1, <2>2, <4>1
        <3> QED
            BY <3>1
    <2>4. AccountsInv'
        <3>1. a \notin overwritten' => {v \in Users : role'[v][a] = "admin"} # {}
            BY <1>2, <2>3
        <3> QED
            BY <1>1, <1>2, <1>5, <3>1, RolesChange DEF Admins
    <2>5. Later
        BY <1>2 DEF Later, Open, Minted
    <2>6. job' \in [Requests -> JobRows] /\ JobsInv' /\ NewUsersInv'
        BY <1>2, <1>3, <2>5, JobsStep, NewUsersStep DEF IInv, Rows
    <2>7. founder' \in [Accounts -> Users \cup {Nobody}]
        BY <1>1, <1>5, <2>2 DEF IInv, Rows
    <2>8. Rows' /\ IssuedInv' /\ SessionsNameTheirUser'
        BY <1>2, <2>1, <2>6, <2>7 DEF IInv, Rows, IssuedInv, SessionsNameTheirUser, Known, Open, Minted
    <2>9. InvitesInv'
        <3>1. \A i \in Invites : i \in DoneWith(u, a) =>
                 i \in issued /\ Minted(i) /\ invite[i].granted /\ invite[i].user # Nobody
            BY <1>1, MembersAssumption DEF DoneWith, IInv, IssuedInv, MembersAssumption
        <3> QED
            BY <1>2, <1>5, <3>1 DEF IInv, InvitesInv, Minted
    <2>10. RemovalIsFinal'
        <3>1. \A q \in Requests : job'[q].at \in {"look_member", "grant"} => q # r /\ job'[q] = job[q]
            BY <1>3 DEF OnlyJob, IInv, Rows
        <3>2. \A q \in Requests : job[q].at \in {"look_member", "grant"} => job[q].invite \notin DoneWith(u, a)
            BY DEF DoneWith
        <3> QED
            BY <1>5, <3>1, <3>2 DEF IInv, RemovalIsFinal
    <2> QED
        BY <2>4, <2>6, <2>8, <2>9, <2>10 DEF IInv
<1> QED
    BY <1>4, <1>5 DEF RemoveMember, Recast

LEMMA Granting ==
    ASSUME MembersAssumption, IInv, NEW r \in Requests, SaveMembership(r)
    PROVE  IInv'
<1> DEFINE i == job[r].invite
           u == job[r].user
           a == job[r].account
           to == job[r].role
<1>1. i \in Invites /\ i \in issued /\ u \in Users /\ a \in accounts /\ to \in Roles
    BY WaitingJob DEF SaveMembership, Ready, Needs, Accepting
<1>2. /\ UNCHANGED <<mail, token, session, issued, owner, accounts, founder, barred>>
      /\ role' = Recast(u, a, to) /\ invite' = Given(i) /\ Step(r, "mark")
      /\ overwritten' = IF Member(u, a) THEN overwritten \cup {a} ELSE overwritten
    BY DEF SaveMembership, people, Recast
<1>3. /\ invite' \in [Invites -> InviteRows \cup {Absent}]
      /\ invite'[i] # Absent => invite'[i].given
      /\ \A k \in Invites : Minted(k)' =>
             /\ Minted(k) /\ invite'[k].account = invite[k].account
             /\ invite[k].given => invite'[k].given
             /\ invite[k].granted => invite'[k].granted
             /\ invite'[k].granted => invite'[k].given
             /\ invite[k].user # Nobody => invite'[k].user = invite[k].user
    BY <1>1, <1>2, GivenRows
<1>4. "mark" \in Words
    BY DEF Words
<1>5. /\ OnlyJob(r) /\ job'[r] \in JobRows /\ job'[r].at = "mark" /\ job'[r].user = u
      /\ job'[r].account = a /\ job'[r].invite = i
    BY <1>2, <1>4, SteppedJob
<1> HIDE DEF i, u, a, to
<1>6. JobReady(job[r])'
    BY <1>1, <1>2, <1>3, <1>5 DEF JobReady, Ready, Needs, Minted, Signing, Managing, Accepting, Filling
<1>7. Later
    BY <1>2, <1>3 DEF Later, Open
<1>8. job' \in [Requests -> JobRows] /\ JobsInv' /\ NewUsersInv' /\ RemovalIsFinal'
    BY <1>2, <1>5, <1>6, <1>7, JobsStep, NewUsersStep, FinalStep DEF IInv, Rows
<1>9. /\ role' \in [Users -> [Accounts -> Roles \cup {Nobody}]] /\ role'[u][a] = to
      /\ \A v \in Users, b \in Accounts : v # u \/ b # a => role'[v][b] = role[v][b]
    BY <1>1, <1>2, OneRoleChanges
<1>10. Rows' /\ SessionsNameTheirUser'
    BY <1>2, <1>3, <1>8, <1>9 DEF IInv, Rows, SessionsNameTheirUser, Known, Open
<1>11. IssuedInv' /\ InvitesInv'
    BY <1>2, <1>3 DEF IInv, IssuedInv, InvitesInv, Known, Open
<1>12. AccountsInv'
    <2>1. to # Nobody /\ a \in Accounts
        BY <1>1, MembersAssumption DEF MembersAssumption, IInv, Rows
    <2>2. ASSUME a \notin overwritten' PROVE \E v \in Users : role'[v][a] = "admin"
        <3>1. a \notin overwritten /\ ~Member(u, a)
            BY <1>2, <2>2
        <3>2. PICK v \in Users : role[v][a] = "admin"
            BY <1>1, <3>1 DEF IInv, AccountsInv, EveryAccountKeepsAnAdmin, Admins
        <3>3. v # u
            BY <3>1, <3>2, MembersAssumption DEF Member, Roles, MembersAssumption
        <3> QED
            BY <1>9, <2>1, <3>2, <3>3
    <2>3. a \notin overwritten' => {v \in Users : role'[v][a] = "admin"} # {}
        BY <2>2
    <2> QED
        BY <1>1, <1>2, <2>1, <2>3, RolesChange DEF Admins
<1> QED
    BY <1>8, <1>10, <1>11, <1>12 DEF IInv

-----------------------------------------------------------------------------
LEMMA Crashing ==
    ASSUME MembersAssumption, IInv, Crash
    PROVE  IInv'
<1>1. UNCHANGED <<mail, token, session, issued, role, owner, accounts, invite, founder, barred, overwritten>>
    BY DEF Crash, people, tenancy
<1>2. job' \in [Requests -> JobRows] /\ \A r \in Requests : job'[r] = Idle
    BY IdleIsReady DEF Crash
<1>3. JobsInv'
    BY <1>2, IdleIsReady DEF JobsInv, JobReady, Ready, Needs, Signing, Managing, Accepting, Filling
<1>4. NewUsersInv' /\ RemovalIsFinal'
    BY <1>2, IdleIsReady DEF NewUsersInv, RemovalIsFinal
<1>5. Rows' /\ IssuedInv' /\ SessionsNameTheirUser'
    BY <1>1, <1>2 DEF IInv, Rows, IssuedInv, SessionsNameTheirUser, Known, Open, Minted
<1>6. AccountsInv' /\ InvitesInv'
    BY <1>1 DEF IInv, AccountsInv, Held, Member, OneOwnAccount, EveryAccountKeepsAnAdmin, Admins, InvitesInv, Minted
<1> QED
    BY <1>3, <1>4, <1>5, <1>6 DEF IInv

LEMMA SoundFromTheStart ==
    ASSUME MembersAssumption, Init
    PROVE  IInv
<1>1. SoundStart(play)
    BY DEF Init, MembersAssumption
<1>2. \A r \in Requests : job[r] = Idle
    BY DEF Init
<1>3. Rows
    BY <1>1, IdleIsReady DEF Init, Rows, SoundStart
<1>4. \A a \in Accounts : a \in accounts <=> \E l \in Libraries : owner[l] = a
    BY DEF Init
<1>5. IssuedInv
    BY <1>3 DEF Init, IssuedInv, Known, Open, Minted
<1>6. JobsInv
    BY <1>2, IdleIsReady DEF JobsInv
<1>7. NewUsersInv /\ RemovalIsFinal
    BY <1>2, IdleIsReady DEF NewUsersInv, RemovalIsFinal
<1>8. SessionsNameTheirUser
    <2>1. \A u, v \in Users : Known(u) /\ mail[u] = mail[v] => u = v
        BY <1>1 DEF Init, SoundStart, Known
    <2>2. ASSUME NEW s \in Sessions, Open(s)
          PROVE  Known(session[s].user) /\ mail[session[s].user] = session[s].mail
        <3>1. mail[session[s].user] = session[s].mail
            BY <1>1, <2>2 DEF Init, SoundStart, Open
        <3>2. session[s].mail \in Mails
            BY <1>3, <2>2 DEF Rows, SessionRows, Open
        <3> QED
            BY <3>1, <3>2 DEF Known, MembersAssumption
    <2> QED
        BY <2>1, <2>2 DEF SessionsNameTheirUser
<1>9. AccountsInv
    <2>1. role = play.role /\ owner = play.owner /\ founder = play.founder
        BY DEF Init
    <2>2. \A a \in Accounts : a \notin accounts => Held(a) = {} /\ \A u \in Users : ~Member(u, a)
        BY <1>1, <1>4, <2>1 DEF SoundStart, Held, Member
    <2>3. OneOwnAccount
        BY <1>1, <1>3, <2>1 DEF SoundStart, OneOwnAccount, Rows
    <2>4. \A a \in accounts : founder[a] # Nobody => Member(founder[a], a)
        BY <1>1, <1>3, <1>4, <2>1 DEF SoundStart, Member, Rows
    <2>5. EveryAccountKeepsAnAdmin
        BY <1>1, <1>3, <1>4, <2>1 DEF SoundStart, EveryAccountKeepsAnAdmin, Admins, Held, Rows
    <2> QED
        BY <2>2, <2>3, <2>4, <2>5 DEF AccountsInv
<1>10. InvitesInv
    <2>1. invite = play.invite /\ owner = play.owner /\ barred = {}
        BY DEF Init
    <2>2. \A i \in Invites : Minted(i) => invite[i].account \in Accounts
        BY <1>3 DEF Rows, InviteRows, Minted
    <2> QED
        BY <1>1, <1>4, <2>1, <2>2 DEF SoundStart, InvitesInv, Minted
<1> QED
    BY <1>3, <1>5, <1>6, <1>7, <1>8, <1>9, <1>10 DEF IInv

(* Every step of every request keeps the invariant.                         *)
LEMMA EveryStepKeepsIt ==
    ASSUME MembersAssumption, IInv, [Next]_vars
    PROVE  IInv'
<1>1. CASE UNCHANGED vars
    BY <1>1 DEF vars, people, tenancy, IInv, Rows, IssuedInv, JobsInv, JobReady, Ready, Needs, NewUsersInv,
        SessionsNameTheirUser, AccountsInv, InvitesInv, RemovalIsFinal, Known, Open, Minted, Held, Member,
        OneOwnAccount, EveryAccountKeepsAnAdmin, Admins
<1>2. ASSUME NEW r \in Requests, SignsIn(r), UNCHANGED tenancy PROVE IInv'
    BY <1>2, LinksAndStates, RedeemingATicket, LookingUp, SavingAUser, SavingASession, SigningOut, AsksToBegin,
       Rolling, DoneIsDone DEF SignsIn
<1>3. ASSUME NEW r \in Requests, BeginLibrary(r) \/ BeginManage(r) \/ BeginRevoke(r) \/ BeginAccept(r) PROVE IInv'
    <2>1. UNCHANGED tenancy
        BY <1>3 DEF BeginLibrary, BeginManage, BeginRevoke, BeginAccept
    <2> QED
        BY <1>3, <2>1, AsksToBegin
<1>4. ASSUME NEW r \in Requests,
             \/ Resolve(r) \/ MintFirstAccount(r) \/ CountLibraries(r) \/ SaveLibrary(r) \/ AdminAccount(r)
             \/ ChangeMemberRole(r) \/ RemoveMember(r)
      PROVE  IInv'
    BY <1>4, LookingOnly, Minting, AddingALibrary, ChangingARole, RemovingAMember
<1>5. ASSUME NEW r \in Requests,
             \/ PurgeInvites(r) \/ SaveInvite(r) \/ RevokeInvite(r) \/ ConsumeInvite(r) \/ FinishInvite(r)
             \/ LookForMembership(r) \/ SaveMembership(r) \/ MarkGranted(r)
      PROVE  IInv'
    BY <1>5, MakingInvites, Consuming, Finishing, LookingForMembership, Granting, Marking
<1>6. CASE (TimePasses /\ UNCHANGED tenancy) \/ (\E i \in Invites : InviteAges(i)) \/ Crash
    BY <1>6, TimeStep, InvitesAge, Crashing
<1> QED
    BY <1>1, <1>2, <1>3, <1>4, <1>5, <1>6 DEF Next

LEMMA AlwaysSound == Spec => []IInv
<1>1. Init => IInv
    BY SoundFromTheStart, MembersAssumption
<1>2. IInv /\ [Next]_vars => IInv'
    BY EveryStepKeepsIt, MembersAssumption
<1> QED
    BY <1>1, <1>2, PTL DEF Spec

-----------------------------------------------------------------------------
(* Between any two calls of any requests, whatever crashed: the rows have   *)
(* their shapes, a session is its user's, nobody has two accounts of their  *)
(* own, and every account nobody's membership was overwritten in has an     *)
(* admin (members.py, libraries.py, auth.py).                               *)
THEOREM AccountsStaySound == Spec => []AccountsAreSound
<1>1. IInv => AccountsAreSound
    BY DEF IInv, Rows, AccountsInv, InvitesInv, AccountsAreSound, TypeOK
<1> QED
    BY <1>1, AlwaysSound, PTL

(* An invite that was granted and done with when its user was removed never *)
(* gets as far as a grant again (members.py accept_invite).                 *)
THEOREM RemovalsAreFinal == Spec => []RemovalIsFinal
<1>1. IInv => RemovalIsFinal
    BY DEF IInv
<1> QED
    BY <1>1, AlwaysSound, PTL

(* A consumed invite that has brought nobody in can be finished while its   *)
(* window lasts (members.py accept_invite).                                 *)
THEOREM AcceptancesCanBeFinished == Spec => []HalfAnAcceptanceCanBeFinished
<1>1. IInv => HalfAnAcceptanceCanBeFinished
    BY DEF IInv, InvitesInv, HalfAnAcceptanceCanBeFinished, MayFinish
<1> QED
    BY <1>1, AlwaysSound, PTL

(* A session that was signed out is never live again, though a request that *)
(* read it before saves it with a new end (sqlite_store.py save_session).   *)
THEOREM SignedOutForGood == Spec => SignedOutStaysOut
<1>1. ASSUME IInv, [Next]_vars, NEW s \in Sessions, Open(s) /\ session[s].revoked
      PROVE  session'[s].revoked
    <2>1. session[s] \in SessionRows /\ session \in [Sessions -> SessionRows \cup {Absent}] /\ s \in issued
        BY <1>1 DEF IInv, Rows, IssuedInv, Open
    <2>2. CASE UNCHANGED session
        BY <1>1, <2>2
    <2>3. ASSUME NEW r \in Requests, SaveSession(r) PROVE session'[s].revoked
        <3>1. PICK x \in Sessions : x \notin issued /\ \E row : session' = [session EXCEPT ![x] = row]
            BY <2>3 DEF SaveSession, Fresh
        <3> QED
            BY <1>1, <2>1, <3>1
    <2>4. ASSUME NEW r \in Requests, SignOut(r) PROVE session'[s].revoked
        BY <1>1, <2>1, <2>4 DEF SignOut, SignedOut, SessionRows
    <2>5. ASSUME NEW r \in Requests, RollSession(r) PROVE session'[s].revoked
        BY <1>1, <2>1, <2>5 DEF RollSession, RevokedAfterRoll, SessionRows
    <2>6. ASSUME NEW x \in Sessions, SessionAges(x) PROVE session'[s].revoked
        BY <1>1, <2>1, <2>6 DEF SessionAges, SessionRows
    <2>7. Next => \/ UNCHANGED session
                  \/ \E r \in Requests : SaveSession(r) \/ SignOut(r) \/ RollSession(r)
                  \/ \E x \in Sessions : SessionAges(x)
        BY DEF Next, SignsIn, RequestLink, SendLink, StartOauth, SaveState, Redeem, Callback, LookUpUser, SaveUser,
           Visit, Done, BeginLibrary, Resolve, MintFirstAccount, CountLibraries, SaveLibrary, BeginManage,
           BeginRevoke, AdminAccount, ChangeMemberRole, RemoveMember, PurgeInvites, SaveInvite, RevokeInvite,
           BeginAccept, ConsumeInvite, FinishInvite, LookForMembership, SaveMembership, MarkGranted,
           TimePasses, TokenAges, InviteAges, Crash, people
    <2>8. vars' = vars => UNCHANGED session
        BY DEF vars, people
    <2> QED
        BY <1>1, <2>2, <2>3, <2>4, <2>5, <2>6, <2>7, <2>8
<1>2. IInv /\ [Next]_vars => [\A s \in Sessions : Open(s) /\ session[s].revoked => session'[s].revoked]_vars
    BY <1>1
<1> QED
    BY <1>2, AlwaysSound, PTL DEF Spec, SignedOutStaysOut
=============================================================================
