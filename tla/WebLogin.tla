-------------------------------- MODULE WebLogin --------------------------------
(***************************************************************************)
(* Logging in with a browser: the OIDC flow and the legacy exchange of a   *)
(* Supabase token (internal/web, internal/auth/oidc), the users row a login *)
(* writes (internal/store), and what a session may do on the dashboard.    *)
(*                                                                         *)
(* The server keeps next to nothing: the state of a flow and the session   *)
(* are signed cookies in the browser, so what it may rely on is what the    *)
(* browsers send back, from any tab, late, twice, or into another browser.  *)
(* A callback takes several steps, and the browser goes on meanwhile.       *)
(***************************************************************************)
EXTENDS Naturals, Sequences, FiniteSets

CONSTANTS
    Browser,
    Account,      \* accounts at the identity provider, named by their subject
    Uuid,         \* those whose subject is a UUID, as at Supabase
    Confirmed,    \* those that have confirmed their e-mail address
    Mail,         \* e-mail addresses
    None,         \* no cookie, no account
    MayMigrate,   \* the operator may move from Supabase to OIDC
    MaxFlows,     \* bound of the model: OIDC logins
    MaxExchanges, \* bound of the model: exchanges being handled at once
    MaxPages,     \* bound of the model: CSRF tokens
    MaxChanges,   \* bound of the model: changes of address, restarts
    MaxFaults     \* bound of the model: failed calls to the provider or the database

ASSUME LoginBounds ==
    /\ MaxFlows \in Nat /\ MaxExchanges \in Nat /\ MaxPages \in Nat
    /\ MaxChanges \in Nat /\ MaxFaults \in Nat
    /\ MayMigrate \in BOOLEAN

ASSUME KindsOfAccount == Uuid \subseteq Account /\ Confirmed \subseteq Account

VARIABLES
    mode,      \* OIDC_ISSUER_URL of the running process: "oidc" or "legacy"
    provider,  \* providerOnce, providerInstance and providerErr
    users,     \* rows of the table
    mail,      \* mail[a]: the address the provider has for a
    jar,       \* jar[b]: the cookies ch_oidc, ch_session and ch_csrf
    flows,     \* the OIDC logins so far, as the provider knows them
    calls,     \* callbacks and exchanges being handled
    tabs,      \* tabs[b]: CSRF tokens in the forms of open pages
    tokens,    \* users that were handed an MCP token
    csrfs,     \* how many CSRF tokens were made
    changes,   \* how much of MaxChanges is used up
    faults,    \* how much of MaxFaults is used up
    unsure,    \* history: users whose commit was answered with an error
    retired    \* history: retired[b], the CSRF tokens made before b last logged out

vars == <<mode, provider, users, mail, jar, flows, calls, tabs, tokens, csrfs,
          changes, faults, unsure, retired>>

\* What only the environment, the pages or the history change.
Pages == <<tabs, csrfs, retired>>

Fault == faults < MaxFaults /\ faults' = faults + 1

Change == changes < MaxChanges /\ changes' = changes + 1

-------------------------------------------------------------------------------
(* The users table. *)

\* auth_provider of the rows the running process writes.
Issuer == IF mode = "oidc" THEN "issuer" ELSE "supabase"

\* A subject that is a UUID is the key of the row, whatever the provider.
DeriveUserID(p, a) == IF a \in Uuid THEN <<a>> ELSE <<p, a>>

SameIdentity(r, p, a) == r.provider = p /\ r.account = a

\* Mutated form of Clash: the insert names no conflict to update on.
Clash_PlainInsert(p, a, e) ==
    \E r \in users : r.email = e \/ r.id = DeriveUserID(p, a)

\* The upsert updates on (auth_provider, external_subject) alone: another row
\* that has the primary key or the address makes the statement fail.
Clash(p, a, e) ==
    \E r \in users :
        /\ ~SameIdentity(r, p, a)
        /\ r.email = e \/ r.id = DeriveUserID(p, a)

UpsertUserByProvider(p, a, e) ==
    {r \in users : ~SameIdentity(r, p, a)}
        \cup {[id |-> DeriveUserID(p, a), email |-> e, provider |-> p, account |-> a]}

-------------------------------------------------------------------------------
(* Cookies.  They are signed, so a browser has what it was given or nothing; *)
(* one that is emptied or past its age reads like none.                      *)

\* Mutated form of GenerateState: made once and used for every login.
GenerateState_Once(f) == 1

\* state, nonce and PKCE verifier of login f: random, hence its own.
GenerateState(f) == f

NoSession == [id |-> None, via |-> 0]

EmptyJar == [state |-> 0, session |-> NoSession, csrf |-> 0]

\* Read finds a session that is signed and has not expired.
HasSession(b) == jar[b].session # NoSession

ClearStateCookie(b) == jar' = [jar EXCEPT ![b].state = 0]

\* Mutated form of Session: it names the subject instead of the users row.
Session_Subject(c) ==
    [id |-> c.account, via |-> c.flow]

\* Issue; via is the login that led here, 0 for an exchange.
Session(c) ==
    [id |-> DeriveUserID(Issuer, c.account), via |-> c.flow]

Expire(b) ==
    /\ \E cookie \in {"state", "session", "csrf"} :
           /\ jar[b][cookie] # EmptyJar[cookie]
           /\ jar' = [jar EXCEPT ![b][cookie] = EmptyJar[cookie]]
    /\ UNCHANGED <<mode, provider, users, mail, flows, calls, tokens, changes,
                   faults, unsure, Pages>>

-------------------------------------------------------------------------------
(* The start of an OIDC login. *)

\* The first caller runs the discovery; its result, good or bad, is for ever.
NewProvider(result) ==
    /\ IF provider # "fresh" THEN result = provider /\ UNCHANGED faults
       ELSE \/ result = "ready" /\ UNCHANGED faults
            \/ result = "failed" /\ Fault
    /\ provider' = result

\* GET /auth/login without a session.  The cookie replaces that of a login in
\* another tab, and is set before the provider is looked for.
Login(b) ==
    /\ mode = "oidc" /\ ~HasSession(b)
    /\ Len(flows) < MaxFlows
    /\ LET secret == GenerateState(Len(flows) + 1) IN
       \E result \in {"ready", "failed"} :
           /\ NewProvider(result)
           /\ jar' = [jar EXCEPT ![b].state = secret]
           /\ flows' = Append(flows,
                  [browser |-> b, secret |-> secret, account |-> None,
                   code |-> IF result = "ready" THEN "asked" ELSE "none"])
    /\ UNCHANGED <<mode, users, mail, calls, tokens, changes, unsure, Pages>>

\* The user signs in at the provider, which sends the browser back with a code.
Authenticate(f, a) ==
    /\ flows[f].code = "asked"
    /\ flows' = [flows EXCEPT ![f].account = a, ![f].code = "issued"]
    /\ UNCHANGED <<mode, provider, users, mail, jar, calls, tokens, changes,
                   faults, unsure, Pages>>

-------------------------------------------------------------------------------
(* GET /auth/callback. *)

\* Without a state cookie nothing happens.  The URL may be opened late, again, or
\* in another browser; if it is not that of the cookie, the cookie goes.
Callback(b, f) ==
    /\ mode = "oidc" /\ jar[b].state # 0
    /\ flows[f].code \in {"issued", "used"}
    /\ IF jar[b].state = flows[f].secret
       THEN /\ calls' = calls \cup {[at |-> "exchange", browser |-> b, flow |-> f]}
            /\ UNCHANGED jar
       ELSE ClearStateCookie(b) /\ UNCHANGED calls
    /\ UNCHANGED <<mode, provider, users, mail, flows, tokens, changes, faults,
                   unsure, Pages>>

\* The user declined: the callback has no code.
Denied(f) ==
    /\ mode = "oidc" /\ flows[f].code = "asked"
    /\ flows' = [flows EXCEPT ![f].code = "none"]
    /\ ClearStateCookie(flows[f].browser)
    /\ UNCHANGED <<mode, provider, users, mail, calls, tokens, changes, faults,
                   unsure, Pages>>

\* Provider.Exchange: the provider redeems a code once, for the verifier it was
\* asked with, and the id_token carries the nonce it was asked with.
ExchangeCode(c) ==
    /\ c.at = "exchange"
    /\ NewProvider("ready")
    /\ flows[c.flow].code = "issued"
    /\ flows' = [flows EXCEPT ![c.flow].code = "used"]
    /\ calls' = (calls \ {c}) \cup
           {[at |-> "mint", browser |-> c.browser, flow |-> c.flow,
             account |-> flows[c.flow].account, email |-> mail[flows[c.flow].account]]}
    /\ UNCHANGED <<mode, users, mail, jar, tokens, changes, unsure, Pages>>

\* No provider, a code that was redeemed before, or a call that fails.
ExchangeFails(c) ==
    /\ c.at = "exchange"
    /\ \/ NewProvider("failed") /\ UNCHANGED flows
       \/ NewProvider("ready") /\ flows[c.flow].code = "used" /\ UNCHANGED flows
       \/ /\ provider = "ready" /\ Fault /\ UNCHANGED provider
          /\ \E code \in {flows[c.flow].code, "used"} :
                 flows' = [flows EXCEPT ![c.flow].code = code]
    /\ calls' = calls \ {c}
    /\ ClearStateCookie(c.browser)
    /\ UNCHANGED <<mode, users, mail, tokens, changes, unsure, Pages>>

-------------------------------------------------------------------------------
(* POST /auth/exchange, the legacy login. *)

\* GetUser vouches for the access token, and the address is confirmed.
Exchange(b, a) ==
    /\ mode = "legacy" /\ a \in Confirmed
    /\ Cardinality({c \in calls : c.flow = 0}) < MaxExchanges
    /\ calls' = calls \cup {[at |-> "mint", browser |-> b, flow |-> 0,
                             account |-> a, email |-> mail[a]]}
    /\ UNCHANGED <<mode, provider, users, mail, jar, flows, tokens, changes,
                   faults, unsure, Pages>>

-------------------------------------------------------------------------------
(* mintTokenTx: row, token and session in one transaction. *)

\* Commit, and the answer: the session, and the token in legacy mode.  The
\* callback clears the state cookie; the exchange knows nothing of it.
Mint(c) ==
    /\ c.at = "mint"
    /\ ~Clash(Issuer, c.account, c.email)
    /\ users' = UpsertUserByProvider(Issuer, c.account, c.email)
    /\ jar' = [jar EXCEPT ![c.browser].session = Session(c),
                          ![c.browser].state = IF c.flow = 0 THEN @ ELSE 0]
    /\ tokens' = IF c.flow = 0 THEN tokens \cup {Session(c).id} ELSE tokens
    /\ calls' = calls \ {c}
    /\ UNCHANGED <<mode, provider, mail, flows, changes, faults, unsure, Pages>>

\* Mutated form of MintFails: the session cookie is written before the upsert.
MintFails_SessionFirst(c) ==
    /\ c.at = "mint"
    /\ \/ Clash(Issuer, c.account, c.email) /\ UNCHANGED faults
       \/ Fault
    /\ jar' = [jar EXCEPT ![c.browser].session = Session(c)]
    /\ calls' = calls \ {c}
    /\ UNCHANGED <<mode, provider, users, mail, flows, tokens, changes, unsure, Pages>>

\* Begin, the upsert or a signature fails: the transaction is rolled back.  The
\* answer is on its way when ClearStateCookie is called, so the cookie stays.
MintFails(c) ==
    /\ c.at = "mint"
    /\ \/ Clash(Issuer, c.account, c.email) /\ UNCHANGED faults
       \/ Fault
    /\ calls' = calls \ {c}
    /\ UNCHANGED <<mode, provider, users, mail, jar, flows, tokens, changes,
                   unsure, Pages>>

\* Commit reports an error, whether or not it took effect: the answer is an
\* error too, but the session cookie is in it.
CommitFails(c) ==
    /\ c.at = "mint"
    /\ ~Clash(Issuer, c.account, c.email)
    /\ Fault
    /\ \/ users' = UpsertUserByProvider(Issuer, c.account, c.email)
       \/ UNCHANGED users
    /\ jar' = [jar EXCEPT ![c.browser].session = Session(c)]
    /\ unsure' = unsure \cup {Session(c).id}
    /\ calls' = calls \ {c}
    /\ UNCHANGED <<mode, provider, mail, flows, tokens, changes, Pages>>

\* The answer to a login that was committed never arrives.
AnswerLost(c) ==
    /\ c.at = "mint"
    /\ ~Clash(Issuer, c.account, c.email)
    /\ Fault
    /\ users' = UpsertUserByProvider(Issuer, c.account, c.email)
    /\ calls' = calls \ {c}
    /\ UNCHANGED <<mode, provider, mail, jar, flows, tokens, changes, unsure, Pages>>

-------------------------------------------------------------------------------
(* The dashboard. *)

\* GET /dashboard: a page whose forms carry the CSRF token of the cookie, which
\* is made if there is none.
Dashboard(b) ==
    /\ HasSession(b)
    /\ LET fresh == jar[b].csrf = 0
           token == IF fresh THEN csrfs + 1 ELSE jar[b].csrf
       IN  /\ token <= MaxPages
           /\ csrfs' = IF fresh THEN token ELSE csrfs
           /\ jar' = [jar EXCEPT ![b].csrf = token]
           /\ tabs' = [tabs EXCEPT ![b] = @ \cup {token}]
    /\ UNCHANGED <<mode, provider, users, mail, flows, calls, tokens, changes,
                   faults, unsure, retired>>

\* A form of an open page is posted, and its token is that of the cookie.
CsrfValid(b) == jar[b].csrf # 0 /\ jar[b].csrf \in tabs[b]

\* POST /dashboard/generate-token.  A row that is missing makes the address
\* "unknown"; the token is issued all the same.
GenerateToken(b) ==
    /\ HasSession(b) /\ CsrfValid(b)
    /\ tokens' = tokens \cup {jar[b].session.id}
    /\ UNCHANGED <<mode, provider, users, mail, jar, flows, calls, changes,
                   faults, unsure, Pages>>

\* Mutated form of Logout: the CSRF cookie outlives the session.
Logout_KeepsCsrf(b) ==
    /\ CsrfValid(b)
    /\ jar' = [jar EXCEPT ![b].session = NoSession]
    /\ retired' = [retired EXCEPT ![b] = csrfs]
    /\ UNCHANGED <<mode, provider, users, mail, flows, calls, tabs, tokens, csrfs,
                   changes, faults, unsure>>

\* POST /auth/logout; a login under way in another tab keeps its state cookie.
Logout(b) ==
    /\ CsrfValid(b)
    /\ jar' = [jar EXCEPT ![b].session = NoSession, ![b].csrf = 0]
    /\ retired' = [retired EXCEPT ![b] = csrfs]
    /\ UNCHANGED <<mode, provider, users, mail, flows, calls, tabs, tokens, csrfs,
                   changes, faults, unsure>>

-------------------------------------------------------------------------------
(* The world. *)

\* An account changes its address; no two have the same at the same time.
ChangeMail(a, m) ==
    /\ \A other \in Account : mail[other] # m
    /\ Change
    /\ mail' = [mail EXCEPT ![a] = m]
    /\ UNCHANGED <<mode, provider, users, jar, flows, calls, tokens, faults,
                   unsure, Pages>>

\* The process starts anew, after a crash or with OIDC_* set: requests are lost,
\* cookies stay good, and discovery has not run.
Restart ==
    /\ Change
    /\ mode' \in IF MayMigrate THEN {mode, "oidc"} ELSE {mode}
    /\ provider' = "fresh"
    /\ calls' = {}
    /\ UNCHANGED <<users, mail, jar, flows, tokens, faults, unsure, Pages>>

-------------------------------------------------------------------------------

Init ==
    /\ mode \in {"oidc", "legacy"}
    /\ provider = "fresh"
    /\ users = {}
    /\ mail \in {m \in [Account -> Mail] :
                     \A a1, a2 \in Account : m[a1] = m[a2] => a1 = a2}
    /\ jar = [b \in Browser |-> EmptyJar]
    /\ flows = << >>
    /\ calls = {}
    /\ tabs = [b \in Browser |-> {}]
    /\ tokens = {} /\ csrfs = 0 /\ changes = 0 /\ faults = 0
    /\ unsure = {}
    /\ retired = [b \in Browser |-> 0]

Browse(b) ==
    \/ Login(b)
    \/ \E f \in DOMAIN flows : Callback(b, f)
    \/ \E a \in Account : Exchange(b, a)
    \/ Dashboard(b)
    \/ GenerateToken(b)
    \/ Logout(b)
    \/ Expire(b)

Handle(c) ==
    \/ ExchangeCode(c)
    \/ ExchangeFails(c)
    \/ Mint(c)
    \/ MintFails(c)
    \/ CommitFails(c)
    \/ AnswerLost(c)

Next ==
    \/ \E b \in Browser : Browse(b)
    \/ \E c \in calls : Handle(c)
    \/ \E f \in DOMAIN flows : Denied(f) \/ \E a \in Account : Authenticate(f, a)
    \/ \E a \in Account, m \in Mail : ChangeMail(a, m)
    \/ Restart

Spec == Init /\ [][Next]_vars

-------------------------------------------------------------------------------
(* Properties. *)

UserId == {<<a>> : a \in Uuid} \cup ({"issuer", "supabase"} \X (Account \ Uuid))

Jar == [state : 0 .. MaxFlows,
        session : {NoSession} \cup [id : UserId, via : 0 .. MaxFlows],
        csrf : 0 .. MaxPages]

Flow == [browser : Browser, secret : 1 .. MaxFlows, account : Account \cup {None},
         code : {"none", "asked", "issued", "used"}]

Call == [at : {"exchange"}, browser : Browser, flow : 1 .. MaxFlows]
            \cup [at : {"mint"}, browser : Browser, flow : 0 .. MaxFlows,
                  account : Account, email : Mail]

UserRow == [id : UserId, email : Mail, provider : {"issuer", "supabase"},
            account : Account]

\* The values the variables take.
TypeOK ==
    /\ mode \in {"oidc", "legacy"}
    /\ provider \in {"fresh", "ready", "failed"}
    /\ users \subseteq UserRow
    /\ mail \in [Account -> Mail]
    /\ jar \in [Browser -> Jar]
    /\ flows \in Seq(Flow) /\ Len(flows) <= MaxFlows
    /\ calls \subseteq Call
    /\ tabs \in [Browser -> SUBSET (1 .. MaxPages)]
    /\ tokens \subseteq UserId /\ unsure \subseteq UserId
    /\ csrfs \in 0 .. MaxPages /\ retired \in [Browser -> 0 .. MaxPages]
    /\ changes \in 0 .. MaxChanges /\ faults \in 0 .. MaxFaults

HasRow(id) == \E r \in users : r.id = id

\* Whoever holds a session or an MCP token has a row in users, so that it can be
\* revoked and its writes attributed; the exception mint.go admits to is a
\* login whose commit was answered with an error.
IdsNameUsers ==
    /\ \A b \in Browser :
           HasSession(b) => HasRow(jar[b].session.id) \/ jar[b].session.id \in unsure
    /\ \A id \in tokens : HasRow(id) \/ id \in unsure

\* A browser is logged in as the account that signed in during a login this very
\* browser began: not by a callback URL opened in another browser, not by one
\* of two logins in two tabs taken for the other.
SessionsComeFromOwnLogins ==
    \A b \in Browser : LET s == jar[b].session IN
        s.via # 0 =>
            /\ flows[s.via].browser = b
            /\ s.id \in {DeriveUserID(p, flows[s.via].account) : p \in {"issuer", "supabase"}}

\* A form of a page that was opened before its browser last logged out is refused,
\* also when somebody has logged in there since.
OldPagesAreRefused ==
    \A b \in Browser : CsrfValid(b) => jar[b].csrf > retired[b]

\* migrations/00010_oidc_provider.sql: "Uniqueness of an identity is (provider,
\* subject)".  The upsert of an account fails only while its address is still in
\* the row of another account, which has given it up: no row of its own, from
\* before, keeps it out, nor does anybody's row that is up to date.
NobodyIsLockedOut ==
    \A a \in Account :
        Clash(Issuer, a, mail[a]) =>
            \E r \in users :
                r.account # a /\ r.email = mail[a] /\ mail[r.account] # mail[a]
================================================================================
