---------------------------- MODULE WebLoginProofs ----------------------------
(***************************************************************************)
(* Proofs about WebLogin, for any number of browsers, accounts, addresses, *)
(* logins, pages, changes and faults.                                      *)
(***************************************************************************)
EXTENDS WebLogin, TLAPS

Answered == {"issued", "used"}

\* A login is found again by its secret, and a code has an account behind it.
FlowsOwn ==
    \A f \in DOMAIN flows :
        /\ flows[f].secret = f
        /\ flows[f].code \in Answered => flows[f].account \in Account

\* A state cookie is that of a login its own browser began.
JarsOwn ==
    \A b \in Browser : jar[b].state # 0 =>
        /\ jar[b].state \in DOMAIN flows
        /\ flows[jar[b].state].browser = b

\* f is a login of browser b the provider has answered.
OwnLogin(f, b) ==
    /\ f \in DOMAIN flows
    /\ flows[f].browser = b
    /\ flows[f].code \in Answered

\* A callback that passed the gate is about a login of its browser, and mints for
\* the account that signed in.
CallsOwn ==
    \A c \in calls : c.flow # 0 =>
        /\ OwnLogin(c.flow, c.browser)
        /\ c.at = "mint" => c.account = flows[c.flow].account

Keys(a) == {DeriveUserID(p, a) : p \in {"issuer", "supabase"}}

SessionsOwn ==
    \A b \in Browser : jar[b].session.via # 0 =>
        /\ OwnLogin(jar[b].session.via, b)
        /\ jar[b].session.id \in Keys(flows[jar[b].session.via].account)

LoginInv == TypeOK /\ FlowsOwn /\ JarsOwn /\ CallsOwn /\ SessionsOwn

-------------------------------------------------------------------------------
(* The definitions the steps share. *)

LEMMA KeysTyped ==
    ASSUME NEW p \in {"issuer", "supabase"}, NEW a \in Account
    PROVE  DeriveUserID(p, a) \in UserId
<1>1. CASE a \in Uuid
  BY <1>1 DEF DeriveUserID, UserId
<1>2. CASE a \notin Uuid
  <2>1. <<p, a>> \in {"issuer", "supabase"} \X (Account \ Uuid)
    BY <1>2
  <2> QED
    BY <1>2, <2>1 DEF DeriveUserID, UserId
<1> QED
  BY <1>1, <1>2

LEMMA IssuerTyped == Issuer \in {"issuer", "supabase"}
  BY DEF Issuer

LEMMA BoundsTyped ==
    /\ MaxFlows \in Nat /\ MaxPages \in Nat
    /\ MaxChanges \in Nat /\ MaxFaults \in Nat
  BY LoginBounds

\* The domain of flows, and what TypeOK says of one login.
LEMMA FlowFields ==
    ASSUME TypeOK
    PROVE  /\ DOMAIN flows = 1 .. Len(flows) /\ Len(flows) \in 0 .. MaxFlows
           /\ \A f \in DOMAIN flows : flows[f] \in Flow /\ f \in 1 .. MaxFlows
<1>1. flows \in Seq(Flow) /\ Len(flows) <= MaxFlows
  BY DEF TypeOK
<1>2. DOMAIN flows = 1 .. Len(flows) /\ Len(flows) \in Nat
  BY <1>1
<1>3. \A f \in DOMAIN flows : flows[f] \in Flow
  BY <1>1, <1>2
<1> QED
  BY <1>1, <1>2, <1>3, BoundsTyped

LEMMA CallFields ==
    ASSUME TypeOK, NEW c \in calls
    PROVE  /\ c.browser \in Browser /\ c.at \in {"exchange", "mint"}
           /\ c.flow \in 0 .. MaxFlows
           /\ c.at = "exchange" => c.flow \in 1 .. MaxFlows
           /\ c.at = "mint" => c.account \in Account /\ c.email \in Mail
<1>1. c \in Call
  BY DEF TypeOK
<1> QED
  BY <1>1, BoundsTyped DEF Call

\* What a call mints.
LEMMA SessionFields ==
    ASSUME TypeOK, NEW c \in calls, c.at = "mint"
    PROVE  /\ Session(c).id = DeriveUserID(Issuer, c.account)
           /\ Session(c).via = c.flow
           /\ Session(c).id \in UserId
           /\ Session(c) \in [id : UserId, via : 0 .. MaxFlows]
  BY CallFields, IssuerTyped, KeysTyped DEF Session

LEMMA UpsertTyped ==
    ASSUME TypeOK, NEW a \in Account, NEW e \in Mail
    PROVE  UpsertUserByProvider(Issuer, a, e) \subseteq UserRow
<1>1. [id |-> DeriveUserID(Issuer, a), email |-> e, provider |-> Issuer,
       account |-> a] \in UserRow
  BY IssuerTyped, KeysTyped DEF UserRow
<1> QED
  BY <1>1 DEF UpsertUserByProvider, TypeOK


-------------------------------------------------------------------------------
(* What the steps do to logins, cookies and calls. *)

\* A login never disappears or changes hands, and once the provider has answered
\* it stays answered for the same account.
LEMMA FlowsGrow ==
    ASSUME TypeOK, [Next]_vars, NEW f \in DOMAIN flows
    PROVE  /\ f \in DOMAIN flows'
           /\ flows'[f].browser = flows[f].browser
           /\ flows'[f].secret = flows[f].secret
           /\ flows[f].code \in Answered =>
                  flows'[f].code \in Answered /\ flows'[f].account = flows[f].account
<1> DEFINE Kept == /\ f \in DOMAIN flows'
                   /\ flows'[f].browser = flows[f].browser
                   /\ flows'[f].secret = flows[f].secret
                   /\ flows[f].code \in Answered =>
                          flows'[f].code \in Answered /\ flows'[f].account = flows[f].account
<1>1. flows \in Seq(Flow) /\ flows[f] \in Flow
  BY FlowFields DEF TypeOK
<1>2. CASE UNCHANGED flows
  BY <1>2
<1>3. ASSUME NEW b \in Browser, Login(b)
      PROVE  Kept
  <2>1. PICK new : flows' = Append(flows, new)
    BY <1>3 DEF Login
  <2> QED
    BY <1>1, <2>1
<1>4. ASSUME NEW g \in DOMAIN flows, NEW a \in Account, Authenticate(g, a)
      PROVE  Kept
  BY <1>1, <1>4 DEF Authenticate, Answered, Flow
<1>5. ASSUME NEW g \in DOMAIN flows, Denied(g)
      PROVE  Kept
  BY <1>1, <1>5 DEF Denied, Answered, Flow
<1>6. ASSUME NEW c \in calls, ExchangeCode(c)
      PROVE  Kept
  BY <1>1, <1>6 DEF ExchangeCode, Answered, Flow
<1>7. ASSUME NEW c \in calls, ExchangeFails(c)
      PROVE  Kept
  <2>1. CASE UNCHANGED flows
    BY <2>1
  <2>2. CASE \E code \in {flows[c.flow].code, "used"} :
                 flows' = [flows EXCEPT ![c.flow].code = code]
    BY <1>1, <2>2 DEF Answered, Flow
  <2> QED
    BY <1>7, <2>1, <2>2 DEF ExchangeFails
<1>8. UNCHANGED flows \/ Kept
  <2>1. ASSUME NEW b \in Browser, Browse(b)
        PROVE  UNCHANGED flows \/ Kept
    BY <1>3, <2>1 DEF Browse, Callback, Exchange, Dashboard, GenerateToken, Logout, Expire
  <2>2. ASSUME NEW c \in calls, Handle(c)
        PROVE  UNCHANGED flows \/ Kept
    BY <1>6, <1>7, <2>2 DEF Handle, Mint, MintFails, CommitFails, AnswerLost
  <2>3. ASSUME NEW a \in Account, NEW m \in Mail, ChangeMail(a, m)
        PROVE  UNCHANGED flows
    BY <2>3 DEF ChangeMail
  <2>4. CASE Restart
    BY <2>4 DEF Restart
  <2> QED
    BY <1>4, <1>5, <2>1, <2>2, <2>3, <2>4 DEF Next, vars
<1> QED
  BY <1>2, <1>8

\* A new state cookie comes of a login, a new session of a mint, and a new CSRF
\* token of a page; a token that stays has not been retired.
CookiesOf(b) ==
    /\ \/ jar'[b].state \in {jar[b].state, 0}
       \/ Login(b) /\ jar'[b].state = GenerateState(Len(flows) + 1)
    /\ \/ jar'[b].session \in {jar[b].session, NoSession}
       \/ \E c \in calls : /\ Mint(c) \/ CommitFails(c)
                           /\ c.browser = b /\ jar'[b].session = Session(c)
    /\ \/ jar'[b].csrf = 0
       \/ jar'[b].csrf = jar[b].csrf /\ retired'[b] = retired[b]
       \/ jar'[b].csrf = csrfs + 1 /\ csrfs' = csrfs + 1 /\ retired'[b] = retired[b]

LEMMA CookieSteps ==
    ASSUME TypeOK, [Next]_vars, NEW b \in Browser
    PROVE  CookiesOf(b)
<1>1. jar \in [Browser -> Jar] /\ retired \in [Browser -> 0 .. MaxPages]
  BY DEF TypeOK
<1>2. CASE UNCHANGED <<jar, retired>>
  BY <1>2 DEF CookiesOf
<1>0. jar'[b] = jar[b] /\ retired'[b] = retired[b] => CookiesOf(b)
  BY DEF CookiesOf
<1>3. ASSUME NEW d \in Browser, Login(d)
      PROVE  CookiesOf(b)
  <2>1. /\ jar' = [jar EXCEPT ![d].state = GenerateState(Len(flows) + 1)]
        /\ retired' = retired
    BY <1>3 DEF Login, Pages
  <2>2. CASE b # d
    BY <1>0, <1>1, <2>1, <2>2
  <2>3. CASE b = d
    <3>1. /\ jar'[b].state = GenerateState(Len(flows) + 1)
          /\ jar'[b].session = jar[b].session
          /\ jar'[b].csrf = jar[b].csrf
      BY <1>1, <2>1, <2>3 DEF Jar
    <3> QED
      BY <1>3, <2>1, <2>3, <3>1 DEF CookiesOf
  <2> QED
    BY <2>2, <2>3
<1>4. ASSUME NEW d \in Browser, NEW f \in DOMAIN flows, Callback(d, f)
      PROVE  CookiesOf(b)
  <2>1. /\ UNCHANGED jar \/ ClearStateCookie(d)
        /\ retired' = retired
    BY <1>4 DEF Callback, Pages
  <2> QED
    BY <1>0, <1>1, <2>1 DEF ClearStateCookie, CookiesOf, Jar
<1>5. ASSUME NEW d \in Browser, Dashboard(d)
      PROVE  CookiesOf(b)
  BY <1>1, <1>5 DEF Dashboard, CookiesOf, Jar
<1>6. ASSUME NEW d \in Browser, Logout(d)
      PROVE  CookiesOf(b)
  BY <1>1, <1>6 DEF Logout, CookiesOf, Jar
<1>7. ASSUME NEW d \in Browser, Expire(d)
      PROVE  CookiesOf(b)
  <2>1. PICK cookie \in {"state", "session", "csrf"} :
            jar' = [jar EXCEPT ![d][cookie] = EmptyJar[cookie]]
    BY <1>7 DEF Expire
  <2>2. retired' = retired
    BY <1>7 DEF Expire, Pages
  <2>3. CASE cookie = "state"
    BY <1>1, <2>1, <2>2, <2>3 DEF CookiesOf, EmptyJar, Jar
  <2>4. CASE cookie = "session"
    BY <1>1, <2>1, <2>2, <2>4 DEF CookiesOf, EmptyJar, Jar
  <2>5. CASE cookie = "csrf"
    BY <1>1, <2>1, <2>2, <2>5 DEF CookiesOf, EmptyJar, Jar
  <2> QED
    BY <2>1, <2>3, <2>4, <2>5
<1>8. ASSUME NEW f \in DOMAIN flows, Denied(f)
      PROVE  CookiesOf(b)
  <2>1. ClearStateCookie(flows[f].browser) /\ retired' = retired
    BY <1>8 DEF Denied, Pages
  <2> QED
    BY <1>0, <1>1, <2>1 DEF ClearStateCookie, CookiesOf, Jar
<1>9. ASSUME NEW c \in calls, ExchangeFails(c)
      PROVE  CookiesOf(b)
  <2>1. ClearStateCookie(c.browser) /\ retired' = retired
    BY <1>9 DEF ExchangeFails, Pages
  <2> QED
    BY <1>0, <1>1, <2>1 DEF ClearStateCookie, CookiesOf, Jar
<1>10. ASSUME NEW c \in calls, Mint(c)
       PROVE  CookiesOf(b)
  <2>1. /\ jar' = [jar EXCEPT ![c.browser].session = Session(c),
                         ![c.browser].state = IF c.flow = 0 THEN @ ELSE 0]
        /\ retired' = retired
    BY <1>10 DEF Mint, Pages
  <2>2. CASE b # c.browser
    BY <1>0, <1>1, <2>1, <2>2
  <2>3. CASE b = c.browser
    <3>1. /\ jar'[b].state \in {jar[b].state, 0}
          /\ jar'[b].session = Session(c)
          /\ jar'[b].csrf = jar[b].csrf
      BY <1>1, <2>1, <2>3 DEF Jar
    <3> QED
      BY <1>10, <2>1, <2>3, <3>1 DEF CookiesOf
  <2> QED
    BY <2>2, <2>3
<1>11. ASSUME NEW c \in calls, CommitFails(c)
       PROVE  CookiesOf(b)
  <2>1. /\ jar' = [jar EXCEPT ![c.browser].session = Session(c)]
        /\ retired' = retired
    BY <1>11 DEF CommitFails, Pages
  <2>2. CASE b # c.browser
    BY <1>0, <1>1, <2>1, <2>2
  <2>3. CASE b = c.browser
    <3>1. /\ jar'[b].state \in {jar[b].state, 0}
          /\ jar'[b].session = Session(c)
          /\ jar'[b].csrf = jar[b].csrf
      BY <1>1, <2>1, <2>3 DEF Jar
    <3> QED
      BY <1>11, <2>1, <2>3, <3>1 DEF CookiesOf
  <2> QED
    BY <2>2, <2>3
<1>12. UNCHANGED <<jar, retired>> \/ CookiesOf(b)
  <2>1. ASSUME NEW d \in Browser, Browse(d)
        PROVE  UNCHANGED <<jar, retired>> \/ CookiesOf(b)
    BY <1>3, <1>4, <1>5, <1>6, <1>7, <2>1 DEF Browse, Exchange, GenerateToken, Pages
  <2>2. ASSUME NEW c \in calls, Handle(c)
        PROVE  UNCHANGED <<jar, retired>> \/ CookiesOf(b)
    BY <1>9, <1>10, <1>11, <2>2 DEF Handle, ExchangeCode, MintFails, AnswerLost, Pages
  <2>3. ASSUME NEW f \in DOMAIN flows, NEW a \in Account, Authenticate(f, a)
        PROVE  UNCHANGED <<jar, retired>>
    BY <2>3 DEF Authenticate, Pages
  <2>4. ASSUME NEW a \in Account, NEW m \in Mail, ChangeMail(a, m)
        PROVE  UNCHANGED <<jar, retired>>
    BY <2>4 DEF ChangeMail, Pages
  <2>5. CASE Restart
    BY <2>5 DEF Restart, Pages
  <2> QED
    BY <1>8, <2>1, <2>2, <2>3, <2>4, <2>5 DEF Next, vars
<1> QED
  BY <1>2, <1>12


-------------------------------------------------------------------------------
(* Types. *)

\* What a session cookie may hold.
Held == {NoSession} \cup [id : UserId, via : 0 .. MaxFlows]

\* A step that replaces a cookie keeps jar typed.
LEMMA JarTyped ==
    ASSUME TypeOK, NEW b \in Browser, NEW f \in 0 .. MaxFlows, NEW s \in Held,
           NEW k \in 0 .. MaxPages
    PROVE  /\ [jar EXCEPT ![b].state = f] \in [Browser -> Jar]
           /\ [jar EXCEPT ![b].csrf = k] \in [Browser -> Jar]
           /\ [jar EXCEPT ![b].session = s] \in [Browser -> Jar]
           /\ [jar EXCEPT ![b].session = s, ![b].csrf = k] \in [Browser -> Jar]
           /\ [jar EXCEPT ![b].session = s, ![b].state = f] \in [Browser -> Jar]
<1>1. Jar = [state : 0 .. MaxFlows, session : Held, csrf : 0 .. MaxPages]
  BY DEF Jar, Held
<1>2. jar \in [Browser -> Jar] /\ jar[b] \in Jar
  BY DEF TypeOK
<1>3. \A r \in Jar : [jar EXCEPT ![b] = r] \in [Browser -> Jar]
  BY <1>2
<1>4. /\ [jar[b] EXCEPT !.state = f] \in Jar
      /\ [jar[b] EXCEPT !.csrf = k] \in Jar
      /\ [jar[b] EXCEPT !.session = s] \in Jar
  BY <1>1, <1>2
<1>5. /\ [[jar[b] EXCEPT !.session = s] EXCEPT !.csrf = k] \in Jar
      /\ [[jar[b] EXCEPT !.session = s] EXCEPT !.state = f] \in Jar
  BY <1>1, <1>4
<1> QED
  BY <1>2, <1>3, <1>4, <1>5

LEMMA EmptyCookies == 0 \in 0 .. MaxFlows /\ 0 \in 0 .. MaxPages /\ NoSession \in Held
  BY BoundsTyped DEF Held

LEMMA LoginTypes ==
    ASSUME TypeOK, NEW b \in Browser, Login(b)
    PROVE  TypeOK'
<1>1. PICK result \in {"ready", "failed"} :
          /\ NewProvider(result)
          /\ jar' = [jar EXCEPT ![b].state = GenerateState(Len(flows) + 1)]
          /\ flows' = Append(flows,
                 [browser |-> b, secret |-> GenerateState(Len(flows) + 1),
                  account |-> None,
                  code |-> IF result = "ready" THEN "asked" ELSE "none"])
  BY DEF Login
<1>2. UNCHANGED <<mode, users, mail, calls, tokens, changes, unsure, Pages>>
      /\ Len(flows) < MaxFlows
  BY DEF Login
<1>3. flows \in Seq(Flow) /\ Len(flows) \in Nat
  BY DEF TypeOK
<1>4. GenerateState(Len(flows) + 1) \in 1 .. MaxFlows
  BY <1>2, <1>3, BoundsTyped DEF GenerateState
<1>5. flows' \in Seq(Flow) /\ Len(flows') <= MaxFlows
  <2>1. [browser |-> b, secret |-> GenerateState(Len(flows) + 1), account |-> None,
         code |-> IF result = "ready" THEN "asked" ELSE "none"] \in Flow
    BY <1>4 DEF Flow
  <2> QED
    BY <1>1, <1>2, <1>3, <2>1, BoundsTyped
<1>6. jar' \in [Browser -> Jar]
  <2>1. GenerateState(Len(flows) + 1) \in 0 .. MaxFlows
    BY <1>4
  <2> QED
    BY <1>1, <2>1, EmptyCookies, JarTyped
<1>7. provider' \in {"fresh", "ready", "failed"} /\ faults' \in 0 .. MaxFaults
  BY <1>1, BoundsTyped DEF NewProvider, Fault, TypeOK
<1> QED
  BY <1>2, <1>5, <1>6, <1>7 DEF TypeOK, Pages

\* A step that only updates a login keeps flows typed.
LEMMA FlowUpdateTyped ==
    ASSUME TypeOK, NEW f \in DOMAIN flows, NEW a \in Account \cup {None},
           NEW code \in {"none", "asked", "issued", "used"}
    PROVE  LET g == [flows EXCEPT ![f].account = a, ![f].code = code]
               h == [flows EXCEPT ![f].code = code]
           IN /\ g \in Seq(Flow) /\ Len(g) <= MaxFlows
              /\ h \in Seq(Flow) /\ Len(h) <= MaxFlows
<1>1. flows \in Seq(Flow) /\ flows[f] \in Flow /\ Len(flows) <= MaxFlows
  BY FlowFields DEF TypeOK
<1>2. \A r \in Flow : /\ [r EXCEPT !.code = code] \in Flow
                      /\ [[r EXCEPT !.account = a] EXCEPT !.code = code] \in Flow
  BY DEF Flow
<1>3. \A r \in Flow : LET g == [flows EXCEPT ![f] = r]
                      IN g \in Seq(Flow) /\ Len(g) = Len(flows)
  BY <1>1
<1> QED
  BY <1>1, <1>2, <1>3

LEMMA BrowseTypes ==
    ASSUME TypeOK, NEW b \in Browser, Browse(b)
    PROVE  TypeOK'
<1>1. CASE Login(b)
  BY <1>1, LoginTypes
<1>2. ASSUME NEW f \in DOMAIN flows, Callback(b, f)
      PROVE  TypeOK'
  <2>1. jar' \in [Browser -> Jar]
    <3>1. jar' = jar \/ ClearStateCookie(b)
      BY <1>2 DEF Callback
    <3>2. jar \in [Browser -> Jar]
      BY DEF TypeOK
    <3>3. [jar EXCEPT ![b].state = 0] \in [Browser -> Jar]
      BY EmptyCookies, JarTyped
    <3> QED
      BY <3>1, <3>2, <3>3 DEF ClearStateCookie
  <2>2. [at |-> "exchange", browser |-> b, flow |-> f] \in Call
    BY FlowFields DEF Call
  <2>3. calls' \subseteq Call
    BY <1>2, <2>2 DEF Callback, TypeOK
  <2> QED
    BY <1>2, <2>1, <2>3 DEF Callback, TypeOK, Pages
<1>3. ASSUME NEW a \in Account, Exchange(b, a)
      PROVE  TypeOK'
  <2>1. [at |-> "mint", browser |-> b, flow |-> 0, account |-> a,
         email |-> mail[a]] \in Call
    BY BoundsTyped DEF TypeOK, Call
  <2> QED
    BY <1>3, <2>1 DEF Exchange, TypeOK, Pages
<1>4. CASE Dashboard(b)
  <2> DEFINE token == IF jar[b].csrf = 0 THEN csrfs + 1 ELSE jar[b].csrf
  <2>1. /\ token <= MaxPages
        /\ csrfs' = IF jar[b].csrf = 0 THEN token ELSE csrfs
        /\ jar' = [jar EXCEPT ![b].csrf = token]
        /\ tabs' = [tabs EXCEPT ![b] = @ \cup {token}]
        /\ UNCHANGED <<mode, provider, users, mail, flows, calls, tokens, changes,
                       faults, unsure, retired>>
    BY <1>4 DEF Dashboard
  <2>2. csrfs \in 0 .. MaxPages /\ jar[b].csrf \in 0 .. MaxPages
    BY DEF TypeOK, Jar
  <2>3. token \in 1 .. MaxPages
    BY <2>1, <2>2, BoundsTyped
  <2>4. token \in 0 .. MaxPages /\ csrfs' \in 0 .. MaxPages
    BY <2>1, <2>2, <2>3
  <2> HIDE DEF token
  <2>5. jar' \in [Browser -> Jar]
    BY <2>1, <2>4, EmptyCookies, JarTyped
  <2>6. tabs' \in [Browser -> SUBSET (1 .. MaxPages)]
    BY <2>1, <2>3 DEF TypeOK
  <2> QED
    BY <2>1, <2>4, <2>5, <2>6 DEF TypeOK
<1>5. CASE GenerateToken(b)
  <2>1. jar[b].session \in [id : UserId, via : 0 .. MaxFlows]
    BY <1>5 DEF GenerateToken, HasSession, TypeOK, Jar
  <2>2. tokens' \subseteq UserId
    BY <1>5, <2>1 DEF GenerateToken, TypeOK
  <2> QED
    BY <1>5, <2>2 DEF GenerateToken, TypeOK, Pages
<1>6. CASE Logout(b)
  <2>1. jar' \in [Browser -> Jar]
    BY <1>6, EmptyCookies, JarTyped DEF Logout
  <2>2. retired' \in [Browser -> 0 .. MaxPages]
    BY <1>6 DEF Logout, TypeOK
  <2> QED
    BY <1>6, <2>1, <2>2 DEF Logout, TypeOK
<1>7. CASE Expire(b)
  <2>1. PICK cookie \in {"state", "session", "csrf"} :
            jar' = [jar EXCEPT ![b][cookie] = EmptyJar[cookie]]
    BY <1>7 DEF Expire
  <2>2. jar' \in [Browser -> Jar]
    <3>1. CASE cookie = "state"
      BY <2>1, <3>1, EmptyCookies, JarTyped DEF EmptyJar
    <3>2. CASE cookie = "session"
      BY <2>1, <3>2, EmptyCookies, JarTyped DEF EmptyJar
    <3>3. CASE cookie = "csrf"
      BY <2>1, <3>3, EmptyCookies, JarTyped DEF EmptyJar
    <3> QED
      BY <2>1, <3>1, <3>2, <3>3
  <2> QED
    BY <1>7, <2>2 DEF Expire, TypeOK, Pages
<1> QED
  BY <1>1, <1>2, <1>3, <1>4, <1>5, <1>6, <1>7 DEF Browse

LEMMA HandleTypes ==
    ASSUME TypeOK, FlowsOwn, CallsOwn, NEW c \in calls, Handle(c)
    PROVE  TypeOK'
<1>1. calls \ {c} \subseteq Call /\ c \in Call /\ c.browser \in Browser
  BY CallFields DEF TypeOK
<1>2. ASSUME NEW result \in {"ready", "failed"}, NewProvider(result)
      PROVE  provider' \in {"fresh", "ready", "failed"} /\ faults' \in 0 .. MaxFaults
  BY <1>2, BoundsTyped DEF NewProvider, Fault, TypeOK
<1>3. Fault => faults' \in 0 .. MaxFaults
  BY BoundsTyped DEF Fault, TypeOK
<1>4. [jar EXCEPT ![c.browser].state = 0] \in [Browser -> Jar]
  BY <1>1, EmptyCookies, JarTyped
<1>5. c.at = "exchange" =>
          /\ c.flow \in DOMAIN flows /\ flows[c.flow] \in Flow
          /\ flows[c.flow].account \in Account
  BY CallFields, FlowFields, BoundsTyped DEF CallsOwn, OwnLogin, FlowsOwn
<1>6. c.at = "mint" =>
          /\ UpsertUserByProvider(Issuer, c.account, c.email) \subseteq UserRow
          /\ Session(c).id \in UserId
          /\ Session(c) \in [id : UserId, via : 0 .. MaxFlows]
  BY CallFields, UpsertTyped, SessionFields
<1>7. CASE ExchangeCode(c)
  <2> DEFINE next == [at |-> "mint", browser |-> c.browser, flow |-> c.flow,
                      account |-> flows[c.flow].account,
                      email |-> mail[flows[c.flow].account]]
  <2>1. /\ c.at = "exchange" /\ NewProvider("ready")
        /\ flows' = [flows EXCEPT ![c.flow].code = "used"]
        /\ calls' = (calls \ {c}) \cup {next}
        /\ UNCHANGED <<mode, users, mail, jar, tokens, changes, unsure, Pages>>
    BY <1>7 DEF ExchangeCode
  <2>2. flows' \in Seq(Flow) /\ Len(flows') <= MaxFlows
    BY <1>5, <2>1, FlowUpdateTyped
  <2>3. next \in Call
    BY <1>1, <1>5, <2>1, CallFields DEF TypeOK, Call
  <2>4. calls' \subseteq Call
    BY <1>1, <2>1, <2>3
  <2> QED
    BY <1>2, <2>1, <2>2, <2>4 DEF TypeOK, Pages
<1>8. CASE ExchangeFails(c)
  <2>1. /\ c.at = "exchange" /\ calls' = calls \ {c}
        /\ ClearStateCookie(c.browser)
        /\ UNCHANGED <<mode, users, mail, tokens, changes, unsure, Pages>>
    BY <1>8 DEF ExchangeFails
  <2>2. \/ UNCHANGED flows
        \/ \E code \in {flows[c.flow].code, "used"} :
               flows' = [flows EXCEPT ![c.flow].code = code]
    BY <1>8 DEF ExchangeFails
  <2>3. flows' \in Seq(Flow) /\ Len(flows') <= MaxFlows
    <3>1. {flows[c.flow].code, "used"} \subseteq {"none", "asked", "issued", "used"}
      BY <1>5, <2>1 DEF Flow
    <3>2. CASE UNCHANGED flows
      BY <3>2 DEF TypeOK
    <3>3. CASE \E code \in {flows[c.flow].code, "used"} :
                   flows' = [flows EXCEPT ![c.flow].code = code]
      BY <1>5, <2>1, <3>1, <3>3, FlowUpdateTyped
    <3> QED
      BY <2>2, <3>2, <3>3
  <2>4. /\ provider' \in {"fresh", "ready", "failed"} /\ faults' \in 0 .. MaxFaults
    <3>1. CASE NewProvider("failed") \/ NewProvider("ready")
      BY <1>2, <3>1
    <3>2. CASE Fault /\ UNCHANGED provider
      BY <1>3, <3>2 DEF TypeOK
    <3> QED
      BY <1>8, <3>1, <3>2 DEF ExchangeFails
  <2> QED
    BY <1>1, <1>4, <2>1, <2>3, <2>4 DEF TypeOK, Pages, ClearStateCookie
<1>9. CASE Mint(c)
  <2>1. PICK f \in 0 .. MaxFlows :
            jar' = [jar EXCEPT ![c.browser].session = Session(c), ![c.browser].state = f]
    <3>1. jar[c.browser].state \in 0 .. MaxFlows
      BY <1>1 DEF TypeOK, Jar
    <3> QED
      BY <1>9, <3>1, EmptyCookies DEF Mint
  <2>2. jar' \in [Browser -> Jar]
    <3>1. Session(c) \in Held
      BY <1>6, <1>9 DEF Mint, Held
    <3> QED
      BY <1>1, <2>1, <3>1, EmptyCookies, JarTyped
  <2>3. tokens' \subseteq UserId
    BY <1>6, <1>9 DEF Mint, TypeOK
  <2> QED
    BY <1>1, <1>6, <1>9, <2>2, <2>3 DEF Mint, TypeOK, Pages
<1>10. CASE MintFails(c)
  BY <1>1, <1>3, <1>10 DEF MintFails, TypeOK, Pages
<1>11. CASE CommitFails(c)
  <2>1. jar' \in [Browser -> Jar]
    BY <1>1, <1>6, <1>11, EmptyCookies, JarTyped DEF CommitFails, Held
  <2>2. users' \subseteq UserRow
    BY <1>6, <1>11 DEF CommitFails, TypeOK
  <2>3. unsure' \subseteq UserId
    BY <1>6, <1>11 DEF CommitFails, TypeOK
  <2> QED
    BY <1>1, <1>3, <1>11, <2>1, <2>2, <2>3 DEF CommitFails, TypeOK, Pages
<1>12. CASE AnswerLost(c)
  BY <1>1, <1>3, <1>6, <1>12 DEF AnswerLost, TypeOK, Pages
<1> QED
  BY <1>7, <1>8, <1>9, <1>10, <1>11, <1>12 DEF Handle

LEMMA TypeStep ==
    ASSUME TypeOK, FlowsOwn, CallsOwn, [Next]_vars
    PROVE  TypeOK'
<1>1. CASE \E b \in Browser : Browse(b)
  BY <1>1, BrowseTypes
<1>2. CASE \E c \in calls : Handle(c)
  BY <1>2, HandleTypes
<1>3. ASSUME NEW f \in DOMAIN flows, Denied(f)
      PROVE  TypeOK'
  <2>1. flows[f].browser \in Browser
    BY FlowFields DEF Flow
  <2>2. jar' \in [Browser -> Jar]
    BY <1>3, <2>1, EmptyCookies, JarTyped DEF Denied, ClearStateCookie
  <2>3. flows' \in Seq(Flow) /\ Len(flows') <= MaxFlows
    BY <1>3, FlowUpdateTyped DEF Denied
  <2> QED
    BY <1>3, <2>2, <2>3 DEF Denied, TypeOK, Pages
<1>4. ASSUME NEW f \in DOMAIN flows, NEW a \in Account, Authenticate(f, a)
      PROVE  TypeOK'
  <2>1. flows' \in Seq(Flow) /\ Len(flows') <= MaxFlows
    BY <1>4, FlowUpdateTyped DEF Authenticate
  <2> QED
    BY <1>4, <2>1 DEF Authenticate, TypeOK, Pages
<1>5. ASSUME NEW a \in Account, NEW m \in Mail, ChangeMail(a, m)
      PROVE  TypeOK'
  BY <1>5, BoundsTyped DEF ChangeMail, Change, TypeOK, Pages
<1>6. CASE Restart
  BY <1>6, BoundsTyped DEF Restart, Change, TypeOK, Pages
<1>7. CASE UNCHANGED vars
  BY <1>7 DEF vars, TypeOK
<1> QED
  BY <1>1, <1>2, <1>3, <1>4, <1>5, <1>6, <1>7 DEF Next

-------------------------------------------------------------------------------
(* Whose logins, cookies and calls they are. *)

LEMMA OwnLoginStays ==
    ASSUME TypeOK, [Next]_vars, NEW f, NEW b, OwnLogin(f, b)
    PROVE  OwnLogin(f, b)' /\ flows'[f].account = flows[f].account
  BY FlowsGrow DEF OwnLogin

LEMMA FlowsOwnStep ==
    ASSUME TypeOK, FlowsOwn, CallsOwn, [Next]_vars
    PROVE  FlowsOwn'
<1>1. flows \in Seq(Flow) /\ Len(flows) \in Nat
  BY DEF TypeOK
<1>2. CASE UNCHANGED flows
  BY <1>2 DEF FlowsOwn
<1>3. ASSUME NEW b \in Browser, Login(b)
      PROVE  FlowsOwn'
  <2>1. PICK code \in {"asked", "none"} :
            flows' = Append(flows, [browser |-> b, secret |-> GenerateState(Len(flows) + 1),
                                    account |-> None, code |-> code])
    BY <1>3 DEF Login
  <2>2. /\ DOMAIN flows' = 1 .. Len(flows) + 1
        /\ flows'[Len(flows) + 1].secret = Len(flows) + 1
        /\ flows'[Len(flows) + 1].code = code
        /\ \A f \in 1 .. Len(flows) : f \in DOMAIN flows /\ flows'[f] = flows[f]
    BY <1>1, <2>1 DEF GenerateState
  <2> QED
    BY <1>1, <2>2 DEF FlowsOwn, Answered
<1>4. ASSUME NEW g \in DOMAIN flows, NEW a \in Account, Authenticate(g, a)
      PROVE  FlowsOwn'
  BY <1>1, <1>4, FlowFields DEF Authenticate, FlowsOwn, Answered, Flow
<1>5. ASSUME NEW g \in DOMAIN flows, Denied(g)
      PROVE  FlowsOwn'
  BY <1>1, <1>5, FlowFields DEF Denied, FlowsOwn, Answered, Flow
<1>6. ASSUME NEW c \in calls, c.at = "exchange",
             NEW code \in {flows[c.flow].code, "used"},
             flows' = [flows EXCEPT ![c.flow].code = code]
      PROVE  FlowsOwn'
  <2>1. c.flow \in DOMAIN flows /\ flows[c.flow].code \in Answered
    BY <1>6, CallFields, BoundsTyped DEF CallsOwn, OwnLogin
  <2> QED
    BY <1>1, <1>6, <2>1, FlowFields DEF FlowsOwn, Answered, Flow
<1>7. ASSUME NEW c \in calls, Handle(c)
      PROVE  FlowsOwn'
  <2>1. \/ UNCHANGED flows
        \/ c.at = "exchange" /\ \E code \in {flows[c.flow].code, "used"} :
               flows' = [flows EXCEPT ![c.flow].code = code]
    BY <1>7 DEF Handle, ExchangeCode, ExchangeFails, Mint, MintFails, CommitFails, AnswerLost
  <2> QED
    BY <1>2, <1>6, <2>1
<1>8. ASSUME NEW b \in Browser, Browse(b)
      PROVE  FlowsOwn'
  <2>1. UNCHANGED flows \/ Login(b)
    BY <1>8 DEF Browse, Callback, Exchange, Dashboard, GenerateToken, Logout, Expire
  <2> QED
    BY <1>2, <1>3, <2>1
<1>9. ASSUME NEW a \in Account, NEW m \in Mail, ChangeMail(a, m)
      PROVE  FlowsOwn'
  BY <1>2, <1>9 DEF ChangeMail
<1>10. CASE Restart
  BY <1>2, <1>10 DEF Restart
<1>11. CASE UNCHANGED vars
  BY <1>2, <1>11 DEF vars
<1> QED
  BY <1>4, <1>5, <1>7, <1>8, <1>9, <1>10, <1>11 DEF Next

LEMMA JarsOwnStep ==
    ASSUME TypeOK, JarsOwn, [Next]_vars
    PROVE  JarsOwn'
<1> SUFFICES ASSUME NEW b \in Browser, jar'[b].state # 0
             PROVE  /\ jar'[b].state \in DOMAIN flows'
                    /\ flows'[jar'[b].state].browser = b
  BY DEF JarsOwn
<1>1. CASE jar'[b].state = jar[b].state
  BY <1>1, FlowsGrow DEF JarsOwn
<1>2. CASE Login(b) /\ jar'[b].state = GenerateState(Len(flows) + 1)
  <2>1. PICK new : flows' = Append(flows, new) /\ new.browser = b
    BY <1>2 DEF Login
  <2> QED
    BY <1>2, <2>1 DEF GenerateState, TypeOK
<1> QED
  BY <1>1, <1>2, CookieSteps DEF CookiesOf

\* The calls of the next state.
LEMMA CallKinds ==
    ASSUME TypeOK, FlowsOwn, JarsOwn, CallsOwn, [Next]_vars, NEW c \in calls'
    PROVE  \/ c \in calls
           \/ c.flow = 0
           \/ OwnLogin(c.flow, c.browser) /\ c.at = "exchange"
           \/ OwnLogin(c.flow, c.browser) /\ c.account = flows[c.flow].account
<1> DEFINE Goal == \/ c \in calls
                   \/ c.flow = 0
                   \/ OwnLogin(c.flow, c.browser) /\ c.at = "exchange"
                   \/ OwnLogin(c.flow, c.browser) /\ c.account = flows[c.flow].account
<1>1. ASSUME NEW b \in Browser, NEW f \in DOMAIN flows, Callback(b, f)
      PROVE  Goal
  <2>1. \/ UNCHANGED calls
        \/ /\ jar[b].state = flows[f].secret
           /\ calls' = calls \cup {[at |-> "exchange", browser |-> b, flow |-> f]}
    BY <1>1 DEF Callback
  <2>2. jar[b].state # 0 /\ flows[f].code \in Answered /\ flows[f].secret = f
    BY <1>1 DEF Callback, Answered, FlowsOwn
  <2>3. jar[b].state = flows[f].secret => OwnLogin(f, b)
    BY <2>2 DEF OwnLogin, JarsOwn
  <2> QED
    BY <2>1, <2>3
<1>2. ASSUME NEW b \in Browser, Browse(b)
      PROVE  Goal
  <2>1. ASSUME NEW a \in Account, Exchange(b, a)
        PROVE  c \in calls \/ c.flow = 0
    <3>1. calls' = calls \cup {[at |-> "mint", browser |-> b, flow |-> 0,
                               account |-> a, email |-> mail[a]]}
      BY <2>1 DEF Exchange
    <3> QED
      BY <3>1
  <2>2. c \in calls \/ (\E a \in Account : Exchange(b, a))
            \/ \E f \in DOMAIN flows : Callback(b, f)
    BY <1>2 DEF Browse, Login, Dashboard, GenerateToken, Logout, Expire
  <2> QED
    BY <1>1, <2>1, <2>2
<1>3. ASSUME NEW d \in calls, ExchangeCode(d)
      PROVE  Goal
  <2>1. OwnLogin(d.flow, d.browser)
    BY <1>3, CallFields, BoundsTyped DEF CallsOwn, ExchangeCode
  <2>2. \/ c \in calls
        \/ c = [at |-> "mint", browser |-> d.browser, flow |-> d.flow,
                account |-> flows[d.flow].account,
                email |-> mail[flows[d.flow].account]]
    BY <1>3 DEF ExchangeCode
  <2> QED
    BY <2>1, <2>2
<1>4. ASSUME NEW d \in calls, Handle(d)
      PROVE  Goal
  BY <1>3, <1>4 DEF Handle, ExchangeFails, Mint, MintFails, CommitFails, AnswerLost
<1>5. ASSUME NEW f \in DOMAIN flows, NEW a \in Account, Denied(f) \/ Authenticate(f, a)
      PROVE  Goal
  BY <1>5 DEF Denied, Authenticate
<1>6. ASSUME NEW f \in DOMAIN flows, Denied(f)
      PROVE  Goal
  BY <1>6 DEF Denied
<1>7. ASSUME NEW a \in Account, NEW m \in Mail, ChangeMail(a, m)
      PROVE  Goal
  BY <1>7 DEF ChangeMail
<1>8. CASE Restart
  BY <1>8 DEF Restart
<1>9. CASE UNCHANGED vars
  BY <1>9 DEF vars
<1> QED
  BY <1>2, <1>4, <1>5, <1>6, <1>7, <1>8, <1>9 DEF Next

LEMMA CallsOwnStep ==
    ASSUME TypeOK, FlowsOwn, JarsOwn, CallsOwn, [Next]_vars
    PROVE  CallsOwn'
<1> SUFFICES ASSUME NEW c \in calls', c.flow # 0
             PROVE  /\ OwnLogin(c.flow, c.browser)'
                    /\ c.at = "mint" => c.account = flows'[c.flow].account
  BY DEF CallsOwn
<1>1. OwnLogin(c.flow, c.browser) /\ (c.at = "mint" => c.account = flows[c.flow].account)
  BY CallKinds DEF CallsOwn
<1> QED
  BY <1>1, OwnLoginStays

LEMMA SessionsOwnStep ==
    ASSUME TypeOK, CallsOwn, SessionsOwn, [Next]_vars
    PROVE  SessionsOwn'
<1> SUFFICES ASSUME NEW b \in Browser, NEW s, s = jar'[b].session, s.via # 0
             PROVE  OwnLogin(s.via, b)' /\ s.id \in Keys(flows'[s.via].account)
  BY DEF SessionsOwn, OwnLogin, Keys
<1>1. CASE s = jar[b].session
  BY <1>1, OwnLoginStays DEF SessionsOwn
<1>2. ASSUME NEW c \in calls, Mint(c) \/ CommitFails(c), c.browser = b, s = Session(c)
      PROVE  OwnLogin(s.via, b)' /\ s.id \in Keys(flows'[s.via].account)
  <2>1. c.at = "mint"
    BY <1>2 DEF Mint, CommitFails
  <2>2. s.via = c.flow /\ s.id = DeriveUserID(Issuer, c.account)
    BY <1>2, <2>1, SessionFields
  <2>3. OwnLogin(c.flow, b) /\ c.account = flows[c.flow].account
    BY <1>2, <2>1, <2>2 DEF CallsOwn
  <2>4. DeriveUserID(Issuer, c.account) \in Keys(c.account)
    BY IssuerTyped DEF Keys
  <2> QED
    BY <2>2, <2>3, <2>4, OwnLoginStays
<1>3. NoSession.via = 0
  BY DEF NoSession
<1> QED
  BY <1>1, <1>2, <1>3, CookieSteps DEF CookiesOf

LEMMA LoginStart == Init => LoginInv
  BY BoundsTyped DEF Init, LoginInv, TypeOK, FlowsOwn, JarsOwn, CallsOwn, SessionsOwn,
                     EmptyJar, NoSession, Jar

LEMMA LoginStep ==
    ASSUME LoginInv, [Next]_vars
    PROVE  LoginInv'
  BY TypeStep, FlowsOwnStep, JarsOwnStep, CallsOwnStep, SessionsOwnStep DEF LoginInv

LEMMA LoginInvariant == Spec => []LoginInv
<1>1. Init => LoginInv
  BY LoginStart
<1>2. LoginInv /\ [Next]_vars => LoginInv'
  BY LoginStep
<1> QED
  BY <1>1, <1>2, PTL DEF Spec

\* The values of all variables are of their kinds, for any number of browsers,
\* accounts and logins.
THEOREM LoginTyped == Spec => []TypeOK
<1>1. LoginInv => TypeOK
  BY DEF LoginInv
<1> QED
  BY <1>1, LoginInvariant, PTL

\* Whatever URLs are opened where, in whichever order callbacks and logins
\* interleave, a session is that of an account that signed in during a login
\* which that browser began.
THEOREM SessionsAreOwn == Spec => []SessionsComeFromOwnLogins
<1>1. LoginInv => SessionsComeFromOwnLogins
  BY DEF LoginInv, SessionsOwn, SessionsComeFromOwnLogins, OwnLogin, Keys
<1> QED
  BY <1>1, LoginInvariant, PTL

-------------------------------------------------------------------------------
(* CSRF tokens. *)

\* A browser's token is younger than those it had when it last logged out.
TokensInv ==
    \A b \in Browser :
        /\ retired[b] <= csrfs /\ jar[b].csrf <= csrfs
        /\ jar[b].csrf # 0 => jar[b].csrf > retired[b]

LEMMA RetiredSteps ==
    ASSUME TypeOK, [Next]_vars, NEW b \in Browser
    PROVE  csrfs' \in {csrfs, csrfs + 1} /\ retired'[b] \in {retired[b], csrfs}
<1>1. csrfs \in Nat /\ retired \in [Browser -> 0 .. MaxPages]
  BY BoundsTyped DEF TypeOK
<1>2. ASSUME NEW d \in Browser, Dashboard(d)
      PROVE  csrfs' \in {csrfs, csrfs + 1} /\ retired' = retired
  BY <1>2 DEF Dashboard
<1>3. ASSUME NEW d \in Browser, Logout(d)
      PROVE  csrfs' = csrfs /\ retired'[b] \in {retired[b], csrfs}
  BY <1>1, <1>3 DEF Logout
<1>4. \/ \E d \in Browser : Dashboard(d) \/ Logout(d)
      \/ UNCHANGED <<csrfs, retired>>
  <2>1. ASSUME NEW d \in Browser, Browse(d)
        PROVE  Dashboard(d) \/ Logout(d) \/ UNCHANGED <<csrfs, retired>>
    BY <2>1 DEF Browse, Login, Callback, Exchange, GenerateToken, Expire, Pages
  <2>2. ASSUME NEW c \in calls, Handle(c)
        PROVE  UNCHANGED <<csrfs, retired>>
    BY <2>2 DEF Handle, ExchangeCode, ExchangeFails, Mint, MintFails, CommitFails,
                AnswerLost, Pages
  <2>3. ASSUME NEW f \in DOMAIN flows, Denied(f)
        PROVE  UNCHANGED <<csrfs, retired>>
    BY <2>3 DEF Denied, Pages
  <2>4. ASSUME NEW f \in DOMAIN flows, NEW a \in Account, Authenticate(f, a)
        PROVE  UNCHANGED <<csrfs, retired>>
    BY <2>4 DEF Authenticate, Pages
  <2>5. ASSUME NEW a \in Account, NEW m \in Mail, ChangeMail(a, m)
        PROVE  UNCHANGED <<csrfs, retired>>
    BY <2>5 DEF ChangeMail, Pages
  <2>6. CASE Restart
    BY <2>6 DEF Restart, Pages
  <2> QED
    BY <2>1, <2>2, <2>3, <2>4, <2>5, <2>6 DEF Next, vars
<1> QED
  BY <1>1, <1>2, <1>3, <1>4

LEMMA TokensStep ==
    ASSUME TypeOK, TokensInv, [Next]_vars
    PROVE  TokensInv'
<1> SUFFICES ASSUME NEW b \in Browser
             PROVE  /\ retired'[b] <= csrfs' /\ jar'[b].csrf <= csrfs'
                    /\ jar'[b].csrf # 0 => jar'[b].csrf > retired'[b]
  BY DEF TokensInv
<1>1. csrfs \in Nat /\ retired[b] \in Nat /\ jar[b].csrf \in Nat
  BY BoundsTyped DEF TypeOK, Jar
<1>2. csrfs' \in {csrfs, csrfs + 1} /\ retired'[b] \in {retired[b], csrfs}
  BY RetiredSteps
<1>3. /\ retired[b] <= csrfs /\ jar[b].csrf <= csrfs
      /\ jar[b].csrf # 0 => jar[b].csrf > retired[b]
  BY DEF TokensInv
<1>4. \/ jar'[b].csrf = 0
      \/ jar'[b].csrf = jar[b].csrf /\ retired'[b] = retired[b]
      \/ jar'[b].csrf = csrfs + 1 /\ csrfs' = csrfs + 1 /\ retired'[b] = retired[b]
  BY CookieSteps DEF CookiesOf
<1> QED
  BY <1>1, <1>2, <1>3, <1>4

\* For any number of pages, browsers and logins, no form of a page opened before
\* the browser's last logout is accepted.
THEOREM OldPagesStayRefused == Spec => []OldPagesAreRefused
<1>1. Init => TokensInv
  <2>1. EmptyJar.csrf = 0
    BY DEF EmptyJar
  <2>2. Init => /\ csrfs = 0
                /\ \A b \in Browser : retired[b] = 0 /\ jar[b].csrf = 0
    BY <2>1 DEF Init
  <2>3. ASSUME Init, NEW b \in Browser
        PROVE  /\ retired[b] <= csrfs /\ jar[b].csrf <= csrfs
               /\ jar[b].csrf # 0 => jar[b].csrf > retired[b]
    BY <2>2, <2>3
  <2> QED
    BY <2>3 DEF TokensInv
<1>2. LoginInv /\ TokensInv /\ [Next]_vars => TokensInv'
  BY TokensStep DEF LoginInv
<1>3. TokensInv => OldPagesAreRefused
  BY DEF TokensInv, OldPagesAreRefused, CsrfValid
<1> QED
  BY <1>1, <1>2, <1>3, LoginInvariant, PTL DEF Spec

-------------------------------------------------------------------------------
(* The users table. *)

RowsKeyed == \A r \in users : r.id = DeriveUserID(r.provider, r.account)

\* The table changes by an upsert for the account of a call, or not at all.
LEMMA UserSteps ==
    ASSUME [Next]_vars
    PROVE  \/ UNCHANGED users
           \/ \E c \in calls :
                  /\ c.at = "mint"
                  /\ users' = UpsertUserByProvider(Issuer, c.account, c.email)
<1>1. ASSUME NEW b \in Browser, Browse(b)
      PROVE  UNCHANGED users
  BY <1>1 DEF Browse, Login, Callback, Exchange, Dashboard, GenerateToken, Logout, Expire
<1>2. ASSUME NEW c \in calls, Handle(c)
      PROVE  \/ UNCHANGED users
             \/ /\ c.at = "mint"
                /\ users' = UpsertUserByProvider(Issuer, c.account, c.email)
  BY <1>2 DEF Handle, ExchangeCode, ExchangeFails, Mint, MintFails, CommitFails, AnswerLost
<1>3. ASSUME NEW f \in DOMAIN flows, Denied(f)
      PROVE  UNCHANGED users
  BY <1>3 DEF Denied
<1>4. ASSUME NEW f \in DOMAIN flows, NEW a \in Account, Authenticate(f, a)
      PROVE  UNCHANGED users
  BY <1>4 DEF Authenticate
<1>5. ASSUME NEW a \in Account, NEW m \in Mail, ChangeMail(a, m)
      PROVE  UNCHANGED users
  BY <1>5 DEF ChangeMail
<1>6. CASE Restart
  BY <1>6 DEF Restart
<1> QED
  BY <1>1, <1>2, <1>3, <1>4, <1>5, <1>6 DEF Next, vars

\* An upsert keeps the ids there are, the one of the account included.
LEMMA UpsertKeepsIds ==
    ASSUME RowsKeyed, NEW a, NEW e
    PROVE  LET new == UpsertUserByProvider(Issuer, a, e)
           IN /\ \A r \in new : r.id = DeriveUserID(r.provider, r.account)
              /\ \E r \in new : r.id = DeriveUserID(Issuer, a)
              /\ \A r \in users : \E s \in new : s.id = r.id
<1> DEFINE row == [id |-> DeriveUserID(Issuer, a), email |-> e, provider |-> Issuer,
                   account |-> a]
<1>1. row \in UpsertUserByProvider(Issuer, a, e)
  BY DEF UpsertUserByProvider
<1>2. \A r \in users : ~SameIdentity(r, Issuer, a) =>
          r \in UpsertUserByProvider(Issuer, a, e)
  BY DEF UpsertUserByProvider
<1>3. \A r \in users : SameIdentity(r, Issuer, a) => r.id = row.id
  BY DEF RowsKeyed, SameIdentity
<1>4. \A r \in UpsertUserByProvider(Issuer, a, e) : r = row \/ r \in users
  BY DEF UpsertUserByProvider
<1> QED
  BY <1>1, <1>2, <1>3, <1>4 DEF RowsKeyed

LEMMA RowsStep ==
    ASSUME RowsKeyed, [Next]_vars
    PROVE  /\ RowsKeyed'
           /\ \A r \in users : \E s \in users' : s.id = r.id
<1>1. CASE UNCHANGED users
  BY <1>1 DEF RowsKeyed
<1>2. ASSUME NEW c \in calls, users' = UpsertUserByProvider(Issuer, c.account, c.email)
      PROVE  /\ \A r \in users' : r.id = DeriveUserID(r.provider, r.account)
             /\ \A r \in users : \E s \in users' : s.id = r.id
  BY <1>2, UpsertKeepsIds
<1> QED
  BY <1>1, <1>2, UserSteps DEF RowsKeyed

\* The commit of a login was answered with an error, or the row is there.
Known(id) == HasRow(id) \/ id \in unsure

LEMMA KnownStays ==
    ASSUME RowsKeyed, [Next]_vars, NEW id, Known(id)
    PROVE  Known(id)'
<1>1. unsure \subseteq unsure'
  <2>1. ASSUME NEW b \in Browser, Browse(b)
        PROVE  UNCHANGED unsure
    BY <2>1 DEF Browse, Login, Callback, Exchange, Dashboard, GenerateToken, Logout, Expire
  <2>2. ASSUME NEW c \in calls, Handle(c)
        PROVE  unsure \subseteq unsure'
    BY <2>2 DEF Handle, ExchangeCode, ExchangeFails, Mint, MintFails, CommitFails, AnswerLost
  <2>3. ASSUME NEW f \in DOMAIN flows, Denied(f)
        PROVE  UNCHANGED unsure
    BY <2>3 DEF Denied
  <2>4. ASSUME NEW f \in DOMAIN flows, NEW a \in Account, Authenticate(f, a)
        PROVE  UNCHANGED unsure
    BY <2>4 DEF Authenticate
  <2>5. ASSUME NEW a \in Account, NEW m \in Mail, ChangeMail(a, m)
        PROVE  UNCHANGED unsure
    BY <2>5 DEF ChangeMail
  <2>6. CASE Restart
    BY <2>6 DEF Restart
  <2> QED
    BY <2>1, <2>2, <2>3, <2>4, <2>5, <2>6 DEF Next, vars
<1> QED
  BY <1>1, RowsStep DEF Known, HasRow

\* The step that hands out a session or a token leaves its user known.
LEMMA MintedIsKnown ==
    ASSUME TypeOK, RowsKeyed, NEW c \in calls, Mint(c) \/ CommitFails(c),
           NEW id, id = Session(c).id
    PROVE  Known(id)'
<1>1. CASE Mint(c)
  <2>1. id = DeriveUserID(Issuer, c.account)
    BY <1>1, SessionFields DEF Mint
  <2>2. users' = UpsertUserByProvider(Issuer, c.account, c.email)
    BY <1>1 DEF Mint
  <2>3. \E r \in users' : r.id = DeriveUserID(Issuer, c.account)
    BY <2>2, UpsertKeepsIds
  <2> QED
    BY <2>1, <2>3 DEF Known, HasRow
<1>2. CASE CommitFails(c)
  BY <1>2 DEF CommitFails, Known
<1> QED
  BY <1>1, <1>2

KnownInv ==
    /\ RowsKeyed
    /\ \A b \in Browser : HasSession(b) => Known(jar[b].session.id)
    /\ \A id \in tokens : Known(id)

\* Tokens are handed out by the exchange and by the dashboard.
LEMMA TokenSteps ==
    ASSUME [Next]_vars, NEW id \in tokens'
    PROVE  \/ id \in tokens
           \/ \E b \in Browser : HasSession(b) /\ id = jar[b].session.id
           \/ \E c \in calls : Mint(c) /\ id = Session(c).id
<1>1. ASSUME NEW b \in Browser, Browse(b)
      PROVE  id \in tokens \/ (HasSession(b) /\ id = jar[b].session.id)
  BY <1>1 DEF Browse, Login, Callback, Exchange, Dashboard, GenerateToken, Logout, Expire
<1>2. ASSUME NEW c \in calls, Handle(c)
      PROVE  id \in tokens \/ (Mint(c) /\ id = Session(c).id)
  <2>1. CASE Mint(c)
    <3>1. tokens' \in {tokens, tokens \cup {Session(c).id}}
      BY <2>1 DEF Mint
    <3> QED
      BY <2>1, <3>1
  <2> QED
    BY <1>2, <2>1 DEF Handle, ExchangeCode, ExchangeFails, MintFails, CommitFails, AnswerLost
<1>3. ASSUME NEW f \in DOMAIN flows, Denied(f)
      PROVE  id \in tokens
  BY <1>3 DEF Denied
<1>4. ASSUME NEW f \in DOMAIN flows, NEW a \in Account, Authenticate(f, a)
      PROVE  id \in tokens
  BY <1>4 DEF Authenticate
<1>5. ASSUME NEW a \in Account, NEW m \in Mail, ChangeMail(a, m)
      PROVE  id \in tokens
  BY <1>5 DEF ChangeMail
<1>6. CASE Restart
  BY <1>6 DEF Restart
<1> QED
  BY <1>1, <1>2, <1>3, <1>4, <1>5, <1>6 DEF Next, vars

LEMMA KnownStep ==
    ASSUME TypeOK, KnownInv, [Next]_vars
    PROVE  KnownInv'
<1>1. RowsKeyed'
  BY RowsStep DEF KnownInv
<1>2. ASSUME NEW b \in Browser, HasSession(b)'
      PROVE  Known(jar[b].session.id)'
  <2> DEFINE s == jar'[b].session
  <2>1. CASE s = jar[b].session /\ HasSession(b)
    <3>1. Known(jar[b].session.id)
      BY <2>1 DEF KnownInv
    <3>2. PICK id : id = jar[b].session.id
      OBVIOUS
    <3>3. Known(id)'
      BY <3>1, <3>2, KnownStays DEF KnownInv
    <3> QED
      BY <2>1, <3>2, <3>3 DEF Known, HasRow
  <2>2. ASSUME NEW c \in calls, Mint(c) \/ CommitFails(c), s = Session(c)
        PROVE  Known(jar[b].session.id)'
    <3>1. PICK id : id = Session(c).id
      OBVIOUS
    <3>2. Known(id)'
      BY <2>2, <3>1, MintedIsKnown DEF KnownInv
    <3> QED
      BY <2>2, <3>1, <3>2 DEF Known, HasRow
  <2>3. \/ s = jar[b].session /\ HasSession(b)
        \/ \E c \in calls : (Mint(c) \/ CommitFails(c)) /\ s = Session(c)
    <3>1. s # NoSession
      BY <1>2 DEF HasSession
    <3>2. \/ s \in {jar[b].session, NoSession}
          \/ \E c \in calls : (Mint(c) \/ CommitFails(c)) /\ s = Session(c)
      BY CookieSteps DEF CookiesOf
    <3> QED
      BY <3>1, <3>2 DEF HasSession
  <2> QED
    BY <2>1, <2>2, <2>3
<1>3. ASSUME NEW id \in tokens'
      PROVE  Known(id)'
  <2>1. CASE Known(id)
    BY <2>1, KnownStays DEF KnownInv
  <2>2. ASSUME NEW c \in calls, Mint(c), id = Session(c).id
        PROVE  Known(id)'
    BY <2>2, MintedIsKnown DEF KnownInv
  <2> QED
    BY <2>1, <2>2, TokenSteps DEF KnownInv
<1> QED
  BY <1>1, <1>2, <1>3 DEF KnownInv

\* For any number of logins, faults and changes of address, whoever holds a session
\* or a token has a row, unless its commit was answered with an error.
THEOREM HoldersAreKnown == Spec => []IdsNameUsers
<1>1. Init => KnownInv
  BY DEF Init, KnownInv, RowsKeyed, HasSession, EmptyJar
<1>2. LoginInv /\ KnownInv /\ [Next]_vars => KnownInv'
  BY KnownStep DEF LoginInv
<1>3. KnownInv => IdsNameUsers
  BY DEF KnownInv, Known, IdsNameUsers
<1> QED
  BY <1>1, <1>2, <1>3, LoginInvariant, PTL DEF Spec

-------------------------------------------------------------------------------
(* Who can log in. *)

\* Two accounts never share a key at one provider.
LEMMA KeysDiffer ==
    ASSUME NEW p, NEW a, NEW b, DeriveUserID(p, a) = DeriveUserID(p, b)
    PROVE  a = b
  BY DEF DeriveUserID

\* All rows are of one provider.
OneProvider == RowsKeyed /\ \A r \in users : r.provider = Issuer

LEMMA OneProviderStep ==
    ASSUME MayMigrate = FALSE, OneProvider, [Next]_vars
    PROVE  OneProvider'
<1>1. RowsKeyed'
  BY RowsStep DEF OneProvider
<1>2. Issuer' = Issuer
  <2>1. ASSUME NEW b \in Browser, Browse(b)
        PROVE  UNCHANGED mode
    BY <2>1 DEF Browse, Login, Callback, Exchange, Dashboard, GenerateToken, Logout, Expire
  <2>2. ASSUME NEW c \in calls, Handle(c)
        PROVE  UNCHANGED mode
    BY <2>2 DEF Handle, ExchangeCode, ExchangeFails, Mint, MintFails, CommitFails, AnswerLost
  <2>3. ASSUME NEW f \in DOMAIN flows, Denied(f)
        PROVE  UNCHANGED mode
    BY <2>3 DEF Denied
  <2>4. ASSUME NEW f \in DOMAIN flows, NEW a \in Account, Authenticate(f, a)
        PROVE  UNCHANGED mode
    BY <2>4 DEF Authenticate
  <2>5. ASSUME NEW a \in Account, NEW m \in Mail, ChangeMail(a, m)
        PROVE  UNCHANGED mode
    BY <2>5 DEF ChangeMail
  <2>6. ASSUME Restart
        PROVE  UNCHANGED mode
    BY <2>6 DEF Restart
  <2>7. UNCHANGED mode
    BY <2>1, <2>2, <2>3, <2>4, <2>5, <2>6 DEF Next, vars
  <2> QED
    BY <2>7 DEF Issuer
<1>3. \A r \in users' : r.provider = Issuer
  <2>1. ASSUME NEW c \in calls, users' = UpsertUserByProvider(Issuer, c.account, c.email)
        PROVE  \A r \in users' : r.provider = Issuer
    BY <2>1 DEF UpsertUserByProvider, OneProvider
  <2> QED
    BY <2>1, UserSteps DEF OneProvider
<1> QED
  BY <1>1, <1>2, <1>3 DEF OneProvider

\* Nor do two accounts ever have the same address at the provider.
MailsDiffer == \A a, b \in Account : mail[a] = mail[b] => a = b

LEMMA MailsStep ==
    ASSUME TypeOK, MailsDiffer, [Next]_vars
    PROVE  MailsDiffer'
<1>1. ASSUME NEW a \in Account, NEW m \in Mail, ChangeMail(a, m)
      PROVE  MailsDiffer'
  <2>1. /\ mail' = [mail EXCEPT ![a] = m]
        /\ \A other \in Account : mail[other] # m
        /\ mail \in [Account -> Mail]
    BY <1>1 DEF ChangeMail, TypeOK
  <2> QED
    BY <2>1 DEF MailsDiffer
<1>2. UNCHANGED mail \/ MailsDiffer'
  <2>1. ASSUME NEW b \in Browser, Browse(b)
        PROVE  UNCHANGED mail
    BY <2>1 DEF Browse, Login, Callback, Exchange, Dashboard, GenerateToken, Logout, Expire
  <2>2. ASSUME NEW c \in calls, Handle(c)
        PROVE  UNCHANGED mail
    BY <2>2 DEF Handle, ExchangeCode, ExchangeFails, Mint, MintFails, CommitFails, AnswerLost
  <2>3. ASSUME NEW f \in DOMAIN flows, Denied(f)
        PROVE  UNCHANGED mail
    BY <2>3 DEF Denied
  <2>4. ASSUME NEW f \in DOMAIN flows, NEW a \in Account, Authenticate(f, a)
        PROVE  UNCHANGED mail
    BY <2>4 DEF Authenticate
  <2>5. CASE Restart
    BY <2>5 DEF Restart
  <2> QED
    BY <1>1, <2>1, <2>2, <2>3, <2>4, <2>5 DEF Next, vars
<1> QED
  BY <1>2 DEF MailsDiffer

\* While the provider stays the same, for any number of accounts and addresses,
\* nobody is kept out but by the row of another who has given the address up.
THEOREM LoginStaysOpen ==
    ASSUME MayMigrate = FALSE
    PROVE  Spec => []NobodyIsLockedOut
<1> DEFINE OpenInv == OneProvider /\ MailsDiffer
<1>1. Init => OpenInv
  BY DEF Init, OneProvider, RowsKeyed, MailsDiffer
<1>2. LoginInv /\ OpenInv /\ [Next]_vars => OpenInv'
  BY OneProviderStep, MailsStep DEF LoginInv
<1>3. LoginInv /\ OpenInv => NobodyIsLockedOut
  <2> SUFFICES ASSUME TypeOK, OpenInv, NEW a \in Account, NEW r \in users,
                      ~SameIdentity(r, Issuer, a),
                      r.email = mail[a] \/ r.id = DeriveUserID(Issuer, a)
               PROVE  r.account # a /\ r.email = mail[a] /\ mail[r.account] # mail[a]
    BY DEF NobodyIsLockedOut, Clash, LoginInv
  <2>1. r.account # a /\ r.account \in Account
    BY DEF OneProvider, SameIdentity, TypeOK, UserRow
  <2>2. r.id = DeriveUserID(Issuer, r.account)
    BY DEF OneProvider, RowsKeyed
  <2>3. mail[r.account] # mail[a]
    BY <2>1 DEF MailsDiffer
  <2> QED
    BY <2>1, <2>2, <2>3, KeysDiffer
<1> QED
  BY <1>1, <1>2, <1>3, LoginInvariant, PTL DEF Spec

===============================================================================
