------------------------------- MODULE Session -------------------------------
(***************************************************************************)
(* Logging in to the dashboard and out of it, in several tabs of one       *)
(* browser.  The token is in the browser's storage and shared by the tabs; *)
(* each tab has its own query cache, in which the account it shows (the    *)
(* current admin's data) lives for minutes.  A request that is denied      *)
(* sends the tab to the login page, which asks whether the stored token is *)
(* still good; meanwhile somebody may log in, here or in another tab.      *)
(***************************************************************************)
EXTENDS Integers, Sequences, FiniteSets

CONSTANTS
  Tabs, Admins, NoAdmin,
  MaxLogins, MaxRefetches   \* bounds, the earlier login counted

VARIABLES
  tokens,    \* the tokens handed out: whose each is
  revoked,   \* those the server no longer takes
  token,     \* the stored token, 0 for none
  route,     \* what each tab shows: the login page, the app, or neither yet
  loader, check, query,   \* each tab's requests for the current admin
  login,     \* each tab's login under way: the admin, or the token it got
  cached,    \* the account in each tab's query cache
  mine,      \* history: the token with which each tab's app was loaded
  kicked,    \* history: see ShowsItsAccount
  refetches

sessionVars == <<tokens, revoked, token, route, loader, check, query, login, cached, mine,
                 kicked, refetches>>

\* A request carries the token stored when it is sent; 0 is none.
NoCall    == [with |-> 0, answer |-> "none"]
Call(tok) == [with |-> tok, answer |-> "sent"]
NoLogin   == [admin |-> NoAdmin, got |-> 0]

-----------------------------------------------------------------------------
(* The server.                                                             *)

Accepted(tok) == tok # 0 /\ tok \notin revoked

\* The answer to a call: the admin, a denial, or nothing when the network fails.
Replies(c) ==
  {[c EXCEPT !.answer = a] : a \in {IF Accepted(c.with) THEN "ok" ELSE "denied", "lost"}}

Serve(t) ==
  /\ \/ /\ loader[t].answer = "sent"
        /\ \E c \in Replies(loader[t]) : loader' = [loader EXCEPT ![t] = c]
        /\ UNCHANGED <<check, query>>
     \/ /\ check[t].answer = "sent"
        /\ \E c \in Replies(check[t]) : check' = [check EXCEPT ![t] = c]
        /\ UNCHANGED <<loader, query>>
     \/ /\ query[t].answer = "sent"
        /\ \E c \in Replies(query[t]) : query' = [query EXCEPT ![t] = c]
        /\ UNCHANGED <<loader, check>>
  /\ UNCHANGED <<tokens, revoked, token, route, login, cached, mine, kicked, refetches>>

\* A token expires, or its admin's password is changed.
Revoke(tok) ==
  /\ tok \notin revoked
  /\ revoked' = revoked \cup {tok}
  /\ UNCHANGED <<tokens, token, route, loader, check, query, login, cached, mine, kicked, refetches>>

HandOut(t) ==
  /\ login[t].admin # NoAdmin /\ login[t].got = 0
  /\ tokens' = Append(tokens, login[t].admin)
  /\ login' = [login EXCEPT ![t].got = Len(tokens')]
  /\ UNCHANGED <<revoked, token, route, loader, check, query, cached, mine, kicked, refetches>>

-----------------------------------------------------------------------------
(* The tabs.                                                               *)

\* The page shows; with a token stored it asks whether the token is good.
ToLogin(t) ==
  /\ route' = [route EXCEPT ![t] = "login"]
  /\ check' = [check EXCEPT ![t] = IF token' = 0 THEN NoCall ELSE Call(token')]

\* The app is loaded, which asks for the current admin; the login page is left.
ToApp(t) ==
  /\ route' = [route EXCEPT ![t] = "loading"]
  /\ loader' = [loader EXCEPT ![t] = Call(token')]
  /\ check' = [check EXCEPT ![t] = NoCall]

handleLogin(t, a) ==
  /\ route[t] = "login"
  /\ login[t] = NoLogin
  /\ Len(tokens) + Cardinality({u \in Tabs : login[u].admin # NoAdmin /\ login[u].got = 0}) < MaxLogins
  /\ login' = [login EXCEPT ![t].admin = a]
  /\ UNCHANGED <<tokens, revoked, token, route, loader, check, query, cached, mine, kicked, refetches>>

\* The answer counts even when the tab has left the login page.
LoginSucceeds(t) ==
  /\ login[t].got # 0
  /\ token' = login[t].got
  /\ login' = [login EXCEPT ![t] = NoLogin]
  /\ ToApp(t)
  /\ UNCHANGED <<tokens, revoked, query, cached, mine, kicked, refetches>>

LoginFails(t) ==
  /\ login[t] # NoLogin
  /\ login' = [login EXCEPT ![t] = NoLogin]
  /\ UNCHANGED <<tokens, revoked, token, route, loader, check, query, cached, mine, kicked, refetches>>

\* The app takes the loader's admin unless the cache has one.
fetchAdminLoader(t) ==
  /\ loader[t].answer \in {"ok", "denied", "lost"}
  /\ token' = token
  /\ loader' = [loader EXCEPT ![t] = NoCall]
  /\ IF loader[t].answer = "ok"
       THEN /\ route' = [route EXCEPT ![t] = "app"]
            /\ mine' = [mine EXCEPT ![t] = loader[t].with]
            /\ cached' = [cached EXCEPT ![t] = IF @ = NoAdmin THEN tokens[loader[t].with] ELSE @]
            /\ UNCHANGED <<check, kicked>>
       ELSE /\ ToLogin(t)
            /\ kicked' = [kicked EXCEPT ![t] = TRUE]
            /\ UNCHANGED <<mine, cached>>
  /\ UNCHANGED <<tokens, revoked, query, login, refetches>>

\* The cache and the requests that would fill it are gone.
ClearCache(t) ==
  /\ query' = [query EXCEPT ![t] = NoCall]
  /\ cached' = [cached EXCEPT ![t] = NoAdmin]
  /\ kicked' = [kicked EXCEPT ![t] = FALSE]

\* A bug: a late denial takes the token somebody has got meanwhile.
MUT_StillChecked(t) == TRUE

\* Another flow may have replaced the token that was checked.
StillChecked(t) == token = check[t].with

CheckAnswered(t) ==
  /\ check[t].answer \in {"ok", "denied", "lost"}
  /\ IF check[t].answer = "ok"
       THEN /\ token' = token
            /\ ToApp(t)
            /\ UNCHANGED <<query, cached, kicked>>
       ELSE /\ check' = [check EXCEPT ![t] = NoCall]
            /\ IF check[t].answer = "denied" /\ StillChecked(t)
                 THEN token' = 0 /\ ClearCache(t)
                 ELSE UNCHANGED <<token, query, cached, kicked>>
            /\ UNCHANGED <<route, loader>>
  /\ UNCHANGED <<tokens, revoked, login, mine, refetches>>

\* The network is back, or a component asks again.
Refetch(t) ==
  /\ route[t] = "app"
  /\ query[t] = NoCall
  /\ refetches < MaxRefetches
  /\ refetches' = refetches + 1
  /\ query' = [query EXCEPT ![t] = Call(token)]
  /\ UNCHANGED <<tokens, revoked, token, route, loader, check, login, cached, mine, kicked>>

QueryAnswered(t) ==
  /\ query[t].answer \in {"ok", "denied", "lost"}
  /\ token' = token
  /\ query' = [query EXCEPT ![t] = NoCall]
  /\ cached' = [cached EXCEPT ![t] = IF query[t].answer = "ok" THEN tokens[query[t].with] ELSE @]
  /\ IF query[t].answer = "denied" /\ route[t] # "login"
       THEN /\ ToLogin(t)
            /\ loader' = [loader EXCEPT ![t] = NoCall]
            /\ kicked' = [kicked EXCEPT ![t] = TRUE]
       ELSE UNCHANGED <<route, loader, check, kicked>>
  /\ UNCHANGED <<tokens, revoked, login, mine, refetches>>

\* A bug: the cache is left as it is.
MUT_Forgets(t) == UNCHANGED <<query, cached, kicked>>

Forgets(t) == ClearCache(t)

handleLogout(t) ==
  /\ route[t] = "app"
  /\ token' = 0
  /\ Forgets(t)
  /\ ToLogin(t)
  /\ UNCHANGED <<tokens, revoked, loader, login, mine, refetches>>

\* The tab is opened anew: nothing is cached or under way.
Reload(t) ==
  /\ route[t] \in {"app", "login"}
  /\ token' = token
  /\ ToApp(t)
  /\ ClearCache(t)
  /\ login' = [login EXCEPT ![t] = NoLogin]
  /\ UNCHANGED <<tokens, revoked, mine, refetches>>

-----------------------------------------------------------------------------
\* The browser is opened with the token of an earlier login in its storage.
SessionInit ==
  /\ tokens = <<CHOOSE a \in Admins : TRUE>> /\ revoked = {} /\ token = 1
  /\ route = [t \in Tabs |-> "loading"]
  /\ loader = [t \in Tabs |-> Call(token)]
  /\ check = [t \in Tabs |-> NoCall] /\ query = check
  /\ login = [t \in Tabs |-> NoLogin]
  /\ cached = [t \in Tabs |-> NoAdmin]
  /\ mine = [t \in Tabs |-> 0]
  /\ kicked = [t \in Tabs |-> FALSE]
  /\ refetches = 0

SessionNext ==
  \/ \E tok \in DOMAIN tokens : Revoke(tok)
  \/ \E t \in Tabs : \/ Serve(t) \/ HandOut(t)
                     \/ LoginSucceeds(t) \/ LoginFails(t)
                     \/ fetchAdminLoader(t) \/ CheckAnswered(t)
                     \/ Refetch(t) \/ QueryAnswered(t)
                     \/ handleLogout(t) \/ Reload(t)
                     \/ \E a \in Admins : handleLogin(t, a)

-----------------------------------------------------------------------------
SessionTypeOK ==
  /\ revoked \cup {token} \subseteq 0..Len(tokens)
  /\ route \in [Tabs -> {"login", "loading", "app"}]
  /\ cached \in [Tabs -> Admins \cup {NoAdmin}]
  /\ \A t \in Tabs : (route[t] # "login" => check[t] = NoCall)
                     /\ (route[t] = "app" => cached[t] # NoAdmin)

\* Nobody is logged out of a session that is good: apart from the logout button, the stored
\* token is only dropped when the server has denied that very token.  A check of an old token may be
\* denied long after a login, in this tab or another, has stored a new one.
KeepsSession ==
  (token # 0 /\ token' = 0)
    => token \in revoked \/ \E t \in Tabs : route[t] = "app" /\ route'[t] = "login"

\* The account a tab shows is the one its requests are made for, over any sequence of logins and
\* logouts.  Excepted are a token stored by another tab since, and (kicked) a tab that a denied
\* request or a failed load sent to the login page before its cache was cleared: the login does not
\* clear it, and the app prefers the cached account to the loaded one.
ShowsItsAccount ==
  \A t \in Tabs : (route[t] = "app" /\ token = mine[t] /\ token # 0 /\ ~kicked[t])
                    => cached[t] = tokens[token]
=============================================================================
