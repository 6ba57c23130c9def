------------------------------ MODULE Sessions ------------------------------
(***************************************************************************)
(* Users and sessions: the first setup, login, change of password, logout  *)
(* (internal/api/setup.go, auth.go, internal/model/db.go), the checks of   *)
(* the two middlewares (internal/auth/auth.go), the start of the process   *)
(* (internal/config, main.go), and the cookie of the browsers that call    *)
(* (web/src/helpers/api.js).                                               *)
(*                                                                         *)
(* Each statement of the database is a step.  Answers arrive in any order, *)
(* or not at all.  A user is its name, a hash its password; every user the *)
(* code creates is an administrator.  That a token ends after seven days   *)
(* is left out.                                                            *)
(***************************************************************************)
EXTENDS Integers, FiniteSets, FiniteSetsExt

CONSTANTS
    Names, Passwords, Browsers,
    Calls,      \* calls that may be under way at once
    Key,        \* FCI_PROXY_KEY
    Nil,
    MaxChanges, \* bound of the changes of passwords
    MaxHeaders, \* bound of the calls under way at once with an Authorization header
    MaxStarts   \* bound of the starts of the process

ASSUME Bounds == MaxChanges \in Nat /\ MaxHeaders \in Nat /\ MaxStarts \in Nat \ {0}

VARIABLES
    users,      \* the table: a row for each name, or Nil
    secret,     \* the secret tokens are signed with; Nil while the process is down
    starts,     \* how often it has been started
    cookie,     \* fci_token of each browser
    call,       \* the calls under way, each with its request or its answer
    early,      \* history: setups sent when there was no user
    overtaken,  \* history: changes of a password, verified, that another has come before
    failed      \* history: calls whose tokens the database has failed to check

server == <<users, secret, starts>>
history == <<early, overtaken, failed>>
vars == <<server, cookie, call, history>>

Row == [pw : Passwords, version : Nat]

\* knows: the password its holder gave, or set; overtaken: another has been set since.
Token == [name : Names, version : Nat, secret : 1 .. MaxStarts,
          knows : Passwords, overtaken : BOOLEAN]

Kinds == {"setup", "login", "password", "page", "proxy", "logout"}
Working == {"sent", "checked", "vacant", "authenticated", "verified", "updated", "bearer"}
Unauthorized == {"unauthorized", "expired"}
Answers == {"ok", "cleared", "session", "refused"} \cup Unauthorized

Call == [kind : Kinds, step : Working \cup Answers, browser : Browsers,
         token : Token \cup {Nil}, bearer : Token \cup {Key, Nil},
         name : Names \cup {Nil}, pw : Passwords \cup {Nil}, new : Passwords \cup {Nil}]

ASSUME ValuesApart == Nil \notin Row \cup Token \cup Call \cup Nat \cup Names \cup Passwords
                      /\ Key \notin Token \cup {Nil}

At(c, kind, step) == call[c] # Nil /\ call[c].kind = kind /\ call[c].step = step

\* A request has what its handler reads; the user of an authenticated one exists.
Filled(m) ==
    /\ m.kind \in {"setup", "login"} /\ m.step \in Working => m.name # Nil /\ m.pw # Nil
    /\ m.kind = "password" /\ m.step \in Working => m.pw # Nil /\ m.new # Nil
    /\ m.step \in {"authenticated", "verified", "updated"} => m.name # Nil /\ users[m.name] # Nil
    /\ m.step = "session" => m.token # Nil

TypeOK ==
    /\ users \in [Names -> Row \cup {Nil}]
    /\ secret \in 1 .. MaxStarts \cup {Nil}
    /\ starts \in 0 .. MaxStarts
    /\ cookie \in [Browsers -> Token \cup {Nil}]
    /\ call \in [Calls -> Call \cup {Nil}]
    /\ \A c \in Calls : call[c] # Nil => Filled(call[c])
    /\ early \subseteq Calls /\ overtaken \subseteq Calls /\ failed \subseteq Calls

Init ==
    /\ users = [n \in Names |-> Nil]
    /\ secret = Nil /\ starts = 0
    /\ cookie = [b \in Browsers |-> Nil]
    /\ call = [c \in Calls |-> Nil]
    /\ early = {} /\ overtaken = {} /\ failed = {}

-----------------------------------------------------------------------------
(* The process.                                                            *)

Nobody == \A n \in Names : users[n] = Nil

NewRow(p) == [pw |-> p, version |-> 0]

\* FCI_ADMIN_USER and FCI_ADMIN_PASS, when there is no user yet.
InitAdminFromEnv(n, p) ==
    users' = IF Nobody THEN [users EXCEPT ![n] = NewRow(p)] ELSE users

\* Load takes FCI_JWT_SECRET, which an earlier start may have had, or a random secret;
\* a secret is named by the start that had it first.
Start ==
    /\ secret = Nil /\ starts < MaxStarts
    /\ starts' = starts + 1
    /\ secret' \in 1 .. starts'
    /\ \/ \E n \in Names, p \in Passwords : InitAdminFromEnv(n, p)
       \/ UNCHANGED users
    /\ UNCHANGED <<cookie, call, history>>

\* The process ends, and with it the calls.
Crash ==
    /\ secret # Nil
    /\ secret' = Nil
    /\ call' = [c \in Calls |-> Nil]
    /\ early' = {} /\ overtaken' = {} /\ failed' = {}
    /\ UNCHANGED <<users, starts, cookie>>

-----------------------------------------------------------------------------
(* What browsers send.                                                     *)

Request(kind, b) ==
    [kind |-> kind, step |-> "sent", browser |-> b, token |-> Nil, bearer |-> Nil,
     name |-> Nil, pw |-> Nil, new |-> Nil]

\* A call that finds no process fails, and changes nothing.
Sends(c, request) ==
    /\ call[c] = Nil /\ secret # Nil
    /\ call' = [call EXCEPT ![c] = request]
    /\ UNCHANGED <<server, cookie>>

SendSetup(c, b, n, p) ==
    /\ Sends(c, [Request("setup", b) EXCEPT !.name = n, !.pw = p])
    /\ early' = IF Nobody THEN early \cup {c} ELSE early
    /\ UNCHANGED <<overtaken, failed>>

SendLogin(c, b, n, p) ==
    /\ Sends(c, [Request("login", b) EXCEPT !.name = n, !.pw = p])
    /\ UNCHANGED history

\* A client may put a header beside the cookie it holds, on any call below.
SendPassword(c, b, bearer, old, new) ==
    /\ Sends(c, [Request("password", b) EXCEPT !.token = cookie[b], !.bearer = bearer,
                                               !.pw = old, !.new = new])
    /\ UNCHANGED history

\* Any other page or operation of the management.
SendPage(c, b, bearer) ==
    /\ Sends(c, [Request("page", b) EXCEPT !.token = cookie[b], !.bearer = bearer])
    /\ UNCHANGED history

\* A call of /v1; what stands for its header may also be a token in the query.
SendProxy(c, b, bearer) ==
    /\ Sends(c, [Request("proxy", b) EXCEPT !.token = cookie[b], !.bearer = bearer])
    /\ UNCHANGED history

SendLogout(c, b) ==
    /\ Sends(c, Request("logout", b))
    /\ UNCHANGED history

-----------------------------------------------------------------------------
(* The handlers.                                                           *)

Serves(c, kind, step) == secret # Nil /\ At(c, kind, step)

Goes(c, step) == call' = [call EXCEPT ![c].step = step]

Answer(c, step, token) ==
    call' = [call EXCEPT ![c] =
        [Request(call[c].kind, call[c].browser) EXCEPT
            !.step = step, !.token = token,
            !.bearer = IF step \in Unauthorized THEN call[c].bearer ELSE Nil]]

\* Mutated form of IsSetupRequired: the count is off by one.
IsSetupRequiredStill == Cardinality({n \in Names : users[n] # Nil}) <= 1

IsSetupRequired == Nobody

\* Setup looks, and SetupAdmin looks again ...
CheckSetup(c) ==
    /\ \/ Serves(c, "setup", "sent") /\ IsSetupRequired /\ Goes(c, "checked")
       \/ Serves(c, "setup", "checked") /\ IsSetupRequired /\ Goes(c, "vacant")
       \/ /\ Serves(c, "setup", "sent") \/ Serves(c, "setup", "checked")
          /\ ~IsSetupRequired
          /\ Answer(c, "refused", Nil)
    /\ UNCHANGED <<server, cookie, history>>

\* ... and, when bcrypt has been computed, creates the user, if the name is not taken.
CreateAdmin(c) ==
    /\ Serves(c, "setup", "vacant")
    /\ \/ /\ users[call[c].name] = Nil
          /\ users' = [users EXCEPT ![call[c].name] = NewRow(call[c].pw)]
          /\ Answer(c, "ok", Nil)
       \/ /\ users[call[c].name] # Nil
          /\ Answer(c, "refused", Nil)
          /\ UNCHANGED users
    /\ UNCHANGED <<secret, starts, cookie, history>>

GenerateToken(n, knows, over) ==
    [name |-> n, version |-> users[n].version, secret |-> secret,
     knows |-> knows, overtaken |-> over]

\* One row is read: its hash is compared, and its version goes into the token.
Login(c) ==
    LET n == call[c].name IN
    /\ Serves(c, "login", "sent")
    /\ \/ /\ users[n] # Nil /\ users[n].pw = call[c].pw
          /\ Answer(c, "session", GenerateToken(n, call[c].pw, FALSE))
       \/ /\ users[n] # Nil => users[n].pw # call[c].pw
          /\ Answer(c, "unauthorized", Nil)
    /\ UNCHANGED <<server, cookie, history>>

\* ParseToken and ValidateTokenVersion.
Accepted(t) ==
    /\ t.secret = secret
    /\ users[t.name] # Nil /\ users[t.name].version = t.version

\* Mutated form of ExtractTokenNoQuery: the header comes before the cookie.
HeaderBeforeCookie(m) == IF m.bearer # Nil THEN m.bearer ELSE m.token

\* The cookie and, only when there is none, the header.
ExtractTokenNoQuery(m) == IF m.token # Nil THEN m.token ELSE m.bearer

\* The proxy key is no token.
Valid(t) == t \notin {Nil, Key} /\ Accepted(t)

\* Mutated form of MiddlewareAuth: the user is not handed on to the handler.
MiddlewareAuthNameless(c) ==
    LET t == ExtractTokenNoQuery(call[c]) IN
    /\ \/ t = Nil /\ Answer(c, "unauthorized", Nil)
       \/ t # Nil /\ ~Valid(t) /\ Answer(c, "expired", call[c].token)
       \/ Valid(t) /\ call[c].kind = "page" /\ Answer(c, "ok", Nil)
       \/ Valid(t) /\ call[c].kind = "password" /\ Goes(c, "authenticated")
    /\ UNCHANGED <<server, cookie, history>>

\* A token that is not valid is answered with the removal of the cookie, wherever it was.
\* What comes after the check reads the claims, and the token no more.
MiddlewareAuth(c) ==
    LET t == ExtractTokenNoQuery(call[c]) IN
    /\ \/ t = Nil /\ Answer(c, "unauthorized", Nil)
       \/ t # Nil /\ ~Valid(t) /\ Answer(c, "expired", call[c].token)
       \/ Valid(t) /\ call[c].kind = "page" /\ Answer(c, "ok", Nil)
       \/ /\ Valid(t) /\ call[c].kind = "password"
          /\ call' = [call EXCEPT ![c].step = "authenticated", ![c].name = t.name,
                                  ![c].token = Nil, ![c].bearer = Nil]
    /\ UNCHANGED <<server, cookie, history>>

Authenticate(c) ==
    (Serves(c, "page", "sent") \/ Serves(c, "password", "sent")) /\ MiddlewareAuth(c)

\* Mutated form of VerifyOld: only the new password is compared with the hash.
VerifyOldUnchecked(c) ==
    LET pw == users[call[c].name].pw IN
    /\ Serves(c, "password", "authenticated")
    /\ \/ call[c].new # pw /\ Goes(c, "verified")
       \/ call[c].new = pw /\ Answer(c, "refused", Nil)
    /\ UNCHANGED <<server, cookie, history>>

\* VerifyPasswordByID, and the comparison of the new password with the old hash.
VerifyOld(c) ==
    LET pw == users[call[c].name].pw IN
    /\ Serves(c, "password", "authenticated")
    /\ \/ call[c].pw = pw /\ call[c].new # pw /\ Goes(c, "verified")
       \/ (call[c].pw # pw \/ call[c].new = pw) /\ Answer(c, "refused", Nil)
    /\ UNCHANGED <<server, cookie, history>>

\* Mutated form of Changed: the tokens of the old password stay valid.
ChangedOnly(row, new) == [row EXCEPT !.pw = new]

Changed(row, new) == [pw |-> new, version |-> row.version + 1]

\* How often a password has been changed.
Changes == MapThenSumSet(LAMBDA n : IF users[n] = Nil THEN 0 ELSE users[n].version, Names)

\* Changes of the same password that are past the check of the old one.
Rivals(c) ==
    {d \in Calls \ {c} : /\ At(d, "password", "verified") \/ At(d, "password", "updated")
                         /\ call[d].name = call[c].name}

\* One statement, which does not look at the old password again.
UpdatePassword(c) ==
    LET n == call[c].name IN
    /\ Serves(c, "password", "verified")
    /\ Changes < MaxChanges
    /\ users' = [users EXCEPT ![n] = Changed(@, call[c].new)]
    /\ Goes(c, "updated")
    /\ overtaken' = (overtaken \ {c}) \cup Rivals(c)
    /\ UNCHANGED <<secret, starts, cookie, early, failed>>

\* GetUserByID: the new token has the version of now.
ReadFresh(c) ==
    /\ Serves(c, "password", "updated")
    /\ Answer(c, "session", GenerateToken(call[c].name, call[c].new, c \in overtaken))
    /\ overtaken' = overtaken \ {c}
    /\ UNCHANGED <<server, cookie, early, failed>>

Logout(c) ==
    /\ Serves(c, "logout", "sent")
    /\ Answer(c, "cleared", Nil)
    /\ UNCHANGED <<server, cookie, history>>

\* Mutated form of ProxyCookie: a cookie that is not valid ends the call.
ProxyCookieOnly(c) ==
    LET t == call[c].token IN
    /\ Serves(c, "proxy", "sent")
    /\ \/ t # Nil /\ Accepted(t) /\ Answer(c, "ok", Nil)
       \/ t = Nil /\ Goes(c, "bearer")
       \/ t # Nil /\ ~Accepted(t) /\ Answer(c, "expired", t)
    /\ UNCHANGED <<server, cookie, history>>

\* MiddlewareProxyAuth looks at the cookie first ...
ProxyCookie(c) ==
    LET t == call[c].token IN
    /\ Serves(c, "proxy", "sent")
    /\ \/ t # Nil /\ Accepted(t) /\ Answer(c, "ok", Nil)
       \/ (t # Nil => ~Accepted(t)) /\ Goes(c, "bearer")
    /\ UNCHANGED <<server, cookie, history>>

\* ... and then at what else was sent; a cookie that was not valid is cleared either way.
ProxyBearer(c) ==
    LET t == call[c].token
        x == call[c].bearer
        valid == x = Key \/ Valid(x)
    IN
    /\ Serves(c, "proxy", "bearer")
    /\ \/ valid /\ Answer(c, IF t = Nil THEN "ok" ELSE "cleared", Nil)
       \/ ~valid /\ Answer(c, IF t = Nil THEN "unauthorized" ELSE "expired", t)
    /\ UNCHANGED <<server, cookie, history>>

\* The database fails: a login or a token counts as wrong, anything else ends with an error.
DatabaseFails(c) ==
    /\ secret # Nil /\ call[c] # Nil
    /\ \/ Serves(c, "login", "sent") /\ Answer(c, "unauthorized", Nil)
       \/ /\ Serves(c, "page", "sent") \/ Serves(c, "password", "sent")
          /\ ExtractTokenNoQuery(call[c]) \notin {Nil, Key} /\ Answer(c, "expired", call[c].token)
       \/ Serves(c, "proxy", "sent") /\ call[c].token # Nil /\ Goes(c, "bearer")
       \/ /\ Serves(c, "proxy", "bearer") /\ call[c].bearer \notin {Nil, Key}
          /\ Answer(c, IF call[c].token = Nil THEN "unauthorized" ELSE "expired", call[c].token)
       \/ (\E s \in {"sent", "checked", "vacant"} : Serves(c, "setup", s)) /\ Answer(c, "refused", Nil)
       \/ /\ \E s \in {"authenticated", "verified", "updated"} : Serves(c, "password", s)
          /\ Answer(c, "refused", Nil)
    /\ failed' = IF call[c].kind # "login" /\ call'[c].step \in Unauthorized \cup {"bearer"}
                    THEN failed \cup {c} ELSE failed
    /\ overtaken' = overtaken \ {c}
    /\ UNCHANGED <<server, cookie, early>>

-----------------------------------------------------------------------------
(* What browsers make of an answer.                                        *)

Forgotten(c) == early' = early \ {c} /\ failed' = failed \ {c}

CookieAfter(c) ==
    CASE call[c].step = "session" -> call[c].token
      [] call[c].step \in {"cleared", "expired"} -> Nil
      [] OTHER -> cookie[call[c].browser]

\* The interceptor of api.js logs out after a 401, unless it did so less than a second ago.
\* The pages call only the management, without a header; all else comes from other clients.
Interceptor(c) ==
    IF call[c].kind # "proxy" /\ call[c].bearer = Nil /\ call[c].step \in Unauthorized
        THEN {Request("logout", call[c].browser), Nil}
        ELSE {Nil}

Deliver(c) ==
    /\ call[c] # Nil /\ call[c].step \in Answers
    /\ cookie' = [cookie EXCEPT ![call[c].browser] = CookieAfter(c)]
    /\ \E next \in Interceptor(c) : call' = [call EXCEPT ![c] = next]
    /\ Forgotten(c)
    /\ UNCHANGED <<server, overtaken>>

\* A request or an answer is lost: a timeout, a closed tab.
Lose(c) ==
    /\ call[c] # Nil /\ call[c].step \in Answers
    /\ call' = [call EXCEPT ![c] = Nil]
    /\ Forgotten(c)
    /\ UNCHANGED <<server, cookie, overtaken>>

-----------------------------------------------------------------------------
\* The tokens last handed out, which clients may also put in a header.
Given ==
    {cookie[b] : b \in Browsers}
        \cup {call[c].token : c \in {d \in Calls : call[d] # Nil /\ call[d].step = "session"}}

\* What a call puts in its header, if anything; the cookie beside it again would add nothing.
Headers(b) ==
    LET carrying == {c \in Calls : call[c] # Nil /\ call[c].bearer # Nil} IN
    {Nil} \cup IF Cardinality(carrying) < MaxHeaders THEN (Given \cup {Key}) \ {cookie[b]} ELSE {}

\* A change that asks for the same password again is refused, with or without a header:
\* it is sent without.
Send(c) ==
    /\ call[c] = Nil /\ secret # Nil
    /\ \E b \in Browsers :
        \/ \E n \in Names, p \in Passwords : SendSetup(c, b, n, p) \/ SendLogin(c, b, n, p)
        \/ \E x \in Headers(b) :
              \/ \E old, new \in Passwords :
                    (x # Nil => old # new) /\ SendPassword(c, b, x, old, new)
              \/ SendPage(c, b, x) \/ SendProxy(c, b, x)
        \/ SendLogout(c, b)

Serve(c) ==
    \/ CheckSetup(c) \/ CreateAdmin(c) \/ Login(c) \/ Authenticate(c)
    \/ VerifyOld(c) \/ UpdatePassword(c) \/ ReadFresh(c) \/ Logout(c)
    \/ ProxyCookie(c) \/ ProxyBearer(c) \/ DatabaseFails(c)

Next ==
    \/ Start \/ Crash
    \/ \E c \in Calls : Send(c) \/ Serve(c) \/ Deliver(c) \/ Lose(c)

Spec == Init /\ [][Next]_vars

-----------------------------------------------------------------------------
\* The tokens anybody holds, or has sent, or is being sent.
Held ==
    LET underWay == {call[c] : c \in Calls} \ {Nil} IN
    {cookie[b] : b \in Browsers} \cup {m.token : m \in underWay} \cup {m.bearer : m \in underWay}

(***************************************************************************)
(* Whoever holds a token that is accepted has given or set the password    *)
(* that is the user's now, unless two changes of it were under way at the  *)
(* same time and the other came last: a change ends all the sessions that  *)
(* began before it, also logins that had read the row already (db.go:207,  *)
(* 219-222, auth.go:84, 116).                                              *)
(***************************************************************************)
SessionsKnowPassword ==
    \A t \in Held \ {Nil, Key} :
        Accepted(t) => t.overtaken \/ t.knows = users[t.name].pw

(***************************************************************************)
(* A password is changed only by a call that has given the one it          *)
(* replaces, unless another change was made since that was checked         *)
(* (auth.go:99, 112).                                                      *)
(***************************************************************************)
ChangesKnowOld ==
    [][\A n \in Names : users[n] # Nil /\ users'[n] # users[n] =>
          \E c \in Calls : /\ At(c, "password", "verified") /\ call[c].name = n
                           /\ call'[c] # call[c]
                           /\ (call[c].pw = users[n].pw \/ c \in overtaken)]_vars

(***************************************************************************)
(* Once there is a user, the setup creates nobody for a call that was sent *)
(* later, before or after a restart: the race of two first setups is the   *)
(* only one, and an administrator set by the environment closes it         *)
(* (setup.go:24, db.go:91-97, 135, 155).                                   *)
(***************************************************************************)
SetupCloses ==
    [][\A n \in Names : users[n] = Nil /\ users'[n] # Nil =>
          \/ Nobody
          \/ \E c \in early : /\ At(c, "setup", "vacant") /\ call[c].name = n
                              /\ call'[c] # call[c]]_vars

(***************************************************************************)
(* A 401 never turns away what is valid.  A cookie in a call that gets one *)
(* is not accepted, and is cleared by that very answer.  A call of /v1 has *)
(* no valid header either: no stale cookie stands in its way, whatever is  *)
(* changed between the two looks (auth.go:243-311).  A call of the         *)
(* management without a cookie has none as well; with one, it is judged by *)
(* the cookie alone, and a stale cookie hides a valid header until it has  *)
(* been cleared (auth.go:151-162, 193-213).                                *)
(***************************************************************************)
ValidNotRefused ==
    \A c \in Calls \ failed :
        call[c] # Nil /\ call[c].kind \in {"page", "password", "proxy"}
                     /\ call[c].step \in Unauthorized =>
            /\ call[c].token # Nil => ~Accepted(call[c].token) /\ call[c].step = "expired"
            /\ call[c].kind = "proxy" => call[c].bearer # Key
            /\ call[c].kind = "proxy" \/ call[c].token = Nil => ~Valid(call[c].bearer)
=============================================================================
