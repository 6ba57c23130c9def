--------------------------- MODULE SessionsProofs ---------------------------
(***************************************************************************)
(* Proofs about Sessions for any users, passwords, browsers and calls: the *)
(* types, what whoever holds a token knows, which changes of a password    *)
(* take effect, that the setup closes, and what a 401 means for the tokens *)
(* of its call.                                                            *)
(***************************************************************************)
EXTENDS Sessions, TLAPS

-----------------------------------------------------------------------------
(* How a step changes the calls.                                           *)

\* The other calls go on as they were.
OnlyCall(c) == \A d \in Calls \ {c} : call'[d] = call[d]

(***************************************************************************)
(* A new request is a call with nothing in it but its kind and its sender. *)
(***************************************************************************)
LEMMA NewRequest ==
  ASSUME NEW k \in Kinds, NEW b \in Browsers
  PROVE  LET m == Request(k, b) IN
         /\ m \in Call /\ m # Nil
         /\ m.kind = k /\ m.step = "sent" /\ m.browser = b /\ m.token = Nil /\ m.bearer = Nil
         /\ m.name = Nil /\ m.pw = Nil /\ m.new = Nil
  BY ValuesApart DEF Request, Call, Working

(***************************************************************************)
(* What is sent: the call was free, and nothing but it changes.            *)
(***************************************************************************)
LEMMA SendsIs ==
  ASSUME TypeOK, NEW c \in Calls, NEW m \in Call, Sends(c, m)
  PROVE  /\ call' \in [Calls -> Call \cup {Nil}] /\ call'[c] = m /\ m # Nil /\ OnlyCall(c)
         /\ call[c] = Nil /\ secret # Nil
         /\ UNCHANGED <<users, secret, starts, cookie>>
  BY ValuesApart DEF TypeOK, Sends, OnlyCall, server

(***************************************************************************)
(* A handler that goes on changes the step of its call only.               *)
(***************************************************************************)
LEMMA GoesIs ==
  ASSUME TypeOK, NEW c \in Calls, call[c] # Nil, NEW s \in Working, Goes(c, s)
  PROVE  /\ call' \in [Calls -> Call \cup {Nil}] /\ OnlyCall(c)
         /\ call'[c] \in Call /\ call'[c] # Nil /\ call'[c].step = s
         /\ call'[c].kind = call[c].kind /\ call'[c].browser = call[c].browser
         /\ call'[c].token = call[c].token /\ call'[c].bearer = call[c].bearer
         /\ call'[c].name = call[c].name /\ call'[c].pw = call[c].pw
         /\ call'[c].new = call[c].new
  <1>1. call[c] \in Call /\ call' = [call EXCEPT ![c] = [call[c] EXCEPT !.step = s]]
    BY DEF TypeOK, Goes
  <1> DEFINE m == [call[c] EXCEPT !.step = s]
  <1>2. /\ m \in Call /\ m.step = s /\ m.kind = call[c].kind /\ m.browser = call[c].browser
        /\ m.token = call[c].token /\ m.bearer = call[c].bearer
        /\ m.name = call[c].name /\ m.pw = call[c].pw /\ m.new = call[c].new
    BY <1>1 DEF Call
  <1>3. m # Nil
    BY <1>2, ValuesApart
  <1>4. call'[c] = m /\ OnlyCall(c) /\ call' \in [Calls -> Call \cup {Nil}]
    BY <1>1, <1>2 DEF TypeOK, OnlyCall
  <1> QED
    BY <1>2, <1>3, <1>4

(***************************************************************************)
(* An answer keeps of its request the kind, the sender, and what a 401     *)
(* turned away.                                                            *)
(***************************************************************************)
LEMMA AnswerIs ==
  ASSUME TypeOK, NEW c \in Calls, call[c] # Nil, NEW s \in Answers, NEW t \in Token \cup {Nil},
         Answer(c, s, t)
  PROVE  /\ call' \in [Calls -> Call \cup {Nil}] /\ OnlyCall(c)
         /\ call'[c] \in Call /\ call'[c] # Nil /\ call'[c].step = s /\ call'[c].token = t
         /\ call'[c].kind = call[c].kind /\ call'[c].browser = call[c].browser
         /\ call'[c].bearer = IF s \in Unauthorized THEN call[c].bearer ELSE Nil
  <1> DEFINE x == IF s \in Unauthorized THEN call[c].bearer ELSE Nil
             m == [Request(call[c].kind, call[c].browser) EXCEPT !.step = s, !.token = t, !.bearer = x]
  <1>1. call[c] \in Call /\ call' = [call EXCEPT ![c] = m]
    BY DEF TypeOK, Answer
  <1>2. x \in Token \cup {Key, Nil} /\ call[c].kind \in Kinds /\ call[c].browser \in Browsers
    BY <1>1 DEF Call
  <1> HIDE DEF x
  <1>3. /\ m \in Call /\ m.step = s /\ m.token = t /\ m.bearer = x
        /\ m.kind = call[c].kind /\ m.browser = call[c].browser
    BY <1>2 DEF Call, Request
  <1> HIDE DEF m
  <1>4. m # Nil
    BY <1>3, ValuesApart
  <1>5. call'[c] = m /\ OnlyCall(c) /\ call' \in [Calls -> Call \cup {Nil}]
    BY <1>1, <1>3 DEF TypeOK, OnlyCall
  <1> QED
    BY <1>3, <1>4, <1>5 DEF x

(***************************************************************************)
(* A call that is given up or answered for good leaves its place, or a     *)
(* logout in it.                                                           *)
(***************************************************************************)
LEMMA DeliverIs ==
  ASSUME TypeOK, NEW c \in Calls, Deliver(c)
  PROVE  /\ call' \in [Calls -> Call \cup {Nil}] /\ OnlyCall(c)
         /\ call'[c] # Nil => /\ call'[c].kind = "logout" /\ call'[c].step = "sent"
                              /\ call'[c].token = Nil /\ call'[c].bearer = Nil
         /\ cookie' \in [Browsers -> Token \cup {Nil}]
         /\ \A b \in Browsers : cookie'[b] \in {cookie[b], call[c].token, Nil}
         /\ call[c] # Nil
  <1>1. call[c] \in Call /\ call[c] # Nil
    BY DEF Deliver, TypeOK
  <1>2. call[c].browser \in Browsers /\ call[c].token \in Token \cup {Nil}
    BY <1>1 DEF Call
  <1>3. PICK next \in Interceptor(c) : call' = [call EXCEPT ![c] = next]
    BY DEF Deliver
  <1>4. next = Nil \/ next = Request("logout", call[c].browser)
    BY <1>3 DEF Interceptor
  <1>5. next \in Call \cup {Nil}
    BY <1>2, <1>4, NewRequest DEF Kinds
  <1>6. next # Nil => /\ next.kind = "logout" /\ next.step = "sent"
                      /\ next.token = Nil /\ next.bearer = Nil
    BY <1>2, <1>4, NewRequest DEF Kinds
  <1>7. CookieAfter(c) \in {cookie[call[c].browser], call[c].token, Nil}
    BY DEF CookieAfter
  <1>8. call' \in [Calls -> Call \cup {Nil}] /\ OnlyCall(c) /\ call'[c] = next
    BY <1>3, <1>5 DEF TypeOK, OnlyCall
  <1>9. cookie' = [cookie EXCEPT ![call[c].browser] = CookieAfter(c)]
    BY DEF Deliver
  <1>10. cookie' \in [Browsers -> Token \cup {Nil}]
    BY <1>2, <1>7, <1>9 DEF TypeOK
  <1>11. \A b \in Browsers : cookie'[b] \in {cookie[b], call[c].token, Nil}
    BY <1>2, <1>7, <1>9 DEF TypeOK
  <1> QED
    BY <1>1, <1>6, <1>8, <1>10, <1>11

-----------------------------------------------------------------------------
(* The users.                                                              *)

(***************************************************************************)
(* Users are created and never deleted, and a row changes only together    *)
(* with its version (db.go:109, 155, 219-222).                             *)
(***************************************************************************)
Grown ==
    \A n \in Names : users[n] # Nil =>
        users'[n] # Nil /\ (users'[n] = users[n] \/ users'[n].version = users[n].version + 1)

(***************************************************************************)
(* The table keeps its type, and grows.                                    *)
(***************************************************************************)
LEMMA UsersGrow == TypeOK /\ [Next]_vars => users' \in [Names -> Row \cup {Nil}] /\ Grown
  <1> SUFFICES ASSUME TypeOK, [Next]_vars PROVE users' \in [Names -> Row \cup {Nil}] /\ Grown
    OBVIOUS
  <1>1. ASSUME users' = users PROVE users' \in [Names -> Row \cup {Nil}] /\ Grown
    BY <1>1 DEF TypeOK, Grown
  <1>2. \A p \in Passwords : NewRow(p) \in Row
    BY DEF NewRow, Row
  <1>3. CASE Start
    <2>1. CASE \E n \in Names, p \in Passwords : InitAdminFromEnv(n, p)
      BY <1>2, <2>1 DEF InitAdminFromEnv, Nobody, TypeOK, Grown
    <2> QED
      BY <1>1, <1>3, <2>1 DEF Start
  <1>4. ASSUME NEW c \in Calls, CreateAdmin(c) PROVE users' \in [Names -> Row \cup {Nil}] /\ Grown
    <2>1. call[c] # Nil /\ call[c].name \in Names /\ call[c].pw \in Passwords
      BY <1>4 DEF CreateAdmin, Serves, At, TypeOK, Filled, Call, Working
    <2> QED
      BY <1>1, <1>2, <1>4, <2>1 DEF CreateAdmin, TypeOK, Grown
  <1>5. ASSUME NEW c \in Calls, UpdatePassword(c) PROVE users' \in [Names -> Row \cup {Nil}] /\ Grown
    <2> DEFINE n == call[c].name
    <2>1. call[c] # Nil /\ n \in Names /\ call[c].new \in Passwords /\ users[n] # Nil
      BY <1>5 DEF UpdatePassword, Serves, At, TypeOK, Filled, Call, Working
    <2>2. users[n] \in Row /\ Changed(users[n], call[c].new) \in Row
          /\ Changed(users[n], call[c].new).version = users[n].version + 1
      BY <2>1 DEF TypeOK, Row, Changed
    <2>3. users' = [users EXCEPT ![n] = Changed(users[n], call[c].new)]
      BY <1>5 DEF UpdatePassword
    <2> HIDE DEF n
    <2>4. Changed(users[n], call[c].new) # Nil
      BY <2>2, ValuesApart
    <2> QED
      BY <2>1, <2>2, <2>3, <2>4 DEF TypeOK, Grown
  <1>6. CASE Crash \/ UNCHANGED vars
    BY <1>1, <1>6 DEF Crash, vars, server
  <1>7. ASSUME NEW c \in Calls, Send(c) \/ Deliver(c) \/ Lose(c) PROVE users' = users
    BY <1>7 DEF Send, SendSetup, SendLogin, SendPassword, SendPage, SendProxy, SendLogout, Sends,
                Deliver, Lose, server
  <1>8. ASSUME NEW c \in Calls, Serve(c), ~CreateAdmin(c), ~UpdatePassword(c) PROVE users' = users
    BY <1>8 DEF Serve, CheckSetup, Login, VerifyOld, ReadFresh, Logout, Authenticate,
                MiddlewareAuth, ProxyCookie, ProxyBearer, DatabaseFails, server
  <1> QED
    BY <1>1, <1>3, <1>4, <1>5, <1>6, <1>7, <1>8 DEF Next

(***************************************************************************)
(* What a call needs of the table stays there.                             *)
(***************************************************************************)
LEMMA FilledStays ==
  ASSUME TypeOK, Grown, NEW m \in Call, Filled(m)
  PROVE  Filled(m)'
  BY DEF Filled, Grown, Call
-----------------------------------------------------------------------------
(* The types.                                                              *)

(***************************************************************************)
(* Nothing runs and nobody is known before the first start.                *)
(***************************************************************************)
LEMMA InitType == Init => TypeOK
  BY Bounds DEF Init, TypeOK

(***************************************************************************)
(* The other calls keep what they need.                                    *)
(***************************************************************************)
LEMMA OthersFilled ==
  ASSUME TypeOK, Grown, NEW c \in Calls, OnlyCall(c), call'[c] # Nil => Filled(call[c])'
  PROVE  \A d \in Calls : call'[d] # Nil => Filled(call[d])'
  <1> SUFFICES ASSUME NEW d \in Calls, call'[d] # Nil PROVE Filled(call[d])'
    OBVIOUS
  <1>1. CASE d = c
    BY <1>1
  <1>2. CASE d # c
    <2>1. call'[d] = call[d] /\ call[d] \in Call /\ Filled(call[d])
      BY <1>2 DEF OnlyCall, TypeOK
    <2> QED
      BY <2>1 DEF Filled, Grown, Call
  <1> QED
    BY <1>1, <1>2

(***************************************************************************)
(* What browsers send has the types.                                       *)
(***************************************************************************)
LEMMA SendType ==
  ASSUME TypeOK, Grown, NEW c \in Calls, Send(c)
  PROVE  /\ call' \in [Calls -> Call \cup {Nil}] /\ OnlyCall(c) /\ Filled(call[c])'
         /\ call[c] = Nil /\ call'[c] # Nil /\ call'[c].step = "sent" /\ secret # Nil
         /\ call'[c].token \in {cookie[b] : b \in Browsers} \cup {Nil}
         /\ call'[c].bearer \in Given \cup {Key, Nil}
         /\ UNCHANGED <<users, secret, starts, cookie, overtaken, failed>>
         /\ IF call'[c].kind = "setup" /\ Nobody THEN early' = early \cup {c} ELSE early' = early
  <1> PICK b \in Browsers :
        \/ \E n \in Names, p \in Passwords : SendSetup(c, b, n, p) \/ SendLogin(c, b, n, p)
        \/ \E x \in Headers(b) :
              \/ \E old, new \in Passwords : SendPassword(c, b, x, old, new)
              \/ SendPage(c, b, x) \/ SendProxy(c, b, x)
        \/ SendLogout(c, b)
    BY DEF Send
  <1>0. Headers(b) \subseteq Given \cup {Key, Nil} /\ Headers(b) \subseteq Token \cup {Key, Nil}
    BY DEF Headers, Given, TypeOK, Call
  <1> DEFINE Goal == 
         /\ call' \in [Calls -> Call \cup {Nil}] /\ OnlyCall(c) /\ Filled(call[c])'
         /\ call[c] = Nil /\ call'[c] # Nil /\ call'[c].step = "sent" /\ secret # Nil
         /\ call'[c].token \in {cookie[d] : d \in Browsers} \cup {Nil}
         /\ call'[c].bearer \in Given \cup {Key, Nil}
         /\ UNCHANGED <<users, secret, starts, cookie, overtaken, failed>>
         /\ IF call'[c].kind = "setup" /\ Nobody THEN early' = early \cup {c} ELSE early' = early
  <1>1. cookie[b] \in Token \cup {Nil}
    BY DEF TypeOK
  <1>2. ASSUME NEW n \in Names, NEW p \in Passwords, SendSetup(c, b, n, p) PROVE Goal
    <2> DEFINE m == [Request("setup", b) EXCEPT !.name = n, !.pw = p]
    <2>1. /\ m \in Call /\ m.kind = "setup" /\ m.step = "sent" /\ m.name = n /\ m.pw = p
          /\ m.token = Nil /\ m.bearer = Nil
      BY DEF Request, Call, Kinds, Working
    <2>2. Sends(c, m)
      BY <1>2 DEF SendSetup
    <2> HIDE DEF m
    <2>3. Filled(call[c])'
      BY <2>1, <2>2, SendsIs, ValuesApart DEF Filled
    <2> QED
      BY <1>2, <2>1, <2>2, <2>3, SendsIs DEF SendSetup
  <1>3. ASSUME NEW n \in Names, NEW p \in Passwords, SendLogin(c, b, n, p) PROVE Goal
    <2> DEFINE m == [Request("login", b) EXCEPT !.name = n, !.pw = p]
    <2>1. /\ m \in Call /\ m.kind = "login" /\ m.step = "sent" /\ m.name = n /\ m.pw = p
          /\ m.token = Nil /\ m.bearer = Nil
      BY DEF Request, Call, Kinds, Working
    <2>2. Sends(c, m)
      BY <1>3 DEF SendLogin
    <2> HIDE DEF m
    <2>3. Filled(call[c])'
      BY <2>1, <2>2, SendsIs, ValuesApart DEF Filled
    <2>4. UNCHANGED <<early, overtaken, failed>>
      BY <1>3 DEF SendLogin, history
    <2>5. call'[c].kind = "login" /\ call'[c].token = Nil /\ call'[c].bearer = Nil
      BY <2>1, <2>2, SendsIs
    <2> QED
      BY <2>1, <2>2, <2>3, <2>4, <2>5, SendsIs
  <1>4. ASSUME NEW p \in Passwords, NEW q \in Passwords, NEW x \in Headers(b),
               SendPassword(c, b, x, p, q)
        PROVE  Goal
    <2> DEFINE m == [Request("password", b) EXCEPT !.token = cookie[b], !.bearer = x,
                                                   !.pw = p, !.new = q]
    <2>1. /\ m \in Call /\ m.kind = "password" /\ m.step = "sent" /\ m.pw = p /\ m.new = q
          /\ m.token = cookie[b] /\ m.bearer = x
      BY <1>0, <1>1 DEF Request, Call, Kinds, Working
    <2>2. Sends(c, m)
      BY <1>4 DEF SendPassword
    <2> HIDE DEF m
    <2>3. Filled(call[c])'
      BY <2>1, <2>2, SendsIs, ValuesApart DEF Filled
    <2>4. UNCHANGED <<early, overtaken, failed>>
      BY <1>4 DEF SendPassword, history
    <2>5. call'[c].kind = "password" /\ call'[c].token = cookie[b] /\ call'[c].bearer = x
      BY <2>1, <2>2, SendsIs
    <2>6. /\ call' \in [Calls -> Call \cup {Nil}] /\ OnlyCall(c)
          /\ call[c] = Nil /\ call'[c] # Nil /\ call'[c].step = "sent" /\ secret # Nil
          /\ UNCHANGED <<users, secret, starts, cookie>>
      BY <2>1, <2>2, SendsIs
    <2>7. call'[c].token \in {cookie[d] : d \in Browsers} \cup {Nil}
      BY <2>5
    <2>8. call'[c].kind # "setup"
      BY <2>5
    <2>9. call'[c].bearer \in Given \cup {Key, Nil}
      BY <1>0, <2>5
    <2> QED
      BY <2>3, <2>4, <2>6, <2>7, <2>8, <2>9
  <1>5. ASSUME NEW x \in Headers(b), SendProxy(c, b, x) PROVE Goal
    <2> DEFINE m == [Request("proxy", b) EXCEPT !.token = cookie[b], !.bearer = x]
    <2>1. /\ m \in Call /\ m.kind = "proxy" /\ m.step = "sent"
          /\ m.token = cookie[b] /\ m.bearer = x
      BY <1>0, <1>1 DEF Request, Call, Kinds, Working
    <2>2. Sends(c, m)
      BY <1>5 DEF SendProxy
    <2> HIDE DEF m
    <2>3. Filled(call[c])'
      BY <2>1, <2>2, SendsIs, ValuesApart DEF Filled
    <2>4. UNCHANGED <<early, overtaken, failed>>
      BY <1>5 DEF SendProxy, history
    <2>5. call'[c].kind = "proxy" /\ call'[c].token = cookie[b] /\ call'[c].bearer = x
      BY <2>1, <2>2, SendsIs
    <2>6. /\ call' \in [Calls -> Call \cup {Nil}] /\ OnlyCall(c)
          /\ call[c] = Nil /\ call'[c] # Nil /\ call'[c].step = "sent" /\ secret # Nil
          /\ UNCHANGED <<users, secret, starts, cookie>>
      BY <2>1, <2>2, SendsIs
    <2>7. call'[c].token \in {cookie[d] : d \in Browsers} \cup {Nil}
      BY <2>5
    <2>8. call'[c].kind # "setup"
      BY <2>5
    <2>9. call'[c].bearer \in Given \cup {Key, Nil}
      BY <1>0, <2>5
    <2> QED
      BY <2>3, <2>4, <2>6, <2>7, <2>8, <2>9
  <1>6. ASSUME NEW x \in Headers(b), SendPage(c, b, x) PROVE Goal
    <2> DEFINE m == [Request("page", b) EXCEPT !.token = cookie[b], !.bearer = x]
    <2>1. /\ m \in Call /\ m.kind = "page" /\ m.step = "sent"
          /\ m.token = cookie[b] /\ m.bearer = x
      BY <1>0, <1>1 DEF Request, Call, Kinds, Working
    <2>2. Sends(c, m)
      BY <1>6 DEF SendPage
    <2> HIDE DEF m
    <2>3. Filled(call[c])'
      BY <2>1, <2>2, SendsIs, ValuesApart DEF Filled
    <2>4. UNCHANGED <<early, overtaken, failed>>
      BY <1>6 DEF SendPage, history
    <2>5. call'[c].kind = "page" /\ call'[c].token = cookie[b] /\ call'[c].bearer = x
      BY <2>1, <2>2, SendsIs
    <2>6. /\ call' \in [Calls -> Call \cup {Nil}] /\ OnlyCall(c)
          /\ call[c] = Nil /\ call'[c] # Nil /\ call'[c].step = "sent" /\ secret # Nil
          /\ UNCHANGED <<users, secret, starts, cookie>>
      BY <2>1, <2>2, SendsIs
    <2>7. call'[c].token \in {cookie[d] : d \in Browsers} \cup {Nil}
      BY <2>5
    <2>8. call'[c].kind # "setup"
      BY <2>5
    <2>9. call'[c].bearer \in Given \cup {Key, Nil}
      BY <1>0, <2>5
    <2> QED
      BY <2>3, <2>4, <2>6, <2>7, <2>8, <2>9
  <1>7. ASSUME SendLogout(c, b) PROVE Goal
    <2> DEFINE m == Request("logout", b)
    <2>1. /\ m \in Call /\ m.kind = "logout" /\ m.step = "sent"
          /\ m.token = Nil /\ m.bearer = Nil
      BY DEF Request, Call, Kinds, Working
    <2>2. Sends(c, m)
      BY <1>7 DEF SendLogout
    <2> HIDE DEF m
    <2>3. Filled(call[c])'
      BY <2>1, <2>2, SendsIs, ValuesApart DEF Filled
    <2> QED
      BY <1>7, <2>1, <2>2, <2>3, SendsIs DEF SendLogout, history
  <1> QED
    BY <1>2, <1>3, <1>4, <1>5, <1>6, <1>7
(***************************************************************************)
(* A token that is made has the types.                                     *)
(***************************************************************************)
LEMMA TokenMade ==
  ASSUME TypeOK, NEW n \in Names, users[n] # Nil, secret # Nil, NEW p \in Passwords, NEW o \in BOOLEAN
  PROVE  /\ GenerateToken(n, p, o) \in Token /\ GenerateToken(n, p, o) # Nil
         /\ GenerateToken(n, p, o).name = n /\ GenerateToken(n, p, o).version = users[n].version
         /\ GenerateToken(n, p, o).knows = p /\ GenerateToken(n, p, o).overtaken = o
  <1>1. users[n].version \in Nat /\ secret \in 1 .. MaxStarts
    BY DEF TypeOK, Row
  <1>2. GenerateToken(n, p, o) \in Token
    BY <1>1 DEF GenerateToken, Token
  <1>3. GenerateToken(n, p, o) # Nil
    BY <1>2, ValuesApart
  <1> QED
    BY <1>2, <1>3 DEF GenerateToken

\* What every step of a handler does to the calls and to what surrounds them.
ServedCall(c) ==
    /\ call' \in [Calls -> Call \cup {Nil}] /\ OnlyCall(c)
    /\ call[c] # Nil /\ call'[c] # Nil /\ Filled(call[c])'
    /\ call'[c].kind = call[c].kind
    /\ call'[c].bearer \in {call[c].bearer, Nil}
    /\ secret # Nil

(***************************************************************************)
(* A handler that answers leaves a call that is well formed.               *)
(***************************************************************************)
LEMMA AnswerServes ==
  ASSUME TypeOK, NEW c \in Calls, call[c] # Nil, secret # Nil,
         NEW s \in Answers, NEW t \in Token \cup {Nil}, Answer(c, s, t), s = "session" => t # Nil
  PROVE  ServedCall(c) /\ call'[c].step = s /\ call'[c].token = t
  <1>1. Filled(call[c])'
    BY AnswerIs DEF Filled, Working, Answers, Unauthorized
  <1> QED
    BY <1>1, AnswerIs DEF ServedCall

(***************************************************************************)
(* Each step of a handler leaves a call that is well formed.               *)
(***************************************************************************)
LEMMA ServeType ==
  ASSUME TypeOK, Grown, NEW c \in Calls, Serve(c)
  PROVE  /\ ServedCall(c)
         /\ UNCHANGED <<secret, starts, cookie, early>>
         /\ overtaken' \subseteq Calls /\ failed' \subseteq Calls
  <1> DEFINE Goal == /\ ServedCall(c)
                     /\ UNCHANGED <<secret, starts, cookie, early>>
                     /\ overtaken' \subseteq Calls /\ failed' \subseteq Calls
             m == call[c]
  <1>0. m \in Call \cup {Nil} /\ (m # Nil => Filled(m))
        /\ overtaken \subseteq Calls /\ failed \subseteq Calls
    BY DEF TypeOK
  <1>1. ASSUME CheckSetup(c) PROVE Goal
    <2>1. m # Nil /\ secret # Nil /\ m.kind = "setup" /\ m.step \in Working
      BY <1>1 DEF CheckSetup, Serves, At, Working
    <2>2. ASSUME NEW s \in {"checked", "vacant"}, Goes(c, s) PROVE ServedCall(c)
      <3>1. s \in Working
        BY <2>2 DEF Working
      <3>2. Filled(call[c])'
        BY <1>0, <2>1, <2>2, <3>1, GoesIs DEF Filled
      <3> QED
        BY <2>1, <2>2, <3>1, <3>2, GoesIs DEF ServedCall
    <2>3. ASSUME Answer(c, "refused", Nil) PROVE ServedCall(c)
      BY <2>1, <2>3, AnswerServes DEF Answers
    <2> QED
      BY <1>0, <1>1, <2>2, <2>3 DEF CheckSetup, server, history
  <1>2. ASSUME CreateAdmin(c) PROVE Goal
    <2>1. m # Nil /\ secret # Nil
      BY <1>2 DEF CreateAdmin, Serves, At
    <2>2. Answer(c, "ok", Nil) \/ Answer(c, "refused", Nil)
      BY <1>2 DEF CreateAdmin
    <2> QED
      BY <1>0, <1>2, <2>1, <2>2, AnswerServes DEF CreateAdmin, history, Answers
  <1>3. ASSUME Login(c) PROVE Goal
    <2>1. m # Nil /\ secret # Nil /\ m.name \in Names /\ m.pw \in Passwords
      BY <1>0, <1>3 DEF Login, Serves, At, Filled, Call, Working
    <2>2. ASSUME users[m.name] # Nil, Answer(c, "session", GenerateToken(m.name, m.pw, FALSE))
          PROVE  ServedCall(c)
      BY <2>1, <2>2, TokenMade, AnswerServes DEF Answers
    <2>3. ASSUME Answer(c, "unauthorized", Nil) PROVE ServedCall(c)
      BY <2>1, <2>3, AnswerServes DEF Answers, Unauthorized
    <2> QED
      BY <1>0, <1>3, <2>2, <2>3 DEF Login, server, history
  <1>4. ASSUME Authenticate(c) PROVE Goal
    <2>1. /\ m # Nil /\ secret # Nil /\ m.kind \in {"page", "password"} /\ m.step = "sent"
          /\ m.token \in Token \cup {Nil} /\ ExtractTokenNoQuery(m) \in Token \cup {Key, Nil}
      BY <1>0, <1>4 DEF Authenticate, Serves, At, Call, ExtractTokenNoQuery
    <2>2. ASSUME NEW s \in {"unauthorized", "expired", "ok"}, NEW t \in {m.token, Nil}, Answer(c, s, t)
          PROVE  ServedCall(c)
      BY <2>1, <2>2, AnswerServes DEF Answers, Unauthorized
    <2>3. ASSUME NEW t \in Token, Accepted(t), m.kind = "password",
                 call' = [call EXCEPT ![c].step = "authenticated", ![c].name = t.name,
                                      ![c].token = Nil, ![c].bearer = Nil]
          PROVE  ServedCall(c)
      <3> DEFINE k == [m EXCEPT !.step = "authenticated", !.name = t.name,
                                !.token = Nil, !.bearer = Nil]
      <3>1. m \in Call /\ t.name \in Names /\ users[t.name] # Nil
        BY <1>0, <2>1, <2>3 DEF Token, Accepted
      <3>2. /\ k \in Call /\ k.step = "authenticated" /\ k.name = t.name /\ k.kind = m.kind
            /\ k.bearer = Nil /\ k.pw = m.pw /\ k.new = m.new /\ k.token = Nil
        BY <3>1 DEF Call, Working
      <3>3. call' = [call EXCEPT ![c] = k] /\ k # Nil
        BY <2>3, <3>2, ValuesApart
      <3>4. m.pw # Nil /\ m.new # Nil
        BY <1>0, <2>1, <2>3 DEF Filled, Working
      <3> HIDE DEF k, m
      <3>5. call' \in [Calls -> Call \cup {Nil}] /\ OnlyCall(c) /\ call'[c] = k
        BY <3>2, <3>3 DEF TypeOK, OnlyCall
      <3>6. k.name # Nil /\ users'[k.name] # Nil
        BY <3>1, <3>2, ValuesApart DEF Grown
      <3>7. Filled(call[c])'
        BY <2>3, <3>2, <3>4, <3>5, <3>6 DEF Filled
      <3> QED
        BY <2>1, <3>2, <3>3, <3>5, <3>7 DEF ServedCall, m
    <2>4. ASSUME Valid(ExtractTokenNoQuery(m)) PROVE ExtractTokenNoQuery(m) \in Token
      BY <2>1, <2>4 DEF Valid
    <2> QED
      BY <1>0, <1>4, <2>2, <2>3, <2>4 DEF Authenticate, MiddlewareAuth, Valid, server, history
  <1>5. ASSUME VerifyOld(c) PROVE Goal
    <2>1. m # Nil /\ secret # Nil /\ m.kind = "password" /\ m.step = "authenticated"
      BY <1>5 DEF VerifyOld, Serves, At
    <2>2. ASSUME Goes(c, "verified") PROVE ServedCall(c)
      <3>1. "verified" \in Working /\ "authenticated" \in Working
        BY DEF Working
      <3>2. m.name \in Names
        BY <1>0, <2>1, ValuesApart DEF Filled, Call
      <3>3. Filled(call[c])'
        BY <1>0, <2>1, <2>2, <3>1, <3>2, GoesIs DEF Filled, Grown
      <3> QED
        BY <2>1, <2>2, <3>1, <3>3, GoesIs DEF ServedCall
    <2>3. ASSUME Answer(c, "refused", Nil) PROVE ServedCall(c)
      BY <2>1, <2>3, AnswerServes DEF Answers
    <2> QED
      BY <1>0, <1>5, <2>2, <2>3 DEF VerifyOld, server, history
  <1>6. ASSUME UpdatePassword(c) PROVE Goal
    <2>1. m # Nil /\ secret # Nil /\ m.kind = "password" /\ m.step = "verified"
      BY <1>6 DEF UpdatePassword, Serves, At
    <2>2. Goes(c, "updated")
      BY <1>6 DEF UpdatePassword
    <2>3. "updated" \in Working /\ "verified" \in Working
      BY DEF Working
    <2>4. m.name \in Names
      BY <1>0, <2>1, ValuesApart DEF Filled, Call
    <2>5. Filled(call[c])'
      BY <1>0, <2>1, <2>2, <2>3, <2>4, GoesIs DEF Filled, Grown
    <2>6. ServedCall(c)
      BY <2>1, <2>2, <2>3, <2>5, GoesIs DEF ServedCall
    <2> QED
      BY <1>0, <1>6, <2>6 DEF UpdatePassword, Rivals
  <1>7. ASSUME ReadFresh(c) PROVE Goal
    <2>1. /\ m # Nil /\ secret # Nil /\ m.kind = "password" /\ m.step = "updated"
          /\ Answer(c, "session", GenerateToken(m.name, m.new, c \in overtaken))
      BY <1>7 DEF ReadFresh, Serves, At
    <2>2. m.name \in Names /\ users[m.name] # Nil /\ m.new \in Passwords
      BY <1>0, <2>1 DEF Filled, Call, Working
    <2> DEFINE o == c \in overtaken
               t == GenerateToken(m.name, m.new, o)
    <2>3. o \in BOOLEAN
      OBVIOUS
    <2> HIDE DEF o
    <2>4. t \in Token /\ t # Nil
      BY <2>1, <2>2, <2>3, TokenMade
    <2>5. Answer(c, "session", t) /\ "session" \in Answers
      BY <2>1 DEF Answers, o
    <2> HIDE DEF t
    <2>6. ServedCall(c)
      BY <2>1, <2>4, <2>5, AnswerServes
    <2> QED
      BY <1>0, <1>7, <2>6 DEF ReadFresh, server
  <1>8. ASSUME Logout(c) PROVE Goal
    <2>1. m # Nil /\ secret # Nil
      BY <1>8 DEF Logout, Serves, At
    <2> QED
      BY <1>0, <1>8, <2>1, AnswerServes DEF Logout, server, history, Answers
  <1>9. ASSUME NEW s \in Working, Goes(c, s), m # Nil, secret # Nil, m.kind = "proxy", s = "bearer"
        PROVE  ServedCall(c)
    <2>1. Filled(call[c])'
      BY <1>0, <1>9, GoesIs DEF Filled
    <2> QED
      BY <1>9, <2>1, GoesIs DEF ServedCall
  <1>10. ASSUME ProxyCookie(c) PROVE Goal
    <2>1. m # Nil /\ secret # Nil /\ m.kind = "proxy" /\ "bearer" \in Working
      BY <1>10 DEF ProxyCookie, Serves, At, Working
    <2>2. ASSUME Answer(c, "ok", Nil) PROVE ServedCall(c)
      BY <2>1, <2>2, AnswerServes DEF Answers
    <2>3. ASSUME Goes(c, "bearer") PROVE ServedCall(c)
      BY <1>9, <2>1, <2>3
    <2>4. ServedCall(c)
      BY <1>10, <2>2, <2>3 DEF ProxyCookie
    <2>5. UNCHANGED <<secret, starts, cookie, early, overtaken, failed>>
      BY <1>10 DEF ProxyCookie, server, history
    <2> QED
      BY <1>0, <2>4, <2>5
  <1>11. ASSUME ProxyBearer(c) PROVE Goal
    <2>1. m # Nil /\ secret # Nil /\ m.token \in Token \cup {Nil}
      BY <1>0, <1>11 DEF ProxyBearer, Serves, At, Call
    <2>2. ASSUME NEW s \in {"ok", "cleared", "unauthorized", "expired"}, NEW t \in {m.token, Nil},
                 Answer(c, s, t)
          PROVE  ServedCall(c)
      BY <2>1, <2>2, AnswerServes DEF Answers, Unauthorized
    <2> QED
      BY <1>0, <1>11, <2>2 DEF ProxyBearer, server, history
  <1>12. ASSUME DatabaseFails(c) PROVE Goal
    <2>1. m # Nil /\ secret # Nil /\ m.token \in Token \cup {Nil} /\ "bearer" \in Working
      BY <1>0, <1>12 DEF DatabaseFails, Call, Working
    <2>2. ASSUME NEW s \in {"refused", "unauthorized", "expired"}, NEW t \in {m.token, Nil},
                 Answer(c, s, t)
          PROVE  ServedCall(c)
      BY <2>1, <2>2, AnswerServes DEF Answers, Unauthorized
    <2>3. ASSUME Serves(c, "proxy", "sent"), Goes(c, "bearer") PROVE ServedCall(c)
      BY <1>9, <2>1, <2>3 DEF Serves, At
    <2>4. ServedCall(c)
      BY <1>12, <2>2, <2>3 DEF DatabaseFails
    <2> QED
      BY <1>0, <1>12, <2>4 DEF DatabaseFails, server
  <1> QED
    BY <1>1, <1>2, <1>3, <1>4, <1>5, <1>6, <1>7, <1>8, <1>10, <1>11, <1>12 DEF Serve
(***************************************************************************)
(* An answer that arrives, or is lost, leaves the server alone.            *)
(***************************************************************************)
LEMMA LoseIs ==
  ASSUME TypeOK, NEW c \in Calls, Lose(c)
  PROVE  /\ call' \in [Calls -> Call \cup {Nil}] /\ OnlyCall(c) /\ call'[c] = Nil
         /\ call[c] # Nil /\ UNCHANGED <<users, secret, starts, cookie, overtaken>>
         /\ early' = early \ {c} /\ failed' = failed \ {c}
  BY DEF TypeOK, Lose, OnlyCall, server, Forgotten

(***************************************************************************)
(* Every step keeps the types.                                             *)
(***************************************************************************)
LEMMA TypeStep == TypeOK /\ [Next]_vars => TypeOK'
  <1> SUFFICES ASSUME TypeOK, [Next]_vars PROVE TypeOK'
    OBVIOUS
  <1>1. users' \in [Names -> Row \cup {Nil}] /\ Grown
    BY UsersGrow
  <1>2. CASE UNCHANGED vars
    BY <1>2 DEF TypeOK, vars, server, history, Filled
  <1>3. CASE Start
    <2>1. starts' \in 0 .. MaxStarts
      BY <1>3, Bounds DEF Start, TypeOK
    <2>2. secret' \in 1 .. MaxStarts \cup {Nil}
      BY <1>3, <2>1, Bounds DEF Start
    <2>3. UNCHANGED <<cookie, call, early, overtaken, failed>>
      BY <1>3 DEF Start, history
    <2>4. \A c \in Calls : call'[c] # Nil => Filled(call[c])'
      BY <1>1, <2>3 DEF TypeOK, Filled, Grown, Call
    <2> QED
      BY <1>1, <2>1, <2>2, <2>3, <2>4 DEF TypeOK
  <1>4. CASE Crash
    BY <1>1, <1>4 DEF Crash, TypeOK
  <1>5. ASSUME NEW c \in Calls, Send(c) PROVE TypeOK'
    <2>1. \A d \in Calls : call'[d] # Nil => Filled(call[d])'
      BY <1>1, <1>5, SendType, OthersFilled
    <2>2. early' \subseteq Calls
      BY <1>1, <1>5, SendType DEF TypeOK
    <2>3. call' \in [Calls -> Call \cup {Nil}] /\ UNCHANGED <<secret, starts, cookie, overtaken, failed>>
      BY <1>1, <1>5, SendType
    <2> QED
      BY <1>1, <2>1, <2>2, <2>3 DEF TypeOK
  <1>6. ASSUME NEW c \in Calls, Serve(c) PROVE TypeOK'
    <2>1. \A d \in Calls : call'[d] # Nil => Filled(call[d])'
      BY <1>1, <1>6, ServeType, OthersFilled DEF ServedCall
    <2>2. call' \in [Calls -> Call \cup {Nil}] /\ UNCHANGED <<secret, starts, cookie, early>>
          /\ overtaken' \subseteq Calls /\ failed' \subseteq Calls
      BY <1>1, <1>6, ServeType DEF ServedCall
    <2> QED
      BY <1>1, <2>1, <2>2 DEF TypeOK
  <1>7. ASSUME NEW c \in Calls, Deliver(c) PROVE TypeOK'
    <2>1. call'[c] # Nil => Filled(call[c])'
      BY <1>7, DeliverIs DEF Filled
    <2>2. \A d \in Calls : call'[d] # Nil => Filled(call[d])'
      BY <1>1, <1>7, <2>1, DeliverIs, OthersFilled
    <2>3. UNCHANGED <<secret, starts, overtaken>> /\ early' \subseteq Calls /\ failed' \subseteq Calls
      BY <1>7 DEF Deliver, server, Forgotten, TypeOK
    <2> QED
      BY <1>1, <1>7, <2>2, <2>3, DeliverIs DEF TypeOK
  <1>8. ASSUME NEW c \in Calls, Lose(c) PROVE TypeOK'
    <2>1. \A d \in Calls : call'[d] # Nil => Filled(call[d])'
      BY <1>1, <1>8, LoseIs, OthersFilled
    <2> QED
      BY <1>1, <1>8, <2>1, LoseIs DEF TypeOK
  <1> QED
    BY <1>2, <1>3, <1>4, <1>5, <1>6, <1>7, <1>8 DEF Next

(***************************************************************************)
(* Every variable has its type, a request has what its handler reads, and  *)
(* the user of an authenticated one exists, in every reachable state.      *)
(***************************************************************************)
THEOREM TypeCorrect == Spec => []TypeOK
  BY InitType, TypeStep, PTL DEF Spec
-----------------------------------------------------------------------------
(* The setup.                                                              *)

\* A setup that may still create a user was sent when there was none.
SetupsEarly ==
    \A c \in Calls :
        (At(c, "setup", "sent") /\ Nobody) \/ At(c, "setup", "checked") \/ At(c, "setup", "vacant") =>
            c \in early

(***************************************************************************)
(* The steps of a setup.                                                   *)
(***************************************************************************)
LEMMA SetupGoes ==
  ASSUME TypeOK, NEW c \in Calls, Serve(c), call[c].kind = "setup"
  PROVE  \/ call'[c].step \in Answers
         \/ call[c].step = "sent" /\ Nobody /\ call'[c].step = "checked"
         \/ call[c].step = "checked" /\ Nobody /\ call'[c].step = "vacant"
  <1> DEFINE m == call[c]
  <1>1. CheckSetup(c) \/ CreateAdmin(c) \/ DatabaseFails(c)
    BY DEF Serve, Login, Authenticate, VerifyOld, UpdatePassword, ReadFresh, Logout,
           ProxyCookie, ProxyBearer, Serves, At
  <1>2. ASSUME NEW s \in {"refused", "ok"}, m # Nil, Answer(c, s, Nil) PROVE call'[c].step \in Answers
    BY <1>2, AnswerIs DEF Answers
  <1>3. CASE CheckSetup(c)
    <2>1. m # Nil
      BY <1>3 DEF CheckSetup, Serves, At
    <2>2. "checked" \in Working /\ "vacant" \in Working
      BY DEF Working
    <2>3. CASE Answer(c, "refused", Nil)
      BY <1>2, <2>1, <2>3
    <2>4. CASE Serves(c, "setup", "sent") /\ IsSetupRequired /\ Goes(c, "checked")
      BY <2>1, <2>2, <2>4, GoesIs DEF Serves, At, IsSetupRequired
    <2>5. CASE Serves(c, "setup", "checked") /\ IsSetupRequired /\ Goes(c, "vacant")
      BY <2>1, <2>2, <2>5, GoesIs DEF Serves, At, IsSetupRequired
    <2> QED
      BY <1>3, <2>3, <2>4, <2>5 DEF CheckSetup
  <1>4. CASE CreateAdmin(c)
    BY <1>2, <1>4 DEF CreateAdmin, Serves, At
  <1>5. CASE DatabaseFails(c)
    BY <1>2, <1>5 DEF DatabaseFails, Serves, At
  <1> QED
    BY <1>1, <1>3, <1>4, <1>5

(***************************************************************************)
(* What the setup knows stays true in every step.                          *)
(***************************************************************************)
LEMMA SetupsStep == TypeOK /\ SetupsEarly /\ [Next]_vars => SetupsEarly'
  <1> SUFFICES ASSUME TypeOK, SetupsEarly, [Next]_vars PROVE SetupsEarly'
    OBVIOUS
  <1>1. Grown /\ TypeOK'
    BY UsersGrow, TypeStep
  <1>2. Nobody' => Nobody
    BY <1>1 DEF Nobody, Grown
  <1>3. ASSUME NEW c \in Calls, OnlyCall(c), early \ {c} \subseteq early',
               At(c, "setup", "sent")' /\ Nobody' => c \in early',
               At(c, "setup", "checked")' => c \in early',
               At(c, "setup", "vacant")' => c \in early'
        PROVE  SetupsEarly'
    <2> SUFFICES ASSUME NEW d \in Calls, d # c,
                        (At(d, "setup", "sent")' /\ Nobody')
                            \/ At(d, "setup", "checked")' \/ At(d, "setup", "vacant")'
                 PROVE  d \in early'
      BY <1>3 DEF SetupsEarly
    <2>1. call'[d] = call[d]
      BY <1>3 DEF OnlyCall
    <2> QED
      BY <1>2, <1>3, <2>1 DEF SetupsEarly, At
  <1>4. CASE UNCHANGED vars
    BY <1>4 DEF SetupsEarly, At, Nobody, vars, server, history
  <1>5. CASE Start
    BY <1>2, <1>5 DEF Start, SetupsEarly, At, history
  <1>6. CASE Crash
    BY <1>6 DEF Crash, SetupsEarly, At
  <1>7. ASSUME NEW c \in Calls, Send(c) PROVE SetupsEarly'
    <2>1. /\ OnlyCall(c) /\ call'[c].step = "sent"
          /\ IF call'[c].kind = "setup" /\ Nobody THEN early' = early \cup {c} ELSE early' = early
      BY <1>1, <1>7, SendType
    <2> QED
      BY <1>2, <1>3, <2>1 DEF At
  <1>8. ASSUME NEW c \in Calls, Serve(c) PROVE SetupsEarly'
    <2>1. OnlyCall(c) /\ early' = early /\ call'[c].kind = call[c].kind /\ call[c] # Nil
      BY <1>1, <1>8, ServeType DEF ServedCall
    <2>2. ASSUME call[c].kind = "setup",
                 call'[c].step \in {"sent", "checked", "vacant"}
          PROVE  c \in early
      <3>1. call'[c].step \notin Answers
        BY <2>2 DEF Answers, Unauthorized
      <3> QED
        BY <1>8, <2>1, <2>2, <3>1, SetupGoes DEF SetupsEarly, At
    <2> QED
      BY <1>3, <2>1, <2>2 DEF At
  <1>9. ASSUME NEW c \in Calls, Deliver(c) PROVE SetupsEarly'
    <2>1. OnlyCall(c) /\ (call'[c] # Nil => call'[c].kind = "logout")
      BY <1>9, DeliverIs
    <2>2. early' = early \ {c}
      BY <1>9 DEF Deliver, Forgotten
    <2> QED
      BY <1>3, <2>1, <2>2 DEF At
  <1>10. ASSUME NEW c \in Calls, Lose(c) PROVE SetupsEarly'
    BY <1>3, <1>10, LoseIs DEF At
  <1> QED
    BY <1>4, <1>5, <1>6, <1>7, <1>8, <1>9, <1>10 DEF Next

(***************************************************************************)
(* A row appears only when the table is empty, or for a setup that has     *)
(* found it so.                                                            *)
(***************************************************************************)
LEMMA SetupCreates ==
  ASSUME TypeOK, SetupsEarly, [Next]_vars, NEW n \in Names, users[n] = Nil, users'[n] # Nil
  PROVE  \/ Nobody
         \/ \E c \in early : At(c, "setup", "vacant") /\ call[c].name = n /\ call'[c] # call[c]
  <1>1. users' # users
    OBVIOUS
  <1>2. CASE Start
    BY <1>1, <1>2 DEF Start, InitAdminFromEnv
  <1>3. ASSUME NEW c \in Calls, CreateAdmin(c)
        PROVE  \E d \in early : At(d, "setup", "vacant") /\ call[d].name = n /\ call'[d] # call[d]
    <2>1. At(c, "setup", "vacant") /\ Answer(c, "ok", Nil) /\ call[c].name \in Names
          /\ users' = [users EXCEPT ![call[c].name] = NewRow(call[c].pw)]
      BY <1>1, <1>3 DEF CreateAdmin, Serves, At, TypeOK, Filled, Call, Working
    <2>2. call[c].name = n
      BY <2>1 DEF TypeOK
    <2>3. c \in early
      BY <2>1 DEF SetupsEarly
    <2>4. call'[c].step = "ok"
      BY <2>1, AnswerIs DEF At, Answers
    <2>5. call'[c] # call[c]
      BY <2>1, <2>4 DEF At
    <2> QED
      BY <2>1, <2>2, <2>3, <2>5
  <1>4. ASSUME NEW c \in Calls, UpdatePassword(c) PROVE FALSE
    <2>1. call[c].name \in Names /\ users[call[c].name] # Nil
      BY <1>4 DEF UpdatePassword, Serves, At, TypeOK, Filled, Call
    <2> QED
      BY <1>4, <2>1 DEF UpdatePassword, TypeOK
  <1>5. CASE Crash \/ UNCHANGED vars
    BY <1>1, <1>5 DEF Crash, vars, server
  <1>6. ASSUME NEW c \in Calls, Send(c) \/ Deliver(c) \/ Lose(c) PROVE FALSE
    BY <1>1, <1>6 DEF Send, SendSetup, SendLogin, SendPassword, SendPage, SendProxy, SendLogout, Sends,
                Deliver, Lose, server
  <1>7. ASSUME NEW c \in Calls, Serve(c), ~CreateAdmin(c), ~UpdatePassword(c) PROVE FALSE
    BY <1>1, <1>7 DEF Serve, CheckSetup, Login, VerifyOld, ReadFresh, Logout, Authenticate,
                MiddlewareAuth, ProxyCookie, ProxyBearer, DatabaseFails, server
  <1> QED
    BY <1>2, <1>3, <1>4, <1>5, <1>6, <1>7 DEF Next

(***************************************************************************)
(* Once there is a user, the setup creates nobody for a call sent later    *)
(* (setup.go:24, db.go:135, 155): both looks at the table are behind a     *)
(* setup that creates one, and the first was at an empty table.            *)
(***************************************************************************)
THEOREM SetupIsOnce == Spec => SetupCloses
  <1>1. Init => SetupsEarly
    BY DEF Init, SetupsEarly, At
  <1>2. TypeOK /\ SetupsEarly /\ [Next]_vars =>
          [\A n \in Names : users[n] = Nil /\ users'[n] # Nil =>
              \/ Nobody
              \/ \E c \in early : /\ At(c, "setup", "vacant") /\ call[c].name = n
                                  /\ call'[c] # call[c]]_vars
    BY SetupCreates
  <1> QED
    BY <1>1, <1>2, InitType, TypeStep, SetupsStep, PTL DEF Spec, SetupCloses
-----------------------------------------------------------------------------
(* Changes of a password.                                                  *)

\* A change past its check has seen the password that is in the row, and then written its own,
\* unless another change has come between.
ChangesGood ==
    \A c \in Calls \ overtaken :
        /\ At(c, "password", "verified") => users[call[c].name].pw = call[c].pw
        /\ At(c, "password", "updated") => users[call[c].name].pw = call[c].new

(***************************************************************************)
(* What the update of a password does (db.go:219-222).                     *)
(***************************************************************************)
LEMMA UpdateIs ==
  ASSUME TypeOK, NEW c \in Calls, UpdatePassword(c)
  PROVE  LET n == call[c].name IN
         /\ At(c, "password", "verified") /\ n \in Names /\ users[n] # Nil /\ users[n] \in Row
         /\ users'[n].pw = call[c].new /\ users'[n].version = users[n].version + 1
         /\ \A k \in Names \ {n} : users'[k] = users[k]
         /\ OnlyCall(c) /\ call'[c].step = "updated" /\ call'[c].kind = "password"
         /\ call'[c].name = n /\ call'[c].new = call[c].new
         /\ call'[c].token = call[c].token /\ call'[c].bearer = call[c].bearer
         /\ overtaken' = (overtaken \ {c}) \cup Rivals(c)
  <1> DEFINE n == call[c].name
  <1>1. At(c, "password", "verified") /\ n \in Names /\ users[n] # Nil /\ users[n] \in Row
        /\ call[c] # Nil
    BY DEF UpdatePassword, Serves, At, TypeOK, Filled, Call
  <1>2. Goes(c, "updated") /\ "updated" \in Working /\ overtaken' = (overtaken \ {c}) \cup Rivals(c)
        /\ users' = [users EXCEPT ![n] = Changed(users[n], call[c].new)]
    BY DEF UpdatePassword, Working
  <1>3. /\ OnlyCall(c) /\ call'[c].step = "updated" /\ call'[c].kind = call[c].kind
        /\ call'[c].name = n /\ call'[c].new = call[c].new
        /\ call'[c].token = call[c].token /\ call'[c].bearer = call[c].bearer
    BY <1>1, <1>2, GoesIs
  <1>4. /\ users'[n].pw = call[c].new /\ users'[n].version = users[n].version + 1
        /\ \A k \in Names \ {n} : users'[k] = users[k]
    BY <1>1, <1>2 DEF TypeOK, Changed
  <1> QED
    BY <1>1, <1>2, <1>3, <1>4 DEF At

(***************************************************************************)
(* Nothing else writes a row that is there.                                *)
(***************************************************************************)
LEMMA RowsStay ==
  ASSUME TypeOK, [Next]_vars, \A c \in Calls : ~UpdatePassword(c)
  PROVE  \A n \in Names : users[n] # Nil => users'[n] = users[n]
  <1>1. CASE Start
    BY <1>1 DEF Start, InitAdminFromEnv, Nobody, TypeOK
  <1>2. CASE Crash \/ UNCHANGED vars
    BY <1>2 DEF Crash, vars, server
  <1>3. ASSUME NEW c \in Calls, Send(c) \/ Deliver(c) \/ Lose(c) PROVE users' = users
    BY <1>3 DEF Send, SendSetup, SendLogin, SendPassword, SendPage, SendProxy, SendLogout, Sends,
                Deliver, Lose, server
  <1>4. ASSUME NEW c \in Calls, CreateAdmin(c) PROVE \A n \in Names : users[n] # Nil => users'[n] = users[n]
    BY <1>4 DEF CreateAdmin, TypeOK
  <1>5. ASSUME NEW c \in Calls, Serve(c), ~CreateAdmin(c) PROVE users' = users
    BY <1>5 DEF Serve, CheckSetup, Login, VerifyOld, ReadFresh, Logout, Authenticate,
                MiddlewareAuth, ProxyCookie, ProxyBearer, DatabaseFails, server
  <1> QED
    BY <1>1, <1>2, <1>3, <1>4, <1>5 DEF Next

(***************************************************************************)
(* The steps of a change of a password.                                    *)
(***************************************************************************)
LEMMA PasswordGoes ==
  ASSUME TypeOK, Grown, NEW c \in Calls, Serve(c), ~UpdatePassword(c), call[c].kind = "password"
  PROVE  \/ call'[c].step \in Answers \cup {"authenticated"}
         \/ call'[c].step = "verified" /\ users[call'[c].name].pw = call'[c].pw
                                      /\ call'[c].name \in Names /\ users[call'[c].name] # Nil
  <1> DEFINE m == call[c]
  <1>0. ServedCall(c) /\ m \in Call /\ m # Nil
    BY ServeType DEF ServedCall, TypeOK
  <1>1. VerifyOld(c) \/ ReadFresh(c) \/ Authenticate(c) \/ DatabaseFails(c)
    BY DEF Serve, CheckSetup, CreateAdmin, Login, Logout, ProxyCookie, ProxyBearer, Serves, At
  <1>2. ASSUME NEW s \in Answers, NEW t, Answer(c, s, t) PROVE call'[c].step \in Answers
    BY <1>0, <1>2 DEF Answer, TypeOK, Request
  <1>3. CASE VerifyOld(c)
    <2>1. m.step = "authenticated" /\ "verified" \in Working /\ "refused" \in Answers
      BY <1>3 DEF VerifyOld, Serves, At, Working, Answers
    <2>2. m.name \in Names /\ users[m.name] # Nil
      BY <1>0, <2>1 DEF TypeOK, Filled, Call
    <2>3. CASE m.pw = users[m.name].pw /\ Goes(c, "verified")
      BY <1>0, <2>1, <2>2, <2>3, GoesIs
    <2>4. CASE Answer(c, "refused", Nil)
      BY <1>2, <2>1, <2>4
    <2> QED
      BY <1>3, <2>3, <2>4 DEF VerifyOld
  <1>4. CASE ReadFresh(c)
    BY <1>2, <1>4 DEF ReadFresh, Answers
  <1>5. CASE Authenticate(c)
    <2>1. ASSUME NEW n, call' = [call EXCEPT ![c].step = "authenticated", ![c].name = n,
                                             ![c].token = Nil, ![c].bearer = Nil]
          PROVE  call'[c].step = "authenticated"
      BY <1>0, <2>1 DEF TypeOK, Call
    <2> QED
      BY <1>2, <1>5, <2>1 DEF Authenticate, MiddlewareAuth, Answers, Unauthorized
  <1>6. CASE DatabaseFails(c)
    BY <1>2, <1>6 DEF DatabaseFails, Serves, At, Answers, Unauthorized
  <1> QED
    BY <1>1, <1>3, <1>4, <1>5, <1>6

(***************************************************************************)
(* What a change knows of the row stays true in every step, or the change  *)
(* has been overtaken.                                                     *)
(***************************************************************************)
LEMMA ChangesStep == TypeOK /\ ChangesGood /\ [Next]_vars => ChangesGood'
  <1> SUFFICES ASSUME TypeOK, ChangesGood, [Next]_vars PROVE ChangesGood'
    OBVIOUS
  <1>1. Grown
    BY UsersGrow
  <1>2. ASSUME NEW d \in Calls, call'[d] = call[d], d \notin overtaken,
               call[d] # Nil => users[call[d].name] = Nil \/ users'[call[d].name] = users[call[d].name]
        PROVE  /\ At(d, "password", "verified")' => users'[call'[d].name].pw = call'[d].pw
               /\ At(d, "password", "updated")' => users'[call'[d].name].pw = call'[d].new
    BY <1>2 DEF ChangesGood, At, TypeOK, Filled
  <1>3. ASSUME NEW c \in Calls, UpdatePassword(c) PROVE ChangesGood'
    <2> SUFFICES ASSUME NEW d \in Calls, d \notin overtaken'
                 PROVE  /\ At(d, "password", "verified")' => users'[call'[d].name].pw = call'[d].pw
                        /\ At(d, "password", "updated")' => users'[call'[d].name].pw = call'[d].new
      BY DEF ChangesGood
    <2>1. CASE d = c
      BY <1>3, <2>1, UpdateIs DEF At
    <2>2. CASE d # c
      <3>1. call'[d] = call[d] /\ d \notin overtaken /\ d \notin Rivals(c)
        BY <1>3, <2>2, UpdateIs DEF OnlyCall
      <3>2. CASE At(d, "password", "verified") \/ At(d, "password", "updated")
        <4>1. call[d].name # call[c].name
          BY <2>2, <3>1, <3>2 DEF Rivals
        <4>2. call[d].name \in Names
          BY <3>2 DEF At, TypeOK, Filled, Call
        <4>3. users'[call[d].name] = users[call[d].name]
          BY <1>3, <4>1, <4>2, UpdateIs
        <4> QED
          BY <1>2, <3>1, <4>3
      <3> QED
        BY <3>1, <3>2 DEF At
    <2> QED
      BY <2>1, <2>2
  <1>4. ASSUME \A c \in Calls : ~UpdatePassword(c) PROVE ChangesGood'
    <2>1. \A n \in Names : users[n] # Nil => users'[n] = users[n]
      BY <1>4, RowsStay
    <2>2. ASSUME NEW c \in Calls, OnlyCall(c), overtaken \ {c} \subseteq overtaken',
                 /\ At(c, "password", "verified")' => users'[call'[c].name].pw = call'[c].pw
                 /\ ~At(c, "password", "updated")'
          PROVE  ChangesGood'
      <3> SUFFICES ASSUME NEW d \in Calls, d \notin overtaken', d # c
                   PROVE  /\ At(d, "password", "verified")' => users'[call'[d].name].pw = call'[d].pw
                          /\ At(d, "password", "updated")' => users'[call'[d].name].pw = call'[d].new
        BY <2>2 DEF ChangesGood
      <3>1. call'[d] = call[d] /\ d \notin overtaken
        BY <2>2 DEF OnlyCall
      <3>2. ASSUME At(d, "password", "verified") \/ At(d, "password", "updated")
            PROVE  users'[call[d].name] = users[call[d].name]
        BY <2>1, <3>2 DEF At, TypeOK, Filled, Call
      <3> QED
        BY <3>1, <3>2 DEF At, ChangesGood
    <2>3. CASE Start \/ UNCHANGED vars
      <3>1. call' = call /\ overtaken' = overtaken
        BY <2>3 DEF Start, vars, history
      <3> SUFFICES ASSUME NEW d \in Calls, d \notin overtaken'
                   PROVE  /\ At(d, "password", "verified")' => users'[call'[d].name].pw = call'[d].pw
                          /\ At(d, "password", "updated")' => users'[call'[d].name].pw = call'[d].new
        BY DEF ChangesGood
      <3>2. ASSUME At(d, "password", "verified") \/ At(d, "password", "updated")
            PROVE  users'[call[d].name] = users[call[d].name]
        BY <2>1, <3>2 DEF At, TypeOK, Filled, Call
      <3> QED
        BY <3>1, <3>2 DEF At, ChangesGood
    <2>4. CASE Crash
      BY <2>4 DEF Crash, ChangesGood, At
    <2>5. ASSUME NEW c \in Calls, Send(c) PROVE ChangesGood'
      BY <1>1, <2>2, <2>5, SendType DEF At
    <2>6. ASSUME NEW c \in Calls, Serve(c) PROVE ChangesGood'
      <3>1. ServedCall(c)
        BY <1>1, <2>6, ServeType
      <3>2. overtaken \ {c} \subseteq overtaken'
        BY <1>4, <2>6 DEF Serve, CheckSetup, CreateAdmin, Login, VerifyOld, ReadFresh, Logout, Authenticate,
                MiddlewareAuth, ProxyCookie, ProxyBearer, DatabaseFails, history
      <3>3. At(c, "password", "verified")' => users'[call'[c].name].pw = call'[c].pw
        BY <1>1, <1>4, <2>1, <2>6, <3>1, PasswordGoes DEF ServedCall, At, Answers, Unauthorized
      <3>4. ~At(c, "password", "updated")'
        BY <1>1, <1>4, <2>6, <3>1, PasswordGoes DEF ServedCall, At, Answers, Unauthorized
      <3> QED
        BY <2>2, <3>1, <3>2, <3>3, <3>4 DEF ServedCall
    <2>7. ASSUME NEW c \in Calls, Deliver(c) PROVE ChangesGood'
      <3>1. OnlyCall(c) /\ (call'[c] # Nil => call'[c].step = "sent") /\ overtaken' = overtaken
        BY <2>7, DeliverIs DEF Deliver
      <3> QED
        BY <2>2, <3>1 DEF At
    <2>8. ASSUME NEW c \in Calls, Lose(c) PROVE ChangesGood'
      BY <2>2, <2>8, LoseIs DEF At
    <2> QED
      BY <2>3, <2>4, <2>5, <2>6, <2>7, <2>8 DEF Next
  <1> QED
    BY <1>3, <1>4

(***************************************************************************)
(* A password is changed only by a call that has given the one it          *)
(* replaces, or that another change has overtaken (auth.go:99, 112): what  *)
(* the check has seen is still in the row when it is written.              *)
(***************************************************************************)
THEOREM ChangesAreKnown == Spec => ChangesKnowOld
  <1>1. Init => ChangesGood
    BY DEF Init, ChangesGood, At
  <1>2. ASSUME TypeOK, ChangesGood, [Next]_vars, NEW n \in Names, users[n] # Nil, users'[n] # users[n]
        PROVE  \E c \in Calls : /\ At(c, "password", "verified") /\ call[c].name = n
                                /\ call'[c] # call[c]
                                /\ (call[c].pw = users[n].pw \/ c \in overtaken)
    <2>1. PICK c \in Calls : UpdatePassword(c)
      BY <1>2, RowsStay
    <2>2. At(c, "password", "verified") /\ call[c].name = n /\ call'[c].step = "updated"
      BY <1>2, <2>1, UpdateIs
    <2>3. call'[c] # call[c]
      BY <2>2 DEF At
    <2> QED
      BY <1>2, <2>2, <2>3 DEF ChangesGood
  <1>3. TypeOK /\ ChangesGood /\ [Next]_vars =>
          [\A n \in Names : users[n] # Nil /\ users'[n] # users[n] =>
              \E c \in Calls : /\ At(c, "password", "verified") /\ call[c].name = n
                               /\ call'[c] # call[c]
                               /\ (call[c].pw = users[n].pw \/ c \in overtaken)]_vars
    BY <1>2
  <1> QED
    BY <1>1, <1>3, InitType, TypeStep, ChangesStep, PTL DEF Spec, ChangesKnowOld
-----------------------------------------------------------------------------
(* Tokens.                                                                 *)

\* No token is ahead of the row of its user; one that is level with it was made with the password
\* in the row.
Good(t) ==
    /\ users[t.name] # Nil
    /\ t.version <= users[t.name].version
    /\ t.version = users[t.name].version /\ ~t.overtaken => t.knows = users[t.name].pw

TokensGood == \A t \in Held : t \in Token => Good(t)

(***************************************************************************)
(* Where tokens are.                                                       *)
(***************************************************************************)
LEMMA HeldIs ==
  ASSUME NEW t
  PROVE  t \in Held <=> \/ \E b \in Browsers : t = cookie[b]
                        \/ \E c \in Calls : call[c] # Nil /\ (t = call[c].token \/ t = call[c].bearer)
  BY DEF Held

(***************************************************************************)
(* A row changes only together with its version, so a good token stays     *)
(* good, and at most falls behind.                                         *)
(***************************************************************************)
LEMMA GoodStays ==
  ASSUME TypeOK, Grown, NEW t \in Token, Good(t)
  PROVE  Good(t)'
  <1>1. t.name \in Names /\ t.version \in Nat
    BY DEF Token
  <1>2. users[t.name] \in Row /\ users[t.name].version \in Nat
    BY <1>1 DEF TypeOK, Good, Row
  <1> QED
    BY <1>1, <1>2 DEF Grown, Good

(***************************************************************************)
(* A step of a handler hands out no token but a good one.                  *)
(***************************************************************************)
LEMMA ServedToken ==
  ASSUME TypeOK, Grown, ChangesGood, NEW c \in Calls, Serve(c)
  PROVE  call'[c].token \in {call[c].token, Nil} \/ Good(call'[c].token)
  <1> DEFINE m == call[c]
  <1>0. m \in Call /\ m # Nil /\ Filled(m) /\ secret # Nil
    BY ServeType DEF ServedCall, TypeOK
  <1>1. ASSUME NEW s \in Answers, NEW t, Answer(c, s, t) PROVE call'[c].token = t
    BY <1>0, <1>1 DEF Answer, TypeOK, Request
  <1>2. ASSUME NEW s, Goes(c, s) PROVE call'[c].token = m.token
    BY <1>0, <1>2 DEF Goes, TypeOK, Call
  <1>3. CASE Login(c)
    <2> DEFINE t == GenerateToken(m.name, m.pw, FALSE)
    <2>1. m.name \in Names /\ m.pw \in Passwords
      BY <1>0, <1>3 DEF Login, Serves, At, Filled, Call, Working
    <2>2. CASE users[m.name] # Nil /\ users[m.name].pw = m.pw /\ Answer(c, "session", t)
      <3>1. call'[c].token = t
        BY <1>1, <2>2 DEF Answers
      <3>2. t.name = m.name /\ t.version = users[m.name].version /\ t.knows = m.pw
        BY DEF GenerateToken
      <3>3. users[m.name].version \in Nat
        BY <2>1, <2>2 DEF TypeOK, Row
      <3> HIDE DEF t
      <3> QED
        BY <2>2, <3>1, <3>2, <3>3 DEF Good
    <2>3. CASE Answer(c, "unauthorized", Nil)
      BY <1>1, <2>3 DEF Answers, Unauthorized
    <2> QED
      BY <1>3, <2>2, <2>3 DEF Login
  <1>4. CASE ReadFresh(c)
    <2> DEFINE t == GenerateToken(m.name, m.new, c \in overtaken)
    <2>1. At(c, "password", "updated") /\ Answer(c, "session", t)
      BY <1>4 DEF ReadFresh, Serves
    <2>2. m.name \in Names /\ users[m.name] # Nil
      BY <1>0, <2>1 DEF At, Filled, Call
    <2>3. call'[c].token = t
      BY <1>1, <2>1 DEF Answers
    <2>4. t.name = m.name /\ t.version = users[m.name].version /\ t.knows = m.new
          /\ (t.overtaken <=> c \in overtaken)
      BY DEF GenerateToken
    <2>5. users[m.name].version \in Nat
      BY <2>2 DEF TypeOK, Row
    <2>6. c \notin overtaken => users[m.name].pw = m.new
      BY <2>1 DEF ChangesGood
    <2> HIDE DEF t
    <2> QED
      BY <2>2, <2>3, <2>4, <2>5, <2>6 DEF Good
  <1>5. CASE CheckSetup(c) \/ CreateAdmin(c)
    BY <1>1, <1>2, <1>5 DEF CheckSetup, CreateAdmin, Answers
  <1>6. CASE Authenticate(c)
    <2>1. ASSUME NEW n, call' = [call EXCEPT ![c].step = "authenticated", ![c].name = n,
                                             ![c].token = Nil, ![c].bearer = Nil]
          PROVE  call'[c].token = Nil
      BY <1>0, <2>1 DEF TypeOK, Call
    <2> QED
      BY <1>1, <1>6, <2>1 DEF Authenticate, MiddlewareAuth, Answers, Unauthorized
  <1>7. CASE VerifyOld(c) \/ UpdatePassword(c) \/ Logout(c)
    BY <1>1, <1>2, <1>7 DEF VerifyOld, UpdatePassword, Logout, Answers
  <1>8. CASE ProxyCookie(c)
    BY <1>1, <1>2, <1>8 DEF ProxyCookie, Answers
  <1>9. CASE ProxyBearer(c)
    <2>1. ASSUME NEW s \in {"ok", "cleared", "unauthorized", "expired"}, NEW t \in {m.token, Nil},
                 Answer(c, s, t)
          PROVE  call'[c].token \in {m.token, Nil}
      BY <1>1, <2>1 DEF Answers, Unauthorized
    <2> QED
      BY <1>9, <2>1 DEF ProxyBearer
  <1>10. CASE DatabaseFails(c)
    <2>1. ASSUME NEW s \in {"refused", "unauthorized", "expired"}, NEW t \in {m.token, Nil},
                 Answer(c, s, t)
          PROVE  call'[c].token \in {m.token, Nil}
      BY <1>1, <2>1 DEF Answers, Unauthorized
    <2> QED
      BY <1>2, <1>10, <2>1 DEF DatabaseFails
  <1> QED
    BY <1>3, <1>4, <1>5, <1>6, <1>7, <1>8, <1>9, <1>10 DEF Serve

(***************************************************************************)
(* All tokens stay good.                                                   *)
(***************************************************************************)
LEMMA TokensStep == TypeOK /\ ChangesGood /\ TokensGood /\ [Next]_vars => TokensGood'
  <1> SUFFICES ASSUME TypeOK, ChangesGood, TokensGood, [Next]_vars PROVE TokensGood'
    OBVIOUS
  <1>1. Grown /\ Nil \notin Token /\ Key \notin Token
    BY UsersGrow, ValuesApart
  <1>2. ASSUME \A t \in Held' : t \in Token => t \in Held \/ Good(t) PROVE TokensGood'
    <2> SUFFICES ASSUME NEW t \in Held', t \in Token PROVE Good(t)'
      BY DEF TokensGood
    <2> QED
      BY <1>1, <1>2, GoodStays DEF TokensGood
  <1>3. ASSUME NEW c \in Calls, OnlyCall(c),
               \A b \in Browsers : cookie'[b] \in Held \cup {Nil},
               call'[c] # Nil => /\ call'[c].token \in Held \cup {Nil} \/ Good(call'[c].token)
                                 /\ call'[c].bearer \in Held \cup {Key, Nil}
        PROVE  TokensGood'
    <2> SUFFICES ASSUME NEW t \in Held', t \in Token PROVE t \in Held \/ Good(t)
      BY <1>2
    <2>1. \/ \E b \in Browsers : t = cookie'[b]
          \/ \E d \in Calls : call'[d] # Nil /\ (t = call'[d].token \/ t = call'[d].bearer)
      BY DEF Held
    <2>2. CASE \E b \in Browsers : t = cookie'[b]
      BY <1>1, <1>3, <2>2
    <2>3. CASE call'[c] # Nil /\ (t = call'[c].token \/ t = call'[c].bearer)
      BY <1>1, <1>3, <2>3
    <2>4. ASSUME NEW d \in Calls, d # c, call'[d] # Nil, t = call'[d].token \/ t = call'[d].bearer
          PROVE  t \in Held
      BY <1>3, <2>4, HeldIs DEF OnlyCall
    <2> QED
      BY <2>1, <2>2, <2>3, <2>4
  <1>4. CASE Start \/ UNCHANGED vars
    <2>1. Held' = Held
      BY <1>4 DEF Start, vars, Held
    <2> QED
      BY <1>2, <2>1
  <1>5. CASE Crash
    <2>1. ASSUME NEW t \in Held' PROVE t \in Held
      <3>1. \E b \in Browsers : t = cookie[b]
        BY <1>5, <2>1 DEF Crash, Held
      <3> QED
        BY <3>1, HeldIs
    <2> QED
      BY <1>2, <2>1
  <1>6. \A b \in Browsers : cookie[b] \in Held
    BY HeldIs
  <1>7. ASSUME NEW c \in Calls, Send(c) PROVE TokensGood'
    <2>1. /\ OnlyCall(c) /\ cookie' = cookie
          /\ call'[c].token \in {cookie[b] : b \in Browsers} \cup {Nil}
          /\ call'[c].bearer \in Given \cup {Key, Nil}
      BY <1>1, <1>7, SendType
    <2>2. \A x \in Given : x \in Held
      BY HeldIs DEF Given
    <2> QED
      BY <1>3, <1>6, <2>1, <2>2
  <1>8. ASSUME NEW c \in Calls, Serve(c) PROVE TokensGood'
    <2>1. /\ OnlyCall(c) /\ cookie' = cookie /\ call[c] # Nil
          /\ call'[c].bearer \in {call[c].bearer, Nil}
      BY <1>1, <1>8, ServeType DEF ServedCall
    <2>2. call'[c].token \in {call[c].token, Nil} \/ Good(call'[c].token)
      BY <1>1, <1>8, ServedToken
    <2>3. call[c].token \in Held /\ call[c].bearer \in Held
      BY <2>1, HeldIs
    <2> QED
      BY <1>3, <1>6, <2>1, <2>2, <2>3
  <1>9. ASSUME NEW c \in Calls, Deliver(c) PROVE TokensGood'
    <2>1. call[c].token \in Held
      BY <1>9, DeliverIs, HeldIs
    <2> QED
      BY <1>3, <1>6, <1>9, <2>1, DeliverIs
  <1>10. ASSUME NEW c \in Calls, Lose(c) PROVE TokensGood'
    BY <1>3, <1>6, <1>10, LoseIs
  <1> QED
    BY <1>4, <1>5, <1>7, <1>8, <1>9, <1>10 DEF Next

(***************************************************************************)
(* Whoever holds a token that is accepted has given or set the password of *)
(* its user (db.go:207, auth.go:84): a token is accepted only while the    *)
(* row is still the one it was made from.                                  *)
(***************************************************************************)
THEOREM SessionsKnow == Spec => []SessionsKnowPassword
  <1>1. Init => ChangesGood
    BY DEF Init, ChangesGood, At
  <1>2. Init => TokensGood
    BY ValuesApart DEF Init, TokensGood, Held
  <1>3. TypeOK /\ TokensGood => SessionsKnowPassword
    <2> SUFFICES ASSUME TypeOK, TokensGood, NEW t \in Held \ {Nil, Key}, Accepted(t)
                 PROVE  t.overtaken \/ t.knows = users[t.name].pw
      BY DEF SessionsKnowPassword
    <2>1. t \in Token
      BY HeldIs DEF TypeOK, Call
    <2> QED
      BY <2>1 DEF TokensGood, Good, Accepted
  <1> QED
    BY <1>1, <1>2, <1>3, InitType, TypeStep, ChangesStep, TokensStep, PTL DEF Spec
-----------------------------------------------------------------------------
(* What a 401 means for the tokens of its call.                            *)

\* A call past the look at its cookie has no valid one; a call turned away had nothing valid
\* where its middleware looks.
Turned(c) ==
    call[c] # Nil =>
        /\ c \notin failed /\ At(c, "proxy", "bearer") =>
               call[c].token = Nil \/ ~Accepted(call[c].token)
        /\ c \notin failed /\ call[c].kind \in {"page", "password", "proxy"}
               /\ call[c].step \in Unauthorized =>
                   /\ call[c].token # Nil => ~Accepted(call[c].token) /\ call[c].step = "expired"
                   /\ call[c].kind = "proxy" => call[c].bearer # Key
                   /\ call[c].kind = "proxy" \/ call[c].token = Nil => ~Valid(call[c].bearer)

AllTurned ==
    /\ secret = Nil => \A c \in Calls : call[c] = Nil
    /\ \A c \in Calls : Turned(c)

(***************************************************************************)
(* While the process runs, a token that is not accepted never will be.     *)
(***************************************************************************)
LEMMA StaleStays ==
  ASSUME TypeOK, Grown, NEW t \in Token, Good(t), ~Accepted(t), secret' = secret
  PROVE  ~Accepted(t)'
  <1>1. t.name \in Names /\ t.version \in Nat
    BY DEF Token
  <1>2. users[t.name] \in Row /\ users[t.name].version \in Nat
    BY <1>1 DEF TypeOK, Good, Row
  <1> QED
    BY <1>1, <1>2 DEF Grown, Good, Accepted

(***************************************************************************)
(* A handler turns a call away only when what it looks at is not valid.    *)
(***************************************************************************)
LEMMA ServedTurned ==
  ASSUME TypeOK, Grown, AllTurned, NEW c \in Calls, Serve(c)
  PROVE  Turned(c)'
  <1> DEFINE m == call[c]
  <1>0. /\ m \in Call /\ m # Nil /\ call'[c] # Nil /\ call'[c].kind = m.kind
        /\ call'[c].bearer \in {m.bearer, Nil} /\ Turned(c)
    BY ServeType DEF ServedCall, TypeOK, AllTurned
  <1>2. CASE m.kind \notin {"page", "password", "proxy"}
    BY <1>0, <1>2 DEF Turned, At
  <1>3. ASSUME call'[c].step \notin Unauthorized \cup {"bearer"} PROVE Turned(c)'
    BY <1>0, <1>3 DEF Turned, At
  <1>4. ASSUME NEW s \in Answers, NEW t, Answer(c, s, t)
        PROVE  /\ call'[c].step = s /\ call'[c].token = t
               /\ s \in Unauthorized => call'[c].bearer = m.bearer
    BY <1>0, <1>4 DEF Answer, TypeOK, Request
  <1>5. ASSUME NEW s, Goes(c, s) PROVE call'[c].step = s /\ call'[c].token = m.token
    BY <1>0, <1>5 DEF Goes, TypeOK, Call
  <1>6. CASE VerifyOld(c) \/ UpdatePassword(c) \/ ReadFresh(c)
    BY <1>3, <1>4, <1>5, <1>6 DEF VerifyOld, UpdatePassword, ReadFresh, Answers, Unauthorized
  <1>7. CASE Authenticate(c)
    <2> DEFINE t == ExtractTokenNoQuery(m)
    <2>1. m.kind \in {"page", "password"} /\ UNCHANGED <<users, secret>>
      BY <1>0, <1>7 DEF Authenticate, Serves, At, MiddlewareAuth, server
    <2>2. CASE t = Nil /\ Answer(c, "unauthorized", Nil)
      <3>1. call'[c].token = Nil /\ call'[c].bearer = Nil
        BY <1>4, <2>2 DEF Answers, Unauthorized, ExtractTokenNoQuery
      <3> QED
        BY <1>0, <2>1, <3>1 DEF Turned, At, Valid
    <2>3. CASE ~Valid(t) /\ Answer(c, "expired", m.token)
      <3>1. call'[c].step = "expired" /\ call'[c].token = m.token /\ call'[c].bearer = m.bearer
        BY <1>4, <2>3 DEF Answers, Unauthorized
      <3>2. m.token # Nil => ~Accepted(m.token)
        BY <1>0, <2>3, ValuesApart DEF Valid, ExtractTokenNoQuery, Call
      <3>3. m.token = Nil => ~Valid(m.bearer)
        BY <2>3 DEF ExtractTokenNoQuery
      <3>4. m.token # Nil => ~Accepted(call[c].token)'
        BY <2>1, <3>1, <3>2 DEF Accepted
      <3>5. m.token = Nil => ~Valid(call[c].bearer)'
        BY <2>1, <3>1, <3>3 DEF Accepted, Valid
      <3> QED
        BY <1>0, <2>1, <3>1, <3>4, <3>5 DEF Turned, At
    <2>4. CASE Answer(c, "ok", Nil)
      BY <1>3, <1>4, <2>4 DEF Answers, Unauthorized
    <2>5. ASSUME NEW n, call' = [call EXCEPT ![c].step = "authenticated", ![c].name = n,
                                             ![c].token = Nil, ![c].bearer = Nil]
          PROVE  Turned(c)'
      <3>1. call'[c].step = "authenticated"
        BY <1>0, <2>5 DEF TypeOK, Call
      <3> QED
        BY <1>3, <3>1 DEF Unauthorized
    <2> QED
      BY <1>7, <2>2, <2>3, <2>4, <2>5 DEF Authenticate, MiddlewareAuth
  <1>8. CASE ProxyCookie(c)
    <2>1. UNCHANGED <<users, secret>>
      BY <1>8 DEF ProxyCookie, server
    <2>2. CASE Answer(c, "ok", Nil)
      BY <1>3, <1>4, <2>2 DEF Answers, Unauthorized
    <2>3. CASE (m.token # Nil => ~Accepted(m.token)) /\ Goes(c, "bearer")
      <3>1. call'[c].step = "bearer" /\ call'[c].token = m.token
        BY <1>5, <2>3
      <3>2. m.token = Nil \/ ~Accepted(call[c].token)'
        BY <2>1, <2>3, <3>1 DEF Accepted
      <3> QED
        BY <1>0, <3>1, <3>2 DEF Turned, At, Unauthorized
    <2> QED
      BY <1>8, <2>2, <2>3 DEF ProxyCookie
  <1>9. CASE ProxyBearer(c)
    <2>1. /\ UNCHANGED <<users, secret, failed>> /\ At(c, "proxy", "bearer")
          /\ c \notin failed => m.token = Nil \/ ~Accepted(m.token)
      BY <1>0, <1>9 DEF ProxyBearer, server, history, Serves, Turned
    <2>2. ASSUME NEW s \in {"ok", "cleared"}, Answer(c, s, Nil) PROVE Turned(c)'
      BY <1>3, <1>4, <2>2 DEF Answers, Unauthorized
    <2>3. ASSUME ~(m.bearer = Key \/ Valid(m.bearer)),
                 Answer(c, IF m.token = Nil THEN "unauthorized" ELSE "expired", m.token)
          PROVE  Turned(c)'
      <3>1. /\ call'[c].step = IF m.token = Nil THEN "unauthorized" ELSE "expired"
            /\ call'[c].token = m.token /\ call'[c].bearer = m.bearer
        BY <1>4, <2>3 DEF Answers, Unauthorized
      <3>2. ~Valid(call[c].bearer)'
        BY <2>1, <2>3, <3>1 DEF Accepted, Valid
      <3>3. c \notin failed => m.token = Nil \/ ~Accepted(call[c].token)'
        BY <2>1, <3>1 DEF Accepted
      <3>4. call'[c].step # "bearer"
        BY <3>1
      <3> QED
        BY <1>0, <2>1, <2>3, <3>1, <3>2, <3>3, <3>4 DEF Turned, At
    <2> QED
      BY <1>9, <2>2, <2>3 DEF ProxyBearer
  <1>10. CASE DatabaseFails(c) /\ m.kind \in {"page", "password", "proxy"}
    <2>1. call'[c].step \in Unauthorized \cup {"bearer"} => c \in failed'
      BY <1>10 DEF DatabaseFails
    <2> QED
      BY <1>0, <1>3, <2>1 DEF Turned
  <1>11. CASE CheckSetup(c) \/ CreateAdmin(c) \/ Login(c) \/ Logout(c)
    BY <1>2, <1>11 DEF CheckSetup, CreateAdmin, Login, Logout, Serves, At
  <1> QED
    BY <1>2, <1>6, <1>7, <1>8, <1>9, <1>10, <1>11 DEF Serve

(***************************************************************************)
(* What is known of calls stays true in every step.                        *)
(***************************************************************************)
LEMMA TurnedStep == TypeOK /\ TokensGood /\ AllTurned /\ [Next]_vars => AllTurned'
  <1> SUFFICES ASSUME TypeOK, TokensGood, AllTurned, [Next]_vars PROVE AllTurned'
    OBVIOUS
  <1>1. Grown /\ Nil \notin Token /\ Key \notin Token /\ Key # Nil
    BY UsersGrow, ValuesApart
  <1>2. ASSUME NEW d \in Calls, call'[d] = call[d], d \in failed => d \in failed', secret' = secret
        PROVE  Turned(d)'
    <2> SUFFICES ASSUME call[d] # Nil PROVE Turned(d)'
      BY <1>2 DEF Turned
    <2>1. Turned(d) /\ call[d] \in Call
      BY DEF AllTurned, TypeOK
    <2>2. ASSUME NEW t \in {call[d].token, call[d].bearer}, t \in Token, ~Accepted(t) PROVE ~Accepted(t)'
      <3>1. Good(t)
        BY <2>2, HeldIs DEF TokensGood
      <3> QED
        BY <1>1, <1>2, <2>2, <3>1, StaleStays
    <2>3. call[d].token \in Token \cup {Nil} /\ call[d].bearer \in Token \cup {Key, Nil}
      BY <2>1 DEF Call
    <2>4. d \notin failed' /\ At(d, "proxy", "bearer") => call[d].token = Nil \/ ~Accepted(call[d].token)'
      BY <1>2, <2>1, <2>2, <2>3 DEF Turned
    <2>5. d \notin failed' /\ call[d].kind \in {"page", "password", "proxy"}
               /\ call[d].step \in Unauthorized =>
                   /\ call[d].token # Nil => ~Accepted(call[d].token)' /\ call[d].step = "expired"
                   /\ call[d].kind = "proxy" => call[d].bearer # Key
                   /\ call[d].kind = "proxy" \/ call[d].token = Nil => ~Valid(call[d].bearer)'
      BY <1>2, <2>1, <2>2, <2>3 DEF Turned, Valid
    <2> QED
      BY <1>2, <2>4, <2>5 DEF Turned, At, Valid
  <1>3. ASSUME NEW c \in Calls, OnlyCall(c), failed \ {c} \subseteq failed', secret' = secret,
               secret # Nil, Turned(c)'
        PROVE  AllTurned'
    <2>1. \A d \in Calls : Turned(d)'
      BY <1>2, <1>3 DEF OnlyCall
    <2> QED
      BY <1>3, <2>1 DEF AllTurned
  <1>4. CASE UNCHANGED vars
    BY <1>4 DEF vars, server, history, AllTurned, Turned, At, Accepted, Valid
  <1>5. CASE Start
    <2>1. \A c \in Calls : call'[c] = Nil
      BY <1>5 DEF Start, AllTurned
    <2> QED
      BY <2>1 DEF AllTurned, Turned
  <1>6. CASE Crash
    BY <1>6 DEF Crash, AllTurned, Turned
  <1>7. ASSUME NEW c \in Calls, Send(c) PROVE AllTurned'
    <2>1. /\ OnlyCall(c) /\ call'[c].step = "sent" /\ failed' = failed /\ secret' = secret /\ secret # Nil
      BY <1>1, <1>7, SendType
    <2>2. Turned(c)'
      BY <2>1 DEF Turned, At, Unauthorized
    <2> QED
      BY <1>3, <2>1, <2>2
  <1>8. ASSUME NEW c \in Calls, Serve(c) PROVE AllTurned'
    <2>1. OnlyCall(c) /\ secret' = secret /\ secret # Nil
      BY <1>1, <1>8, ServeType DEF ServedCall
    <2>2. failed \subseteq failed'
      BY <1>8 DEF Serve, CheckSetup, CreateAdmin, Login, VerifyOld, UpdatePassword, ReadFresh, Logout,
                  Authenticate, MiddlewareAuth, ProxyCookie, ProxyBearer, DatabaseFails, history
    <2>3. Turned(c)'
      BY <1>1, <1>8, ServedTurned
    <2> QED
      BY <1>3, <2>1, <2>2, <2>3
  <1>9. ASSUME NEW c \in Calls, Deliver(c) PROVE AllTurned'
    <2>1. /\ OnlyCall(c) /\ call[c] # Nil
          /\ call'[c] # Nil => call'[c].kind = "logout" /\ call'[c].bearer = Nil
      BY <1>9, DeliverIs
    <2>2. secret' = secret /\ failed' = failed \ {c}
      BY <1>9 DEF Deliver, server, Forgotten
    <2>3. secret # Nil
      BY <2>1 DEF AllTurned
    <2>4. Turned(c)'
      BY <2>1 DEF Turned, At
    <2> QED
      BY <1>3, <2>1, <2>2, <2>3, <2>4
  <1>10. ASSUME NEW c \in Calls, Lose(c) PROVE AllTurned'
    <2>1. secret # Nil
      BY <1>10, LoseIs DEF AllTurned
    <2> QED
      BY <1>3, <1>10, <2>1, LoseIs DEF Turned
  <1> QED
    BY <1>4, <1>5, <1>6, <1>7, <1>8, <1>9, <1>10 DEF Next

(***************************************************************************)
(* A 401 turns away nothing valid, except a header that a stale cookie     *)
(* hides from the management (auth.go:151-162, 193-213, 243-311), and as   *)
(* long as the answer is under way nothing of it becomes valid again.      *)
(***************************************************************************)
THEOREM RefusedRightly == Spec => []ValidNotRefused
  <1>1. Init => ChangesGood /\ AllTurned
    BY DEF Init, ChangesGood, AllTurned, Turned, At
  <1>2. Init => TokensGood
    BY ValuesApart DEF Init, TokensGood, Held
  <1>3. AllTurned => ValidNotRefused
    BY DEF AllTurned, Turned, ValidNotRefused
  <1> QED
    BY <1>1, <1>2, <1>3, InitType, TypeStep, ChangesStep, TokensStep, TurnedStep, PTL DEF Spec
=============================================================================
