-------------------------- MODULE ClientPageProofs --------------------------
(***************************************************************************)
(* Proofs about the client's page, for any people, orders, functions under *)
(* way, logins and actions: whose codes it shows, and what it comes to     *)
(* rest with.                                                              *)
(***************************************************************************)
EXTENDS ClientPage, TLAPS

-----------------------------------------------------------------------------
(* The inductive invariant. *)

\* What a request is about: a cookie that was given out, an answer that names the
\* person it was asked for, and codes that belong to the cookie's person.
RequestOK(r) ==
  /\ r.cookie <= Len(who)
  /\ r.await = "login" /\ ~r.served => r.person \in Person
  /\ r.await = "me" /\ r.served /\ r.status = "ok" => r.person \in Person
  /\ r.await # "codes" => r.shown = {}
  /\ \A o \in r.shown : r.cookie # 0 /\ Owner[o] = who[r.cookie]

Answered == PageTypeOK /\ OnePersonsCodes /\ \A k \in Call : RequestOK(call[k])

\* While users wait, a function runs alone: its requests carry the browser's
\* cookie, and after refresh has learnt its user it still is the cookie's.
InStep(r) ==
  /\ r.await \in {"login", "logout", "me"} => r.tail = "all"
  /\ r.await \in {"pickup", "order", "decision"} => r.tail # "all"
  /\ r.await = "login" => view = "login"
  /\ r.await \in {"me", "lists", "queue", "codes"} => r.cookie = cookie
  /\ r.await = "me" /\ r.served /\ r.status = "ok" => cookie # 0 /\ r.person = who[cookie]
  /\ r.tail = "all" /\ r.await \in {"lists", "queue", "codes"} =>
       cookie # 0 /\ who[cookie] = me

ShowsOwn ==
  /\ cookie # 0 /\ who[cookie] = me
  /\ \A o \in pickups : Owner[o] = me

\* A form in flight leaves the page as the last refresh left it.
Orderly ==
  /\ \A j, k \in Call : call[j] # Nothing /\ call[k] # Nothing => j = k
  /\ \A k \in Call : InStep(call[k])
  /\ ~cut /\ view = "app" /\ (\A k \in Call : call[k].tail # "all") => ShowsOwn

Settles == ~hasty => Orderly
-----------------------------------------------------------------------------
(* Requests and answers. *)

LEMMA NothingType ==
  /\ Nothing \in Request /\ Nothing.await = "nothing" /\ Nothing.cookie = 0
  /\ Nothing.served = FALSE /\ Nothing.shown = {} /\ Nothing.tail = "none"
<1>1. /\ "nothing" \in Await /\ "none" \in Rest /\ "ok" \in Status
      /\ FALSE \in BOOLEAN /\ 0 \in Nat /\ None \in Person \cup {None}
  BY DEF Await, Rest, Status
<1> QED
  BY <1>1 DEF Nothing, Asks, Request

\* One function goes on, and nobody logs in.
LEMMA OneGoes ==
  ASSUME Answered, NEW k \in Call, NEW r \in Request, call' = [call EXCEPT ![k] = r],
         UNCHANGED who, RequestOK(r)
  PROVE  /\ call' \in [Call -> Request]
         /\ \A j \in Call : RequestOK(call[j])'
<1>1. call \in [Call -> Request] /\ \A j \in Call : RequestOK(call[j])
  BY DEF Answered, PageTypeOK
<1>2. call'[k] = r /\ \A j \in Call \ {k} : call'[j] = call[j]
  BY <1>1
<1> QED
  BY <1>1, <1>2 DEF RequestOK

\* A request without a person that goes out with a cookie that was given out.
LEMMA AsksOK ==
  ASSUME NEW await \in Await \ {"login"}, NEW tail \in Rest, NEW with \in Nat,
         Len(who) \in Nat, with <= Len(who), NEW r, r = Asks(await, tail, with, None)
  PROVE  /\ r \in Request /\ RequestOK(r)
         /\ r.await = await /\ r.cookie = with /\ r.served = FALSE /\ r.shown = {}
<1>1. None \in Person \cup {None} /\ await \in Await /\ "ok" \in Status
  BY DEF Status
<1>2. /\ r \in Request /\ r.await = await /\ r.cookie = with
      /\ r.served = FALSE /\ r.shown = {}
  BY <1>1 DEF Asks, Request
<1> QED
  BY <1>2 DEF RequestOK

LEMMA NothingOK == ASSUME Answered PROVE RequestOK(Nothing)
<1>1. Len(who) \in Nat
  BY DEF Answered, PageTypeOK
<1> QED
  BY <1>1, NothingType DEF RequestOK

LEMMA InitAnswered == PageInit => Answered
<1> SUFFICES ASSUME PageInit PROVE Answered
  OBVIOUS
<1>1. PICK k \in Call :
        call = [j \in Call |-> IF j = k THEN Asks("me", "all", 0, None) ELSE Nothing]
  BY DEF PageInit
<1>2. Len(who) = 0
  BY DEF PageInit
<1> DEFINE r == Asks("me", "all", 0, None)
<1>3. r \in Request /\ RequestOK(r)
  <2>1. "me" \in Await \ {"login"} /\ "all" \in Rest /\ 0 \in Nat
    BY DEF Await, Rest
  <2>2. Len(who) \in Nat /\ 0 <= Len(who)
    BY <1>2
  <2> QED
    BY <2>1, <2>2, AsksOK, Zenon
<1>4. RequestOK(Nothing)
  BY <1>2, NothingType DEF RequestOK
<1> HIDE DEF r
<1>6. call \in [Call -> Request] /\ \A j \in Call : RequestOK(call[j])
  BY <1>1, <1>3, <1>4, NothingType DEF r
<1>7. PageTypeOK
  <2>1. /\ who \in Seq(Person) /\ cookie \in 0 .. Len(who)
        /\ acts \in 0 .. MaxActs
    BY <1>2, PageAssumption DEF PageInit
  <2>2. /\ desk \in [Order -> {"waiting", "released", "gone"}]
        /\ live \subseteq 1 .. Len(who)
        /\ me \in Person \cup {None} /\ view \in {"blank", "login", "app"}
        /\ (view = "app" <=> me # None)
        /\ pickups \subseteq Order
        /\ cut \in BOOLEAN /\ hasty \in BOOLEAN
    BY DEF PageInit
  <2> QED
    BY <1>6, <2>1, <2>2 DEF PageTypeOK
<1>5. OnePersonsCodes
  BY DEF PageInit, OnePersonsCodes
<1> QED
  BY <1>5, <1>6, <1>7 DEF Answered

LEMMA ActAnswered ==
  ASSUME Answered, NEW k \in Call, NEW await \in Await, NEW tail \in Rest,
         NEW person \in Person \cup {None}, await = "login" => person \in Person,
         Act(k, await, tail, person)
  PROVE  Answered'
<1> DEFINE r == Asks(await, tail, cookie, person)
<1>1. cookie \in Nat /\ cookie <= Len(who) /\ Len(who) \in Nat
  BY DEF Answered, PageTypeOK
<1>2. r \in Request /\ RequestOK(r)
  <2>1. /\ r \in Request /\ r.await = await /\ r.cookie = cookie /\ r.person = person
        /\ r.served = FALSE /\ r.shown = {}
    BY <1>1 DEF Asks, Request, Status
  <2> HIDE DEF r
  <2> QED
    BY <1>1, <2>1 DEF RequestOK
<1>3. call' = [call EXCEPT ![k] = r]
  BY DEF Act
<1> HIDE DEF r
<1>4. call' \in [Call -> Request] /\ \A j \in Call : RequestOK(call[j])'
  BY <1>2, <1>3, OneGoes DEF Act
<1>5. PageTypeOK'
  <2>1. acts' \in 0 .. MaxActs
    BY PageAssumption DEF Act, Begins, Answered, PageTypeOK
  <2>2. cut' \in BOOLEAN /\ hasty' \in BOOLEAN
    BY DEF Act, Begins, Answered, PageTypeOK
  <2> QED
    BY <1>4, <2>1, <2>2 DEF Act, Answered, PageTypeOK
<1> QED
  BY <1>4, <1>5 DEF Act, Answered, OnePersonsCodes

LEMMA LoadAnswered ==
  ASSUME Answered, NEW k \in Call, Load(k)
  PROVE  Answered'
<1> DEFINE r == Asks("me", "all", cookie, None)
<1>1. cookie \in Nat /\ cookie <= Len(who) /\ Len(who) \in Nat
  BY DEF Answered, PageTypeOK
<1>2. r \in Request /\ RequestOK(r)
  <2>1. "me" \in Await \ {"login"} /\ "all" \in Rest
    BY DEF Await, Rest
  <2> QED
    BY <1>1, <2>1, AsksOK
<1>3. call' = [j \in Call |-> IF j = k THEN r ELSE Nothing] /\ UNCHANGED who
  BY DEF Load
<1> HIDE DEF r
<1>4. call' \in [Call -> Request] /\ \A j \in Call : RequestOK(call[j])'
  BY <1>2, <1>3, NothingType, NothingOK DEF RequestOK
<1>5. PageTypeOK'
  <2>1. acts' \in 0 .. MaxActs
    BY PageAssumption DEF Load, Begins, Answered, PageTypeOK
  <2>2. cut' \in BOOLEAN /\ hasty' \in BOOLEAN
    BY DEF Load, Begins, Answered, PageTypeOK
  <2>3. me' \in Person \cup {None} /\ (view' = "app" <=> me' # None)
    BY DEF Load
  <2> QED
    BY <1>4, <2>1, <2>2, <2>3 DEF Load, Answered, PageTypeOK
<1>6. OnePersonsCodes'
  BY DEF Load, OnePersonsCodes
<1> QED
  BY <1>4, <1>5, <1>6 DEF Answered
-----------------------------------------------------------------------------
(* The server's answers. *)

LEMMA ServeLoginAnswered ==
  ASSUME Answered, NEW k \in Call, Waits(k, "login"), Len(who) < MaxLogins,
         who' = Append(who, call[k].person),
         live' = live \cup {Len(who')},
         call' = [call EXCEPT ![k].served = TRUE, ![k].cookie = Len(who')],
         UNCHANGED <<desk, cookie, view, me, pickups, acts, cut, hasty>>
  PROVE  Answered'
<1>1. /\ call \in [Call -> Request] /\ call[k] \in Request
      /\ who \in Seq(Person) /\ call[k].person \in Person
      /\ \A j \in Call : RequestOK(call[j])
  BY DEF Answered, PageTypeOK, RequestOK, Waits
<1>2. /\ who' \in Seq(Person) /\ Len(who') = Len(who) + 1 /\ Len(who) \in Nat
      /\ \A i \in 1 .. Len(who) : who'[i] = who[i]
  BY <1>1
<1> DEFINE r == [call[k] EXCEPT !.served = TRUE, !.cookie = Len(who')]
<1>3. /\ r \in Request /\ r.await = "login" /\ r.served = TRUE
      /\ r.cookie = Len(who') /\ r.shown = {}
  BY <1>1, <1>2 DEF Request, Waits, RequestOK
<1>4. call' = [call EXCEPT ![k] = r]
  BY <1>1
<1> HIDE DEF r
<1>5. call' \in [Call -> Request]
  BY <1>1, <1>3, <1>4
<1>6. ASSUME NEW j \in Call PROVE RequestOK(call[j])'
  <2>1. CASE j = k
    <3>1. call'[j] = r
      BY <1>1, <1>4, <2>1
    <3>2. r.cookie <= Len(who') /\ r.cookie # 0
      BY <1>2, <1>3
    <3> QED
      BY <1>3, <3>1, <3>2 DEF RequestOK
  <2>2. CASE j # k
    <3>1. call'[j] = call[j] /\ call[j] \in Request /\ RequestOK(call[j])
      BY <1>1, <1>4, <2>2
    <3>2. call[j].cookie \in Nat
      BY <3>1 DEF Request
    <3>3. \A o \in call[j].shown : call[j].cookie # 0 /\ Owner[o] = who'[call[j].cookie]
      BY <1>2, <3>1, <3>2 DEF RequestOK
    <3>4. call[j].cookie <= Len(who')
      BY <1>2, <3>1, <3>2 DEF RequestOK
    <3> QED
      BY <3>1, <3>3, <3>4 DEF RequestOK
  <2> QED
    BY <2>1, <2>2
<1>7. PageTypeOK'
  <2>1. live' \subseteq 1 .. Len(who') /\ cookie' \in 0 .. Len(who')
    BY <1>2 DEF Answered, PageTypeOK
  <2> QED
    BY <1>2, <1>5, <2>1 DEF Answered, PageTypeOK
<1> QED
  BY <1>6, <1>7 DEF Answered, OnePersonsCodes

\* Any other answer: one function's request changes, and what it says is so.
LEMMA AnswerAnswered ==
  ASSUME Answered, NEW k \in Call, NEW r \in Request,
         call' = [call EXCEPT ![k] = r], RequestOK(r),
         desk' \in [Order -> {"waiting", "released", "gone"}],
         live' \subseteq live,
         UNCHANGED <<who, cookie, view, me, pickups, acts, cut, hasty>>
  PROVE  Answered'
<1>1. call' \in [Call -> Request] /\ \A j \in Call : RequestOK(call[j])'
  BY OneGoes
<1>2. PageTypeOK'
  BY <1>1 DEF Answered, PageTypeOK
<1> QED
  BY <1>1, <1>2 DEF Answered, OnePersonsCodes

\* The answer to any request but a detail's.
LEMMA AnswerOK ==
  ASSUME NEW q \in Request, RequestOK(q), q.await # "codes",
         NEW status \in Status, NEW person \in Person \cup {None}, NEW asked \in SUBSET Order,
         q.await = "me" /\ status = "ok" => person \in Person,
         NEW r, r = [q EXCEPT !.served = TRUE, !.status = status, !.person = person,
                              !.orders = asked]
  PROVE  r \in Request /\ RequestOK(r)
<1>1. /\ r \in Request /\ r.await = q.await /\ r.cookie = q.cookie /\ r.shown = q.shown
      /\ r.served = TRUE /\ r.status = status /\ r.person = person
  BY DEF Request
<1> QED
  BY <1>1 DEF RequestOK

LEMMA ServeAnswered ==
  ASSUME Answered, NEW k \in Call, Serve(k)
  PROVE  Answered'
<1>0. UNCHANGED <<cookie, view, me, pickups, acts, cut, hasty>>
  BY DEF Serve
<1>1. /\ call \in [Call -> Request] /\ call[k] \in Request /\ RequestOK(call[k])
      /\ who \in Seq(Person) /\ live \subseteq 1 .. Len(who)
      /\ desk \in [Order -> {"waiting", "released", "gone"}]
  BY DEF Answered, PageTypeOK
<1>2. /\ {"ok", "refused", "bare"} \subseteq Status /\ {} \in SUBSET Order
      /\ None \in Person \cup {None} /\ Person \subseteq Person \cup {None}
  BY DEF Status
<1>3. CASE \E status \in Status, asked \in SUBSET Order, person \in Person \cup {None} :
             /\ Answer(k, status, person, asked) /\ call[k].await # "codes"
             /\ call[k].await = "me" /\ status = "ok" => person \in Person
             /\ UNCHANGED who /\ live' \subseteq live
             /\ desk' \in [Order -> {"waiting", "released", "gone"}]
  <2>1. PICK status \in Status, asked \in SUBSET Order, person \in Person \cup {None} :
             /\ Answer(k, status, person, asked) /\ call[k].await # "codes"
             /\ call[k].await = "me" /\ status = "ok" => person \in Person
             /\ UNCHANGED who /\ live' \subseteq live
             /\ desk' \in [Order -> {"waiting", "released", "gone"}]
    BY <1>3
  <2> DEFINE r == [call[k] EXCEPT !.served = TRUE, !.status = status, !.person = person,
                                  !.orders = asked]
  <2>2. call' = [call EXCEPT ![k] = r]
    BY <1>1, <2>1 DEF Answer
  <2>3. r \in Request /\ RequestOK(r)
    BY <1>1, <2>1, AnswerOK
  <2> HIDE DEF r
  <2> QED
    BY <1>0, <2>1, <2>2, <2>3, AnswerAnswered
<1>4. CASE ServeLogin(k)
  <2>1. CASE Answer(k, "refused", None, {}) /\ UNCHANGED <<who, live>>
    BY <1>1, <1>2, <1>3, <1>4, <2>1 DEF ServeLogin, Waits
  <2>2. CASE ~(Answer(k, "refused", None, {}) /\ UNCHANGED <<who, live>>)
    BY <1>0, <1>4, <2>2, ServeLoginAnswered DEF ServeLogin
  <2> QED
    BY <2>1, <2>2
<1>5. CASE ServeLogout(k)
  <2>1. /\ live' \subseteq live /\ UNCHANGED <<who, desk>>
        /\ Answer(k, "ok", None, {}) \/ Answer(k, "bare", None, {})
    BY <1>5 DEF ServeLogout
  <2>2. call[k].await # "codes" /\ call[k].await # "me"
    BY <1>5 DEF ServeLogout, Waits
  <2> QED
    BY <1>1, <1>2, <1>3, <2>1, <2>2
<1>6. CASE ServeForm(k)
  <2>1. desk' \in [Order -> {"waiting", "released", "gone"}] /\ UNCHANGED <<who, live>>
    BY <1>1, <1>6 DEF ServeForm
  <2>2. call[k].await # "codes" /\ call[k].await # "me"
    BY <1>6 DEF ServeForm, Waits, Form
  <2>3. Answer(k, "ok", None, {})
    BY <1>6 DEF ServeForm
  <2> QED
    BY <1>2, <1>3, <2>1, <2>2, <2>3
<1>7. CASE ServeRead(k)
  <2>1. call[k].await # "codes" /\ UNCHANGED <<desk, who, live>>
    BY <1>7 DEF ServeRead, Waits
  <2>2. CASE \E asked : LoggedIn(k) /\ Answer(k, "ok", who[call[k].cookie], asked)
                          /\ asked \in SUBSET Order
    <3> DEFINE person == who[call[k].cookie]
    <3>1. PICK asked \in SUBSET Order : LoggedIn(k) /\ Answer(k, "ok", person, asked)
      BY <2>2
    <3>2. person \in Person
      <4>1. PICK i \in 1 .. Len(who) : i = call[k].cookie
        BY <1>1, <3>1 DEF LoggedIn
      <4>2. who[i] \in Person
        BY <1>1
      <4> QED
        BY <4>1, <4>2
    <3> HIDE DEF person
    <3> QED
      BY <1>1, <1>2, <1>3, <2>1, <3>1, <3>2
  <2>3. CASE Answer(k, "refused", None, {}) \/ Answer(k, "bare", None, {})
    BY <1>1, <1>2, <1>3, <2>1, <2>3
  <2>4. {o \in Order : desk[o] = "released"} \in SUBSET Order
    OBVIOUS
  <2> QED
    BY <1>7, <2>2, <2>3, <2>4 DEF ServeRead
<1>8. CASE ServeCode(k)
  <2>1. PICK o \in call[k].orders, raised \in BOOLEAN :
          LET sees == LoggedIn(k) /\ desk[o] = "released" /\ Owner[o] = who[call[k].cookie]
          IN call' = [call EXCEPT ![k].orders = @ \ {o},
               ![k].served = (call[k].orders = {o}),
               ![k].status = IF raised THEN "bare" ELSE @,
               ![k].shown = IF sees /\ ~raised THEN @ \cup {o} ELSE @]
    BY <1>8 DEF ServeCode
  <2> DEFINE sees == LoggedIn(k) /\ desk[o] = "released" /\ Owner[o] = who[call[k].cookie]
             status == IF raised THEN "bare" ELSE call[k].status
             shown == IF sees /\ ~raised THEN call[k].shown \cup {o} ELSE call[k].shown
             r == [call[k] EXCEPT !.orders = @ \ {o}, !.served = (call[k].orders = {o}),
                                  !.status = status, !.shown = shown]
  <2>2. call' = [call EXCEPT ![k] = r]
    BY <1>1, <2>1
  <2>0. status \in Status /\ shown \subseteq Order
    BY <1>1, <1>2 DEF Request
  <2> HIDE DEF status, shown
  <2>3. /\ r \in Request /\ r.await = call[k].await /\ r.cookie = call[k].cookie
        /\ r.shown = shown
    BY <1>1, <2>0 DEF Request
  <2>4. sees => Owner[o] = who[call[k].cookie] /\ call[k].cookie # 0
    BY <1>1 DEF LoggedIn
  <2> HIDE DEF r, sees
  <2>5. call[k].await = "codes"
    BY <1>8 DEF ServeCode, Waits
  <2>6. RequestOK(r)
    BY <1>1, <2>3, <2>4, <2>5 DEF RequestOK, shown
  <2> QED
    BY <1>0, <1>1, <1>8, <2>2, <2>3, <2>6, AnswerAnswered DEF ServeCode
<1> QED
  BY <1>4, <1>5, <1>6, <1>7, <1>8 DEF Serve
-----------------------------------------------------------------------------
(* What the functions do with the answers. *)

\* A function goes on with request r, and the page's elements may change.
LEMMA GoesAnswered ==
  ASSUME Answered, NEW k \in Call, NEW r \in Request,
         call' = [call EXCEPT ![k] = r], RequestOK(r),
         cookie' \in 0 .. Len(who),
         me' \in Person \cup {None}, view' \in {"blank", "login", "app"},
         view' = "app" <=> me' # None,
         pickups' = pickups \/ pickups' = call[k].shown,
         cut' \in BOOLEAN,
         UNCHANGED <<desk, who, live, acts, hasty>>
  PROVE  Answered'
<1>1. call' \in [Call -> Request] /\ \A j \in Call : RequestOK(call[j])'
  BY OneGoes
<1>2. call[k] \in Request /\ RequestOK(call[k])
  BY DEF Answered, PageTypeOK
<1>3. pickups' \subseteq Order
  BY <1>2 DEF Answered, PageTypeOK, Request
<1>4. PageTypeOK'
  BY <1>1, <1>3 DEF Answered, PageTypeOK
<1>5. OnePersonsCodes'
  BY <1>2 DEF Answered, OnePersonsCodes, RequestOK
<1> QED
  BY <1>1, <1>4, <1>5 DEF Answered

LEMMA ArriveAnswered ==
  ASSUME Answered, NEW k \in Call, Arrive(k)
  PROVE  Answered'
<1>0. /\ UNCHANGED <<desk, who, live, acts, hasty>>
      /\ call \in [Call -> Request] /\ call[k] \in Request /\ RequestOK(call[k])
      /\ Len(who) \in Nat /\ cookie \in 0 .. Len(who) /\ cookie \in Nat /\ cookie <= Len(who)
      /\ me \in Person \cup {None} /\ view \in {"blank", "login", "app"}
      /\ (view = "app" <=> me # None)
      /\ cut \in BOOLEAN
  BY DEF Arrive, Answered, PageTypeOK
<1>1. /\ {"all", "codes", "none"} \subseteq Rest /\ 0 \in Nat
      /\ {"me", "lists", "queue", "codes"} \subseteq Await \ {"login"}
      /\ call[k].tail \in Rest
  BY <1>0 DEF Await, Rest, Request
<1>2. Nothing \in Request /\ RequestOK(Nothing)
  BY NothingType, NothingOK
<1>3. ASSUME NEW r \in Request, RequestOK(r), Goes(k, r),
             cookie' \in 0 .. Len(who),
             me' \in Person \cup {None}, view' \in {"blank", "login", "app"},
             view' = "app" <=> me' # None,
             pickups' = pickups \/ pickups' = call[k].shown
      PROVE  Answered'
  BY <1>0, <1>3, GoesAnswered DEF Goes
<1>4. ASSUME CutShort(k) \/ Refreshed(k),
             cookie' \in 0 .. Len(who),
             me' \in Person \cup {None}, view' \in {"blank", "login", "app"},
             view' = "app" <=> me' # None,
             pickups' = pickups \/ pickups' = call[k].shown
      PROVE  Answered'
  <2>1. cut' \in BOOLEAN
    BY <1>0, <1>4 DEF CutShort, Refreshed
  <2> QED
    BY <1>0, <1>2, <1>4, <2>1, GoesAnswered DEF CutShort, Refreshed
<1>5. CASE AfterLogin(k)
  <2>1. CASE call[k].status = "ok"
    <3>1. cookie' = call[k].cookie /\ cookie' \in 0 .. Len(who)
      BY <1>0, <1>5, <2>1 DEF AfterLogin, RequestOK, Request
    <3> DEFINE r == Asks("me", "all", cookie', None)
    <3>2. r \in Request /\ RequestOK(r)
      <4>1. PICK c \in Nat : c = cookie' /\ c <= Len(who)
        BY <1>0, <3>1
      <4>2. r = Asks("me", "all", c, None)
        BY <4>1
      <4> HIDE DEF r
      <4> QED
        BY <1>0, <1>1, <4>1, <4>2, AsksOK
    <3>3. Goes(k, r)
      BY <1>5, <2>1 DEF AfterLogin
    <3> HIDE DEF r
    <3> QED
      BY <1>0, <1>3, <1>5, <3>1, <3>2, <3>3 DEF AfterLogin
  <2>2. CASE call[k].status # "ok"
    BY <1>0, <1>2, <1>3, <1>5, <2>2 DEF AfterLogin, Ends
  <2> QED
    BY <2>1, <2>2
<1>6. CASE AfterLogout(k)
  <2> DEFINE r == Asks("me", "all", cookie', None)
  <2>1. cookie' \in 0 .. Len(who) /\ cookie' \in Nat /\ cookie' <= Len(who)
    BY <1>0, <1>6 DEF AfterLogout
  <2>2. r \in Request /\ RequestOK(r)
    <3>1. PICK c \in Nat : c = cookie' /\ c <= Len(who)
      BY <2>1
    <3>2. r = Asks("me", "all", c, None)
      BY <3>1
    <3> HIDE DEF r
    <3> QED
      BY <1>0, <1>1, <3>1, <3>2, AsksOK
  <2>3. Goes(k, r)
    BY <1>6 DEF AfterLogout
  <2> HIDE DEF r
  <2> QED
    BY <1>0, <1>3, <1>6, <2>1, <2>2, <2>3 DEF AfterLogout
<1>7. CASE AfterForm(k)
  <2> DEFINE r == Asks("lists", call[k].tail, cookie, None)
  <2>1. r \in Request /\ RequestOK(r)
    BY <1>0, <1>1, AsksOK
  <2>2. Goes(k, r)
    BY <1>7 DEF AfterForm
  <2> HIDE DEF r
  <2> QED
    BY <1>0, <1>3, <1>7, <2>1, <2>2 DEF AfterForm
<1>8. CASE AfterMe(k)
  <2>1. CASE call[k].status = "ok"
    <3> DEFINE r == Asks("lists", "all", cookie, None)
    <3>1. r \in Request /\ RequestOK(r)
      BY <1>0, <1>1, AsksOK
    <3>2. Goes(k, r) /\ me' \in Person /\ view' = "app"
      BY <1>0, <1>8, <2>1 DEF AfterMe, Arrived, RequestOK
    <3> HIDE DEF r
    <3> QED
      BY <1>0, <1>3, <1>8, <3>1, <3>2, PageAssumption DEF AfterMe
  <2>2. CASE call[k].status # "ok"
    BY <1>0, <1>4, <1>8, <2>2 DEF AfterMe
  <2> QED
    BY <2>1, <2>2
<1>9. CASE AfterLists(k)
  <2> DEFINE r == Asks("queue", call[k].tail, cookie, None)
  <2>1. r \in Request /\ RequestOK(r)
    BY <1>0, <1>1, AsksOK
  <2>2. CutShort(k) \/ Goes(k, Nothing) \/ Goes(k, r)
    BY <1>9 DEF AfterLists, Ends
  <2> HIDE DEF r
  <2> QED
    BY <1>0, <1>2, <1>3, <1>4, <1>9, <2>1, <2>2 DEF AfterLists
<1>10. CASE AfterQueue(k)
  <2> DEFINE mine == {o \in call[k].orders : Owner[o] = me}
             q == Asks("codes", call[k].tail, cookie, None)
             r == [q EXCEPT !.orders = mine, !.served = (mine = {})]
  <2>0. mine \subseteq Order
    BY <1>0 DEF Request
  <2>1. q \in Request /\ RequestOK(q) /\ q.await = "codes"
    <3>1. "codes" \in Await \ {"login"}
      BY <1>1
    <3>2. q.await = "codes"
      BY DEF Asks
    <3>3. q \in Request /\ RequestOK(q)
      BY <1>0, <1>1, AsksOK
    <3> QED
      BY <3>2, <3>3
  <2> HIDE DEF q, mine
  <2>2. /\ r \in Request /\ r.await = "codes" /\ r.cookie = q.cookie /\ r.shown = q.shown
    BY <2>0, <2>1 DEF Request
  <2>3. RequestOK(r)
    BY <2>1, <2>2 DEF RequestOK
  <2>4. CutShort(k) \/ Goes(k, r)
    BY <1>10 DEF AfterQueue, q, mine
  <2> HIDE DEF r
  <2> QED
    BY <1>0, <1>3, <1>4, <1>10, <2>2, <2>3, <2>4 DEF AfterQueue
<1>11. CASE AfterCodes(k)
  <2>1. /\ CutShort(k) \/ Refreshed(k) \/ Goes(k, Nothing)
        /\ pickups' = pickups \/ pickups' = call[k].shown
        /\ UNCHANGED <<cookie, view, me>>
    BY <1>11 DEF AfterCodes, AfterCodesThen, Ends
  <2> QED
    BY <1>0, <1>2, <1>3, <1>4, <2>1
<1>12. CASE Lost(k)
  <2>1. cookie' \in 0 .. Len(who)
    BY <1>0, <1>12 DEF Lost, RequestOK, Request
  <2> QED
    BY <1>0, <1>4, <1>12, <2>1 DEF Lost
<1> QED
  BY <1>5, <1>6, <1>7, <1>8, <1>9, <1>10, <1>11, <1>12 DEF Arrive

LEMMA NextAnswered ==
  ASSUME Answered, [PageNext]_pageVars
  PROVE  Answered'
<1>1. ASSUME NEW k \in Call,
             SignIn(k) \/ SignOut(k) \/ UseCode(k) \/ PlaceOrder(k) \/ Decide(k)
      PROVE  Answered'
  <2>1. /\ {"login", "logout", "pickup", "order", "decision"} \subseteq Await
        /\ {"all", "codes", "none"} \subseteq Rest
    BY DEF Await, Form, Rest
  <2> QED
    BY <1>1, <2>1, ActAnswered DEF SignIn, SignOut, UseCode, PlaceOrder, Decide
<1>2. CASE Expire
  <2>1. live' \subseteq live
    BY <1>2 DEF Expire
  <2>2. PageTypeOK'
    BY <1>2, <2>1 DEF Expire, Answered, PageTypeOK
  <2> QED
    BY <1>2, <2>2 DEF Expire, Answered, OnePersonsCodes, RequestOK
<1>3. CASE Elsewhere
  <2>1. desk' \in [Order -> {"waiting", "released", "gone"}]
    BY <1>3 DEF Elsewhere, Answered, PageTypeOK
  <2>2. PageTypeOK'
    BY <1>3, <2>1 DEF Elsewhere, Answered, PageTypeOK
  <2> QED
    BY <1>3, <2>2 DEF Elsewhere, Answered, OnePersonsCodes, RequestOK
<1>4. CASE AtBound \/ UNCHANGED pageVars
  <2>1. UNCHANGED pageVars
    BY <1>4 DEF AtBound
  <2>2. PageTypeOK'
    BY <2>1 DEF pageVars, Answered, PageTypeOK
  <2> QED
    BY <2>1, <2>2 DEF pageVars, Answered, OnePersonsCodes, RequestOK
<1> QED
  BY <1>1, <1>2, <1>3, <1>4, LoadAnswered, ServeAnswered, ArriveAnswered DEF PageNext

\* The codes a request brings back, and those that are shown, are one person's:
\* the person of the cookie they were all asked for with.
THEOREM PageAnswered == PageSpec => []Answered
<1> QED
  BY InitAnswered, NextAnswered, PTL DEF PageSpec

\* The codes of two people are never mixed in the element that shows codes, whatever
\* runs at once, is lost or expires, or is signed in and out meanwhile.
THEOREM PageOnePersonsCodes == PageSpec => []OnePersonsCodes
<1>1. Answered => OnePersonsCodes
  BY DEF Answered
<1> QED
  BY <1>1, PageAnswered, PTL

\* The page's variables keep their types, and it names a user exactly when it shows
\* the application.
THEOREM PageTypes == PageSpec => []PageTypeOK
<1>1. Answered => PageTypeOK
  BY DEF Answered
<1> QED
  BY <1>1, PageAnswered, PTL
-----------------------------------------------------------------------------
(* When users wait: one function at a time. *)

LEMMA NothingInStep == InStep(Nothing)
BY NothingType DEF InStep

\* One function runs; unless it is a load, a sign-in or a sign-out, the page is as
\* the last refresh left it.
LEMMA Alone ==
  ASSUME Orderly, NEW k \in Call, call[k] # Nothing
  PROVE  /\ \A j \in Call \ {k} : call[j] = Nothing
         /\ call[k].tail # "all" /\ ~cut /\ view = "app" => ShowsOwn
<1>1. \A j \in Call \ {k} : call[j] = Nothing
  BY DEF Orderly
<1> QED
  BY <1>1, NothingType DEF Orderly

\* Of all functions only k may be under way after a step, with request r.
LEMMA AloneAfter ==
  ASSUME NEW k \in Call, NEW r, call'[k] = r, \A j \in Call \ {k} : call'[j] = Nothing,
         InStep(r)', r.tail # "all" /\ ~cut' /\ view' = "app" => ShowsOwn'
  PROVE  Orderly'
<1>1. ASSUME NEW j \in Call PROVE InStep(call[j])'
  BY <1>1, NothingType DEF InStep
<1>2. \A i, j \in Call : call'[i] # Nothing /\ call'[j] # Nothing => i = j
  OBVIOUS
<1> QED
  BY <1>1, <1>2 DEF Orderly

\* The only function under way goes on with request r, or ends.
LEMMA AloneGoes ==
  ASSUME Answered, Orderly, NEW k \in Call, call[k] # Nothing,
         NEW r, call' = [call EXCEPT ![k] = r], InStep(r)',
         r.tail # "all" /\ ~cut' /\ view' = "app" => ShowsOwn'
  PROVE  Orderly'
<1>1. call'[k] = r /\ \A j \in Call \ {k} : call'[j] = Nothing
  BY Alone DEF Answered, PageTypeOK
<1> QED
  BY <1>1, AloneAfter

LEMMA InitSettles == PageInit => Settles
<1> SUFFICES ASSUME PageInit PROVE Orderly
  BY DEF Settles
<1>1. PICK k \in Call :
        call = [j \in Call |-> IF j = k THEN Asks("me", "all", 0, None) ELSE Nothing]
  BY DEF PageInit
<1>2. InStep(Asks("me", "all", 0, None))
  BY DEF Asks, InStep, PageInit
<1>3. \A j \in Call : InStep(call[j]) /\ (call[j] # Nothing => j = k)
  BY <1>1, <1>2, NothingInStep
<1>4. view # "app"
  BY DEF PageInit
<1> QED
  BY <1>3, <1>4 DEF Orderly

LEMMA ActSettles ==
  ASSUME Answered, Settles, NEW k \in Call,
         NEW await \in {"login", "logout", "pickup", "order", "decision"},
         NEW tail, tail = "all" <=> await \in {"login", "logout"},
         NEW person, Act(k, await, tail, person), await = "login" => view = "login"
  PROVE  Settles'
<1> SUFFICES ASSUME ~hasty' PROVE Orderly'
  BY DEF Settles
<1>1. /\ ~hasty /\ AtRest /\ Orderly
      /\ UNCHANGED <<who, cookie, view, me, pickups, cut>>
  BY DEF Act, Begins, Settles
<1>2. PICK r : r = Asks(await, tail, cookie, person)
  OBVIOUS
<1>3. r.await = await /\ r.served = FALSE /\ r.tail = tail
  BY <1>2 DEF Asks
<1>4. InStep(r)'
  BY <1>1, <1>3 DEF InStep
<1>5. call'[k] = r /\ \A j \in Call \ {k} : call'[j] = Nothing
  BY <1>1, <1>2 DEF Act, AtRest, Answered, PageTypeOK
<1>6. ~cut' /\ view' = "app" => ShowsOwn'
  <2>1. \A j \in Call : call[j].tail # "all"
    BY <1>1, NothingType DEF AtRest
  <2> QED
    BY <1>1, <2>1 DEF Orderly, ShowsOwn
<1> QED
  BY <1>4, <1>5, <1>6, AloneAfter

LEMMA LoadSettles ==
  ASSUME Answered, NEW k \in Call, Load(k)
  PROVE  Settles'
<1>1. PICK r : r = Asks("me", "all", cookie, None)
  OBVIOUS
<1>2. r.await = "me" /\ r.served = FALSE /\ r.cookie = cookie /\ r.tail = "all"
  BY <1>1 DEF Asks
<1>3. InStep(r)'
  BY <1>2 DEF InStep, Load
<1>4. call'[k] = r /\ \A j \in Call \ {k} : call'[j] = Nothing
  BY <1>1 DEF Load
<1> QED
  BY <1>2, <1>3, <1>4, AloneAfter DEF Settles

\* The server answers the only request there is.
LEMMA AnswerSettles ==
  ASSUME Answered, Settles, NEW k \in Call,
         NEW q, q = call[k], q.await # "nothing",
         NEW r, call' = [call EXCEPT ![k] = r], r.await = q.await, r.tail = q.tail,
         r.await # "login" => r.cookie = q.cookie,
         r.await = "me" /\ r.status = "ok" => q.cookie # 0 /\ r.person = who[q.cookie],
         \A i \in 1 .. Len(who) : who'[i] = who[i],
         UNCHANGED <<cookie, view, me, pickups, cut, hasty>>
  PROVE  Settles'
<1> SUFFICES ASSUME ~hasty PROVE Orderly'
  BY DEF Settles
<1>1. Orderly /\ InStep(q) /\ q # Nothing
  BY NothingType DEF Settles, Orderly
<1>2. cookie \in 0 .. Len(who) /\ Len(who) \in Nat
  BY DEF Answered, PageTypeOK
<1>3. cookie # 0 => who'[cookie] = who[cookie]
  BY <1>2
<1>4. InStep(r)'
  BY <1>1, <1>3 DEF InStep
<1>5. r.tail # "all" /\ ~cut' /\ view' = "app" => ShowsOwn'
  BY <1>1, <1>3, Alone DEF ShowsOwn
<1> QED
  BY <1>1, <1>4, <1>5, AloneGoes

LEMMA ServeSettles ==
  ASSUME Answered, Settles, NEW k \in Call, Serve(k)
  PROVE  Settles'
<1>0. UNCHANGED <<cookie, view, me, pickups, cut, hasty>>
  BY DEF Serve
<1>1. PICK q \in Request : q = call[k]
  BY DEF Answered, PageTypeOK
<1>2. /\ call \in [Call -> Request] /\ who \in Seq(Person)
      /\ live \subseteq 1 .. Len(who) /\ Len(who) \in Nat
  BY DEF Answered, PageTypeOK
<1>3. LoggedIn(k) => q.cookie # 0
  BY <1>1, <1>2 DEF LoggedIn
<1>4. ASSUME NEW status, NEW person, NEW asked, Answer(k, status, person, asked),
             q.await # "nothing",
             q.await = "me" /\ status = "ok" => q.cookie # 0 /\ person = who[q.cookie],
             UNCHANGED who
      PROVE  Settles'
  <2>1. PICK r : r = [q EXCEPT !.served = TRUE, !.status = status, !.person = person,
                               !.orders = asked]
    OBVIOUS
  <2>2. call' = [call EXCEPT ![k] = r]
    BY <1>1, <1>2, <1>4, <2>1 DEF Answer
  <2>3. /\ r.await = q.await /\ r.cookie = q.cookie /\ r.status = status
        /\ r.person = person /\ r.tail = q.tail
    BY <2>1 DEF Request
  <2> QED
    BY <1>0, <1>1, <1>4, <2>2, <2>3, AnswerSettles
<1>5. CASE ServeLogin(k)
  <2>1. q.await = "login"
    BY <1>1, <1>5 DEF ServeLogin, Waits
  <2>2. CASE Answer(k, "refused", None, {}) /\ UNCHANGED <<who, live>>
    BY <1>4, <2>1, <2>2
  <2>3. CASE ~(Answer(k, "refused", None, {}) /\ UNCHANGED <<who, live>>)
    <3>1. /\ who' = Append(who, q.person)
          /\ call' = [call EXCEPT ![k].served = TRUE, ![k].cookie = Len(who')]
      BY <1>1, <1>5, <2>3 DEF ServeLogin
    <3>2. q.person \in Person
      BY <1>1, <1>5 DEF ServeLogin, Waits, Answered, RequestOK
    <3>3. \A i \in 1 .. Len(who) : who'[i] = who[i]
      BY <1>2, <3>1, <3>2
    <3>4. PICK r : r = [q EXCEPT !.served = TRUE, !.cookie = Len(who')]
      OBVIOUS
    <3>5. call' = [call EXCEPT ![k] = r] /\ r.await = q.await /\ r.tail = q.tail
      BY <1>1, <1>2, <3>1, <3>4 DEF Request
    <3> QED
      BY <1>0, <1>1, <2>1, <3>3, <3>5, AnswerSettles
  <2> QED
    BY <2>2, <2>3
<1>6. CASE ServeLogout(k)
  <2>1. /\ q.await = "logout" /\ UNCHANGED who
        /\ Answer(k, "ok", None, {}) \/ Answer(k, "bare", None, {})
    BY <1>1, <1>6 DEF ServeLogout, Waits
  <2> QED
    BY <1>4, <2>1
<1>7. CASE ServeForm(k)
  <2>1. q.await \in Form /\ UNCHANGED who /\ Answer(k, "ok", None, {})
    BY <1>1, <1>7 DEF ServeForm, Waits
  <2> QED
    BY <1>4, <2>1 DEF Form
<1>8. CASE ServeRead(k)
  <2>1. q.await # "nothing" /\ UNCHANGED who
    BY <1>1, <1>8 DEF ServeRead, Waits
  <2>2. ASSUME NEW asked, LoggedIn(k), Answer(k, "ok", who[q.cookie], asked)
        PROVE  Settles'
    BY <1>3, <1>4, <2>1, <2>2
  <2>3. CASE Answer(k, "refused", None, {}) \/ Answer(k, "bare", None, {})
    BY <1>4, <2>1, <2>3
  <2> QED
    BY <1>1, <1>8, <2>2, <2>3 DEF ServeRead
<1>9. CASE ServeCode(k)
  <2>1. PICK o \in q.orders, raised \in BOOLEAN, sees \in BOOLEAN :
          call' = [call EXCEPT ![k].orders = @ \ {o},
                     ![k].served = (q.orders = {o}),
                     ![k].status = IF raised THEN "bare" ELSE @,
                     ![k].shown = IF sees /\ ~raised THEN @ \cup {o} ELSE @]
    BY <1>1, <1>9 DEF ServeCode
  <2>2. PICK r : r = [q EXCEPT !.orders = @ \ {o}, !.served = (q.orders = {o}),
                               !.status = IF raised THEN "bare" ELSE @,
                               !.shown = IF sees /\ ~raised THEN @ \cup {o} ELSE @]
    OBVIOUS
  <2>3. /\ call' = [call EXCEPT ![k] = r] /\ r.await = q.await /\ r.cookie = q.cookie
        /\ r.tail = q.tail
    BY <1>1, <1>2, <2>1, <2>2 DEF Request
  <2>4. q.await = "codes" /\ UNCHANGED who
    BY <1>1, <1>9 DEF ServeCode, Waits
  <2> QED
    BY <1>0, <1>1, <2>3, <2>4, AnswerSettles
<1> QED
  BY <1>5, <1>6, <1>7, <1>8, <1>9 DEF Serve

\* What a function does with the answer, when it runs alone.
LEMMA ArriveSettles ==
  ASSUME Answered, Settles, NEW k \in Call, Arrive(k)
  PROVE  Settles'
<1> SUFFICES ASSUME ~hasty PROVE Orderly'
  BY DEF Settles, Arrive
<1>1. PICK q \in Request : q = call[k]
  BY DEF Answered, PageTypeOK
<1>2. Orderly /\ InStep(q) /\ RequestOK(q) /\ UNCHANGED who
  BY <1>1 DEF Settles, Orderly, Answered, Arrive
<1>3. (view = "app" <=> me # None) /\ cookie \in 0 .. Len(who)
  BY DEF Answered, PageTypeOK
<1>4. ASSUME NEW r, q.await # "nothing", Goes(k, r), InStep(r)',
             r.tail # "all" /\ ~cut' /\ view' = "app" => ShowsOwn'
      PROVE  Orderly'
  BY <1>1, <1>2, <1>4, NothingType, AloneGoes DEF Goes
<1>5. ASSUME q # Nothing, CutShort(k),
             q.tail = "all" \/ UNCHANGED <<cookie, view, me, pickups>>
      PROVE  Orderly'
  <2>1. InStep(Nothing)'
    BY NothingType DEF InStep
  <2>2. ~cut' /\ view' = "app" => ShowsOwn'
    BY <1>1, <1>2, <1>5, Alone DEF CutShort, ShowsOwn
  <2> QED
    BY <1>1, <1>2, <1>5, <2>1, <2>2, AloneGoes DEF CutShort
<1>6. ASSUME q.await # "nothing", Ends(k) \/ Refreshed(k),
             ~cut' /\ view' = "app" => ShowsOwn'
      PROVE  Orderly'
  <2>1. InStep(Nothing)'
    BY NothingType DEF InStep
  <2> QED
    BY <1>1, <1>2, <1>6, <2>1, NothingType, AloneGoes DEF Ends, Goes, Refreshed
\* A function that is no load, sign-in or sign-out, and leaves the page alone.
<1>7. ASSUME q.await # "nothing", q.tail # "all", UNCHANGED <<cookie, view, me, pickups, cut>>
      PROVE  ~cut' /\ view' = "app" => ShowsOwn'
  BY <1>1, <1>2, <1>7, NothingType, Alone DEF ShowsOwn
<1>8. CASE AfterLogin(k)
  <2>1. q.await = "login" /\ UNCHANGED <<view, me, pickups>> /\ view # "app"
    BY <1>1, <1>2, <1>8 DEF AfterLogin, Arrived, InStep
  <2>2. CASE q.status = "ok"
    <3>1. PICK r : r = Asks("me", "all", cookie', None)
      OBVIOUS
    <3>2. Goes(k, r)
      BY <1>1, <1>8, <2>2, <3>1 DEF AfterLogin
    <3>3. r.await = "me" /\ r.cookie = cookie' /\ r.served = FALSE /\ r.tail = "all"
      BY <3>1 DEF Asks
    <3>4. InStep(r)'
      BY <3>3 DEF InStep
    <3> QED
      BY <1>4, <2>1, <3>2, <3>3, <3>4
  <2>3. CASE q.status # "ok"
    BY <1>1, <1>6, <1>8, <2>1, <2>3 DEF AfterLogin
  <2> QED
    BY <2>2, <2>3
<1>9. CASE AfterLogout(k)
  <2>1. q.await = "logout"
    BY <1>1, <1>9 DEF AfterLogout, Arrived
  <2>2. PICK r : r = Asks("me", "all", cookie', None)
    OBVIOUS
  <2>3. Goes(k, r)
    BY <1>9, <2>2 DEF AfterLogout
  <2>4. r.await = "me" /\ r.cookie = cookie' /\ r.served = FALSE /\ r.tail = "all"
    BY <2>2 DEF Asks
  <2>5. InStep(r)'
    BY <2>4 DEF InStep
  <2> QED
    BY <1>4, <2>1, <2>3, <2>4, <2>5
<1>10. CASE AfterForm(k)
  <2>1. q.await \in Form /\ UNCHANGED <<cookie, view, me, pickups>>
    BY <1>1, <1>10 DEF AfterForm, Arrived
  <2>2. PICK r : r = Asks("lists", q.tail, cookie, None)
    OBVIOUS
  <2>3. Goes(k, r)
    BY <1>1, <1>10, <2>2 DEF AfterForm
  <2>4. r.await = "lists" /\ r.cookie = cookie /\ r.tail = q.tail
    BY <2>2 DEF Asks
  <2>5. q.tail # "all"
    BY <1>2, <2>1 DEF InStep, Form
  <2>6. InStep(r)'
    BY <2>1, <2>4, <2>5 DEF InStep
  <2> QED
    BY <1>4, <1>7, <2>1, <2>3, <2>5, <2>6 DEF Form, Goes
<1>11. CASE AfterMe(k)
  <2>1. q.await = "me" /\ q.served /\ UNCHANGED cookie
    BY <1>1, <1>11 DEF AfterMe, Arrived
  <2>2. CASE q.status = "ok"
    <3>1. me' = who'[cookie'] /\ cookie' # 0
      BY <1>1, <1>2, <1>11, <2>1, <2>2 DEF AfterMe, InStep
    <3>2. PICK r : r = Asks("lists", "all", cookie, None)
      OBVIOUS
    <3>3. Goes(k, r)
      BY <1>1, <1>11, <2>2, <3>2 DEF AfterMe
    <3>4. r.await = "lists" /\ r.cookie = cookie /\ r.served = FALSE /\ r.tail = "all"
      BY <3>2 DEF Asks
    <3>5. InStep(r)'
      BY <2>1, <3>1, <3>4 DEF InStep
    <3> QED
      BY <1>4, <2>1, <3>3, <3>4, <3>5
  <2>3. CASE q.status # "ok"
    BY <1>1, <1>6, <1>11, <2>1, <2>3 DEF AfterMe
  <2> QED
    BY <2>2, <2>3
<1>12. CASE AfterLists(k)
  <2>1. q.await = "lists" /\ UNCHANGED <<cookie, view, me, pickups>>
    BY <1>1, <1>12 DEF AfterLists, Arrived
  <2>2. PICK r : r = Asks("queue", q.tail, cookie, None)
    OBVIOUS
  <2>3. \/ CutShort(k)
        \/ Ends(k) /\ q.tail # "all"
        \/ Goes(k, r)
    BY <1>1, <1>12, <2>2 DEF AfterLists
  <2>4. r.await = "queue" /\ r.cookie = cookie /\ r.tail = q.tail
    BY <2>2 DEF Asks
  <2>5. InStep(r)'
    BY <1>2, <2>1, <2>4 DEF InStep
  <2>6. CASE CutShort(k)
    BY <1>5, <2>1, <2>6, NothingType
  <2>7. CASE Ends(k) /\ q.tail # "all"
    BY <1>6, <1>7, <2>1, <2>7 DEF Ends, Goes
  <2>8. CASE Goes(k, r)
    BY <1>4, <1>7, <2>1, <2>4, <2>5, <2>8 DEF Goes
  <2> QED
    BY <2>3, <2>6, <2>7, <2>8
<1>13. CASE AfterQueue(k)
  <2>1. q.await = "queue" /\ UNCHANGED <<cookie, view, me, pickups>>
    BY <1>1, <1>13 DEF AfterQueue, Arrived
  <2>2. PICK mine : mine = {o \in q.orders : Owner[o] = me}
    OBVIOUS
  <2>3. PICK r : r = [Asks("codes", q.tail, cookie, None) EXCEPT
                        !.orders = mine, !.served = (mine = {})]
    OBVIOUS
  <2>4. r.await = "codes" /\ r.cookie = cookie /\ r.tail = q.tail
    BY <2>3 DEF Asks
  <2>5. Goes(k, r) \/ CutShort(k)
    BY <1>1, <1>13, <2>2, <2>3 DEF AfterQueue
  <2>6. InStep(r)'
    BY <1>2, <2>1, <2>4 DEF InStep
  <2>7. CASE CutShort(k)
    BY <1>5, <2>1, <2>7, NothingType
  <2>8. CASE Goes(k, r)
    BY <1>4, <1>7, <2>1, <2>4, <2>6, <2>8 DEF Goes
  <2> QED
    BY <2>5, <2>7, <2>8
<1>14. CASE AfterCodes(k)
  <2>1. q.await = "codes" /\ q # Nothing /\ UNCHANGED <<cookie, view, me>>
    BY <1>1, <1>14, NothingType DEF AfterCodes, Arrived
  <2>2. \/ CutShort(k) /\ (q.tail = "all" \/ UNCHANGED pickups)
        \/ Refreshed(k) /\ pickups' = q.shown /\ q.tail = "all"
        \/ Ends(k) /\ pickups' = q.shown /\ q.tail # "all"
    <3>1. CASE q.status = "ok"
      <4>1. pickups' = q.shown /\ AfterCodesThen(k)
        BY <1>1, <1>14, <3>1 DEF AfterCodes
      <4>2. CASE q.tail = "all" /\ me = None
        BY <1>1, <4>1, <4>2 DEF AfterCodesThen
      <4>3. CASE q.tail = "all" /\ me # None
        BY <1>1, <4>1, <4>3 DEF AfterCodesThen
      <4>4. CASE q.tail # "all"
        BY <1>1, <4>1, <4>4 DEF AfterCodesThen
      <4> QED
        BY <4>2, <4>3, <4>4
    <3>2. CASE q.status # "ok"
      BY <1>1, <1>14, <3>2 DEF AfterCodes
    <3> QED
      BY <3>1, <3>2
  <2>3. ASSUME cookie # 0, who[cookie] = me, pickups' = q.shown PROVE ShowsOwn'
    BY <1>2, <2>1, <2>3 DEF InStep, RequestOK, ShowsOwn
  <2>4. CASE CutShort(k) /\ (q.tail = "all" \/ UNCHANGED pickups)
    BY <1>5, <2>1, <2>4
  <2>5. CASE Refreshed(k) /\ pickups' = q.shown /\ q.tail = "all"
    BY <1>2, <1>6, <2>1, <2>3, <2>5 DEF InStep
  <2>6. CASE Ends(k) /\ pickups' = q.shown /\ q.tail # "all"
    <3>1. ~cut /\ view = "app" => ShowsOwn
      BY <1>1, <1>2, <2>1, <2>6, Alone
    <3> QED
      BY <1>6, <2>1, <2>3, <2>6, <3>1 DEF Ends, Goes, ShowsOwn
  <2> QED
    BY <2>2, <2>4, <2>5, <2>6
<1>15. CASE Lost(k)
  <2>1. q # Nothing /\ CutShort(k) /\ UNCHANGED <<view, me, pickups>>
    BY <1>1, <1>15 DEF Lost
  <2>2. UNCHANGED cookie \/ q.await \in {"login", "logout"}
    BY <1>1, <1>15 DEF Lost, Arrived
  <2> QED
    BY <1>2, <1>5, <2>1, <2>2 DEF InStep
<1> QED
  BY <1>8, <1>9, <1>10, <1>11, <1>12, <1>13, <1>14, <1>15 DEF Arrive

LEMMA NextSettles ==
  ASSUME Answered, Settles, [PageNext]_pageVars
  PROVE  Settles'
<1>1. ASSUME NEW k \in Call,
             SignIn(k) \/ SignOut(k) \/ UseCode(k) \/ PlaceOrder(k) \/ Decide(k)
      PROVE  Settles'
  BY <1>1, ActSettles DEF SignIn, SignOut, UseCode, PlaceOrder, Decide
<1>2. CASE Expire \/ Elsewhere \/ AtBound \/ UNCHANGED pageVars
  <2>1. UNCHANGED <<who, cookie, view, me, pickups, call, cut, hasty>>
    BY <1>2 DEF Expire, Elsewhere, AtBound, pageVars
  <2> QED
    BY <2>1 DEF Settles, Orderly, InStep, ShowsOwn
<1> QED
  BY <1>1, <1>2, LoadSettles, ServeSettles, ArriveSettles DEF PageNext

\* As long as users wait for the page to come to rest, one function runs at a time
\* with the browser's own cookie; a refresh that ends leaves the codes of the person
\* the page names, and the forms after it leave nobody else's.
THEOREM PageSettles == PageSpec => []Settles
<1>1. PageInit => Settles
  BY InitSettles
<1>2. Answered /\ Settles /\ [PageNext]_pageVars => Settles'
  BY NextSettles
<1> QED
  BY <1>1, <1>2, PageAnswered, PTL DEF PageSpec

\* A page at rest names the person its cookie is of and shows only that person's
\* codes, whatever form was used last and however it ended, if its users always
\* waited for it and no load, sign-in or sign-out was cut short since a refresh ended.
THEOREM PageSettledShowsOwn == PageSpec => []SettledShowsOwn
<1>1. AtRest => \A k \in Call : call[k].tail # "all"
  BY NothingType DEF AtRest
<1>2. Settles => SettledShowsOwn
  BY <1>1 DEF Settles, Orderly, ShowsOwn, SettledShowsOwn
<1> QED
  BY <1>2, PageSettles, PTL
=============================================================================
